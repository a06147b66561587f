-------------------------------- MODULE Life --------------------------------
(***************************************************************************)
(* The rules of the game and the boards of example/homework/02.  A board   *)
(* of R rows and C columns is a function from rows to functions from       *)
(* columns to 0 or 1; the world wraps in both directions.                  *)
(***************************************************************************)
EXTENDS Integers, FiniteSets

Deltas == ((-1 .. 1) \X (-1 .. 1)) \ {<<0, 0>>}

\* The rule, the same in all three programs.
NewCell(mycell, neighbor_count) ==
    IF mycell = 0 THEN IF neighbor_count = 3 THEN 1 ELSE 0
                  ELSE IF neighbor_count \in {2, 3} THEN 1 ELSE 0

\* update_domain of serial-gol.cpp, which wraps by arithmetic on the indices.
SerialUpdate(old, R, C) ==
    [i \in 0 .. R - 1 |-> [j \in 0 .. C - 1 |->
        NewCell(old[i][j],
                Cardinality({d \in Deltas :
                    old[(i + d[1] + R) % R][(j + d[2] + C) % C] = 1}))]]

\* The warped_domain of init.cpp: the rank's rows between its two ghost rows,
\* with the opposite edge column on either side.
Warped(old, north, south, M, N) ==
    [i \in 0 .. M + 1 |-> [j \in 0 .. N + 1 |->
        LET row == CASE i = 0 -> north [] i = M + 1 -> south [] OTHER -> old[i - 1]
        IN row[(j - 1 + N) % N]]]

\* The rest of update_domain: the inner cells of the warped domain.
LocalUpdate(old, north, south, M, N) ==
    LET warped == Warped(old, north, south, M, N) IN
    [i \in 0 .. M - 1 |-> [j \in 0 .. N - 1 |->
        NewCell(warped[i + 1][j + 1],
                Cardinality({d \in Deltas : warped[i + 1 + d[1]][j + 1 + d[2]] = 1}))]]

-----------------------------------------------------------------------------
\* The cells <<row, column>> that the populate functions set on a board of R
\* rows and C columns; a pattern that does not fit leaves the board empty.
Default(R, C) ==
    IF C >= 8 /\ R >= 10
    THEN {<<0, C - 1>>, <<0, 0>>, <<0, 1>>, <<3, 5>>, <<3, 6>>, <<3, 7>>}
         \cup ((6 .. 9) \X {7})
    ELSE {}

Glider(R, C) ==
    IF C >= 3 /\ R >= 3 THEN {<<0, 1>>, <<1, 2>>, <<2, 0>>, <<2, 1>>, <<2, 2>>} ELSE {}

Cap(R, C) ==
    IF C >= 13 /\ R >= 13
    THEN ({9} \X {10, 11}) \cup ({10} \X {9, 12}) \cup ({11} \X (9 .. 12))
    ELSE {}

\* Columns 0, 3, 4 and 7 of every row; with 7 columns the last of the four is
\* the first cell of the next row, which is set anyway, or past the end.
MySnake(R, C) ==
    IF C >= 7 /\ R >= 1
    THEN {<<(i * C + k) \div C, (i * C + k) % C>> : i \in 0 .. R - 1, k \in {0, 3, 4, 7}}
         \cap ((0 .. R - 1) \X (0 .. C - 1))
    ELSE {}

\* The last pattern differs: populate_bad_acorn of init.cpp ...
BadAcorn(R, C) ==
    IF C >= 60 /\ R >= 55
    THEN {<<50, 51>>, <<51, 54>>} \cup ({52} \X {50, 51, 54, 55, 56})
    ELSE {}

\* ... and of serial-gol.cpp, where half_row is computed from the row itself.
SerialBadAcorn(R, C) ==
    LET half_row(g) == (g \div 2) - 1
        half_col == (C \div 2) - 3
        cells(g) == CASE g = half_row(g) -> {1}
                      [] g = half_row(g) + 1 -> {3}
                      [] g = half_row(g) + 2 -> {0, 1, 4, 5, 6}
                      [] OTHER -> {}
    IN IF C >= 10 /\ R >= 5
       THEN UNION {{<<g, half_col + k>> : k \in cells(g)} : g \in 0 .. R - 1}
       ELSE {}

\* The board with exactly these live cells.
Board(live, R, C) ==
    [i \in 0 .. R - 1 |-> [j \in 0 .. C - 1 |-> IF <<i, j>> \in live THEN 1 ELSE 0]]
=============================================================================
