----------------------------- MODULE GameOfLife -----------------------------
(***************************************************************************)
(* The parallel game of life of example/homework/02/init.cpp.  Each of     *)
(* Procs MPI processes owns M consecutive rows of the board.  In every      *)
(* iteration it exchanges its edge rows with the ranks above and below     *)
(* (nonblocking, all with tag 0), waits for the four requests and for a    *)
(* barrier, computes its rows of the next board, meets the others at a     *)
(* second barrier and contributes its rows to rank 0, which prints.        *)
(*                                                                         *)
(* MPI is modelled by what its standard promises: messages between two     *)
(* ranks match the receives in the order of the calls; a send completes    *)
(* when it is matched, or (eager) at once; a send that is not eager reads  *)
(* its buffer when it is matched.  MPI_Gather only keeps rank 0 waiting.   *)
(***************************************************************************)
EXTENDS Life, Sequences

CONSTANTS
    Launches,    \* how the program may be started: records with the fields
                 \* size (MPI_Comm_size), rows, cols, iterations (the three
                 \* arguments), parallel and serial (the live cells that the
                 \* populate functions of init.cpp and serial-gol.cpp set)
    MaxSize      \* the largest size of a launch

\* What mpirun and the command line can give.
LaunchParameters ==
    \A l \in Launches : /\ l.size \in Nat \ {0}
                        /\ l.rows \in Nat /\ l.cols \in Nat /\ l.iterations \in Nat

\* The two programs place the pattern alike.
PlacedAlike == \A l \in Launches : l.parallel = l.serial

VARIABLES
    launch,    \* the record of this execution
    eager,     \* does the library buffer small messages?
    pc,        \* where each rank is
    iter,      \* its loop counter
    buf,       \* buf[r][0], buf[r][1]: its two domains
    even,      \* even[r]: the index of the one that even_domain points to
    op,        \* op[r]: the next call of the exchange
    chan,      \* chan[s][d]: sends from s to d that are not matched yet
    posted,    \* posted[d][s]: receives of d from s that are not matched yet
    ghost,     \* ghost[r]: ghost_cells_north and ghost_cells_south
    entered,   \* entered[r]: barriers r has entered
    gathered,  \* gathered[r]: contributions to MPI_Gather not yet at the root
    printed    \* the boards rank 0 has printed

vars == <<launch, eager, pc, iter, buf, even, op, chan, posted, ghost, entered,
          gathered, printed>>

Procs == launch.size
Rows == launch.rows        \* original_M
Cols == launch.cols        \* N
Iterations == launch.iterations
Ranks == 0 .. Procs - 1
M == Rows \div Procs
Sides == {"north", "south"}

\* global_north and global_south.
Peer(r, side) ==
    IF side = "north" THEN IF r = 0 THEN Procs - 1 ELSE r - 1
                      ELSE IF r = Procs - 1 THEN 0 ELSE r + 1

ReceivesSwapped ==
    <<[call |-> "isend", side |-> "north"], [call |-> "irecv", side |-> "north"],
      [call |-> "isend", side |-> "south"], [call |-> "irecv", side |-> "south"]>>

ExchangeHalf ==
    <<[call |-> "isend", side |-> "north"], [call |-> "irecv", side |-> "south"],
      [call |-> "irecv", side |-> "north"]>>

\* The four calls in their order.  The row sent to a side is the edge row on
\* that side, and the row received from it becomes the ghost row there.
Exchange ==
    <<[call |-> "isend", side |-> "north"], [call |-> "irecv", side |-> "south"],
      [call |-> "isend", side |-> "south"], [call |-> "irecv", side |-> "north"]>>

EdgeRow(domain, side) == IF side = "north" THEN domain[0] ELSE domain[M - 1]

Zero(rows) == [i \in 0 .. rows - 1 |-> [j \in 0 .. Cols - 1 |-> 0]]

\* populate: the rows of the pattern that fall to rank r.
Populated(r) ==
    LET board == Board(launch.parallel, Rows, Cols) IN [i \in 0 .. M - 1 |-> board[r * M + i]]

Init ==
    /\ launch \in Launches
    /\ eager \in BOOLEAN
    /\ pc = [r \in Ranks |-> "start"]
    /\ iter = [r \in Ranks |-> 0]
    /\ buf = [r \in Ranks |-> [b \in {0, 1} |-> Zero(M)]]
    /\ even = [r \in Ranks |-> 0]
    /\ op = [r \in Ranks |-> 1]
    /\ chan = [s \in Ranks |-> [d \in Ranks |-> <<>>]]
    /\ posted = [d \in Ranks |-> [s \in Ranks |-> <<>>]]
    /\ ghost = [r \in Ranks |-> [side \in Sides |-> Zero(1)[0]]]
    /\ entered = [r \in Ranks |-> 0]
    /\ gathered = [r \in Ranks |-> <<>>]
    /\ printed = <<>>

\* The checks on the arguments.
Accepts == Rows >= Procs /\ Rows % Procs = 0

Start(r) ==
    /\ pc[r] = "start"
    /\ IF Accepts
       THEN /\ buf' = [buf EXCEPT ![r][0] = Populated(r)]
            /\ pc' = [pc EXCEPT ![r] = "gather"]
       ELSE /\ pc' = [pc EXCEPT ![r] = "done"]
            /\ UNCHANGED buf
    /\ UNCHANGED <<launch, eager, iter, even, op, chan, posted, ghost, entered,
                   gathered, printed>>

\* What MPI_Gather sends: the initial domain, and in the loop the new one.
Contribution(r) == buf[r][IF iter[r] = 0 THEN even[r] ELSE 1 - even[r]]

\* The end of an iteration, after the gather: swap the pointers and go round.
\* The initial gather comes before the loop, so iter counts from 1 in the loop.
NextIteration(r) ==
    /\ even' = [even EXCEPT ![r] = IF iter[r] = 0 THEN @ ELSE 1 - @]
    /\ iter' = [iter EXCEPT ![r] = @ + 1]
    /\ pc' = [pc EXCEPT ![r] = IF iter[r] < Iterations THEN "exchange" ELSE "finalize"]

\* MPI_Gather of the other ranks.
Gather(r) ==
    /\ pc[r] = "gather"
    /\ r # 0
    /\ gathered' = [gathered EXCEPT ![r] = Append(@, Contribution(r))]
    /\ NextIteration(r)
    /\ UNCHANGED <<launch, eager, buf, op, chan, posted, ghost, entered, printed>>

\* MPI_Gather of rank 0, and printing the ranks' rows one below the other.
GatherRoot ==
    LET part == [r \in Ranks |-> IF r = 0 THEN Contribution(0) ELSE Head(gathered[r])]
    IN
    /\ pc[0] = "gather"
    /\ \A r \in Ranks \ {0} : gathered[r] # <<>>
    /\ printed' = Append(printed, [i \in 0 .. Procs * M - 1 |-> part[i \div M][i % M]])
    /\ gathered' = [r \in Ranks |-> IF r = 0 THEN <<>> ELSE Tail(gathered[r])]
    /\ NextIteration(0)
    /\ UNCHANGED <<launch, eager, buf, op, chan, posted, ghost, entered>>

\* One nonblocking call of update_domain.
Post(r) ==
    LET side == Exchange[op[r]].side
        peer == Peer(r, side)
    IN
    /\ pc[r] = "exchange"
    /\ IF Exchange[op[r]].call = "isend"
       THEN /\ chan' = [chan EXCEPT ![r][peer] = Append(@,
                  [buf |-> even[r], side |-> side, row |-> EdgeRow(buf[r][even[r]], side)])]
            /\ UNCHANGED posted
       ELSE /\ posted' = [posted EXCEPT ![r][peer] = Append(@, side)]
            /\ UNCHANGED chan
    /\ op' = [op EXCEPT ![r] = (@ % Len(Exchange)) + 1]
    /\ pc' = [pc EXCEPT ![r] = IF op[r] = Len(Exchange) THEN "waitall" ELSE "exchange"]
    /\ UNCHANGED <<launch, eager, iter, buf, even, ghost, entered, gathered, printed>>

\* The library matches the oldest send with the oldest receive.
Match(s, d) ==
    /\ chan[s][d] # <<>> /\ posted[d][s] # <<>>
    /\ LET m == Head(chan[s][d]) IN
       ghost' = [ghost EXCEPT ![d][Head(posted[d][s])] =
                    IF eager THEN m.row ELSE EdgeRow(buf[s][m.buf], m.side)]
    /\ chan' = [chan EXCEPT ![s][d] = Tail(@)]
    /\ posted' = [posted EXCEPT ![d][s] = Tail(@)]
    /\ UNCHANGED <<launch, eager, pc, iter, buf, even, op, entered, gathered, printed>>

CompleteAtOnce(r) == TRUE

\* All four requests of r are complete.
Complete(r) ==
    /\ \A s \in Ranks : posted[r][s] = <<>>
    /\ eager \/ \A s \in Ranks : chan[r][s] = <<>>

\* MPI_Waitall, and into the first barrier.
Waitall(r) ==
    /\ pc[r] = "waitall"
    /\ Complete(r)
    /\ entered' = [entered EXCEPT ![r] = @ + 1]
    /\ pc' = [pc EXCEPT ![r] = "barrier"]
    /\ UNCHANGED <<launch, eager, iter, buf, even, op, chan, posted, ghost, gathered,
                   printed>>

\* Every rank has entered the barrier that r is in.
BarrierOpen(r) == \A s \in Ranks : entered[s] >= entered[r]

\* Out of the first barrier, the new domain, and into the second one.
Compute(r) ==
    /\ pc[r] = "barrier"
    /\ BarrierOpen(r)
    /\ buf' = [buf EXCEPT ![r][1 - even[r]] =
          LocalUpdate(buf[r][even[r]], ghost[r]["north"], ghost[r]["south"], M, Cols)]
    /\ entered' = [entered EXCEPT ![r] = @ + 1]
    /\ pc' = [pc EXCEPT ![r] = "barrier2"]
    /\ UNCHANGED <<launch, eager, iter, even, op, chan, posted, ghost, gathered, printed>>

\* Out of the second barrier, of main().
Barrier2(r) ==
    /\ pc[r] = "barrier2"
    /\ BarrierOpen(r)
    /\ pc' = [pc EXCEPT ![r] = "gather"]
    /\ UNCHANGED <<launch, eager, iter, buf, even, op, chan, posted, ghost, entered,
                   gathered, printed>>

\* MPI_Finalize and return.
Finalize(r) ==
    /\ pc[r] = "finalize"
    /\ pc' = [pc EXCEPT ![r] = "done"]
    /\ UNCHANGED <<launch, eager, iter, buf, even, op, chan, posted, ghost, entered,
                   gathered, printed>>

AllDone == \A r \in Ranks : pc[r] = "done"

\* Every process has returned.
Terminated == AllDone /\ UNCHANGED vars

Step(r) ==
    \/ Start(r) \/ Gather(r) \/ (r = 0 /\ GatherRoot) \/ Post(r) \/ Waitall(r)
    \/ Compute(r) \/ Barrier2(r) \/ Finalize(r)

Next ==
    \/ \E r \in Ranks : Step(r)
    \/ \E s, d \in Ranks : Match(s, d)
    \/ Terminated

Processes == 0 .. MaxSize - 1
RankSteps(r) == r \in Ranks /\ Step(r)
Matches(s, d) == s \in Ranks /\ d \in Ranks /\ Match(s, d)

\* The processes run, and the library delivers what can be matched.
Spec ==
    /\ Init /\ [][Next]_vars
    /\ \A r \in Processes : WF_vars(RankSteps(r))
    /\ \A s, d \in Processes : WF_vars(Matches(s, d))

-----------------------------------------------------------------------------
\* The states of the ranks; never more than the two messages of one iteration are
\* queued from one rank to another, nor more than their receives.
TypeOK ==
    /\ pc \in [Ranks -> {"start", "gather", "exchange", "waitall", "barrier",
                         "barrier2", "finalize", "done"}]
    /\ iter \in [Ranks -> 0 .. Iterations + 1]
    /\ even \in [Ranks -> {0, 1}]
    /\ op \in [Ranks -> 1 .. 4]
    /\ \A r \in Ranks : \A b \in {0, 1} : \A i \in 0 .. M - 1 :
           buf[r][b][i] \in [0 .. Cols - 1 -> {0, 1}]
    /\ \A s, d \in Ranks : Len(chan[s][d]) <= 2 /\ Len(posted[d][s]) <= 2

\* The reference: the boards that serial-gol.cpp prints.
SerialBoard[k \in 0 .. Iterations] ==
    IF k = 0 THEN Board(launch.serial, Rows, Cols)
    ELSE SerialUpdate(SerialBoard[k - 1], Rows, Cols)

\* "Both init.cpp and serial-gol.cpp have the same output for these various
\* patterns" (READTHISPLEASE.txt:4): rank 0 prints the boards of the serial
\* program, however the ranks and their messages interleave, and also when both
\* neighbours of a rank are one rank.
SameOutputAsSerial ==
    \A k \in 1 .. Len(printed) : printed[k] = SerialBoard[k - 1]

\* A row that the library has not taken yet is not overwritten, so it makes no
\* difference whether a send is buffered.
SendBufferStable ==
    [][\A s, d \in Ranks : \A n \in 1 .. Len(chan[s][d]) :
         LET m == chan[s][d][n] IN EdgeRow(buf'[s][m.buf], m.side) = m.row]_vars

\* Every process returns, after the right number of boards were printed.
EveryRankReturns ==
    <>(AllDone /\ (Accepts => Len(printed) = Iterations + 1))
=============================================================================
