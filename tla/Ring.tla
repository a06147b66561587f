-------------------------------- MODULE Ring --------------------------------
(***************************************************************************)
(* The message ring of example/homework/01/init.cpp.  Every rank runs the  *)
(* same main(): rank 0 starts the token, every rank receives it from its   *)
(* predecessor and passes it to its successor, N times round.              *)
(*                                                                         *)
(* MPI_Isend followed by MPI_Wait is two steps.  The library may buffer    *)
(* the message (the Wait returns at once) or wait for the matching receive *)
(* (rendezvous); the standard leaves the choice to it, so each send        *)
(* chooses.  MPI_Irecv followed at once by its MPI_Wait is one step, the   *)
(* match: nothing of this rank happens between the two.                    *)
(***************************************************************************)
EXTENDS Naturals, Sequences

CONSTANTS
    Size,   \* number of processes, MPI_Comm_size
    N       \* rounds, the local n of main()

ASSUME SizeAssumption == Size \in Nat \ {0}
ASSUME NAssumption == N \in Nat \ {0}

VARIABLES
    pc,       \* where each rank is in main()
    i,        \* its loop counter
    message,  \* its token buffer
    chan,     \* chan[s][d]: values sent by s to d and not yet received
    unmatched,\* unmatched[r]: r's last send is rendezvous and not yet received
    printed   \* printed[r]: the <<ring, message>> lines r wrote

vars == <<pc, i, message, chan, unmatched, printed>>

Ranks == 0 .. Size - 1

\* The two neighbours: the source of line 35, the destination of line 47.
Pred(r) == IF r = 0 THEN Size - 1 ELSE r - 1
Succ(r) == (r + 1) % Size

\* The top of the for loop: leave it, or start iteration k.
LoopHead(r, k) ==
    IF k >= N THEN "finalize"
    ELSE IF r = 0 /\ k = 0 THEN "isend" ELSE "recv"

Init ==
    /\ pc = [r \in Ranks |-> "start"]
    /\ i = [r \in Ranks |-> 0]
    /\ message = [r \in Ranks |-> 0]
    /\ chan = [s \in Ranks |-> [d \in Ranks |-> <<>>]]
    /\ unmatched = [r \in Ranks |-> FALSE]
    /\ printed = [r \in Ranks |-> <<>>]

\* A single process is no ring: it finalizes without entering the loop.
Start(r) ==
    /\ pc[r] = "start"
    /\ pc' = [pc EXCEPT ![r] = IF Size = 1 THEN "finalize" ELSE LoopHead(r, 0)]
    /\ UNCHANGED <<i, message, chan, unmatched, printed>>

\* Send the token on; the library chooses whether the Wait needs the match.
Isend(r) ==
    /\ pc[r] = "isend"
    /\ chan' = [chan EXCEPT ![r][Succ(r)] = Append(@, message[r])]
    /\ \E rendezvous \in BOOLEAN : unmatched' = [unmatched EXCEPT ![r] = rendezvous]
    /\ pc' = [pc EXCEPT ![r] = "waitsend"]
    /\ UNCHANGED <<i, message, printed>>

\* MPI_Wait on the send, and the end of the loop body.
WaitSend(r) ==
    /\ pc[r] = "waitsend"
    /\ ~unmatched[r]
    /\ i' = [i EXCEPT ![r] = @ + 1]
    /\ pc' = [pc EXCEPT ![r] = LoopHead(r, i[r] + 1)]
    /\ UNCHANGED <<message, chan, unmatched, printed>>

SendsInAlways(r, k) == TRUE

\* The last rank does not send in the last round.
SendsIn(r, k) == k # N - 1 \/ r # Size - 1

CountsEverywhere(r) == TRUE

\* Rank 0 increases the token once it has made a full loop.
Counts(r) == r = 0

\* Receive the token, print it, and (rank 0) count the finished loop.
Recv(r) ==
    /\ pc[r] = "recv"
    /\ chan[Pred(r)][r] # <<>>
    /\ LET m == Head(chan[Pred(r)][r]) IN
       /\ printed' = [printed EXCEPT ![r] = Append(@, <<i[r], m>>)]
       /\ message' = [message EXCEPT ![r] = IF Counts(r) THEN m + 1 ELSE m]
    /\ chan' = [chan EXCEPT ![Pred(r)][r] = Tail(@)]
    /\ unmatched' = [unmatched EXCEPT ![Pred(r)] = FALSE]
    /\ IF SendsIn(r, i[r])
       THEN /\ pc' = [pc EXCEPT ![r] = "isend"]
            /\ UNCHANGED i
       ELSE /\ i' = [i EXCEPT ![r] = @ + 1]
            /\ pc' = [pc EXCEPT ![r] = LoopHead(r, i[r] + 1)]

\* MPI_Finalize and return; no communication may be pending on this rank.
Finalize(r) ==
    /\ pc[r] = "finalize"
    /\ pc' = [pc EXCEPT ![r] = "done"]
    /\ UNCHANGED <<i, message, chan, unmatched, printed>>

AllDone == \A r \in Ranks : pc[r] = "done"

\* Every process has returned from main().
Terminated == AllDone /\ UNCHANGED vars

Step(r) == Start(r) \/ Isend(r) \/ WaitSend(r) \/ Recv(r) \/ Finalize(r)

Next == (\E r \in Ranks : Step(r)) \/ Terminated

Spec == Init /\ [][Next]_vars /\ \A r \in Ranks : WF_vars(Step(r))

-----------------------------------------------------------------------------
\* The states of the ranks; a rank prints only tokens and loop numbers.
TypeOK ==
    /\ pc \in [Ranks -> {"start", "isend", "waitsend", "recv", "finalize", "done"}]
    /\ i \in [Ranks -> 0 .. N]
    /\ message \in [Ranks -> 0 .. N]
    /\ chan \in [Ranks -> [Ranks -> Seq(0 .. N)]]
    /\ unmatched \in [Ranks -> BOOLEAN]
    /\ printed \in [Ranks -> Seq(Nat \X Nat)]

\* The token rank r reads in round k: rank 0 reads what the loop before left.
TokenIn(r, k) == IF r = 0 THEN k - 1 ELSE k

\* What the program prints: rank r's line of ring k shows the number of loops
\* the token had completed, whatever the library buffers.
PrintsLoopCount ==
    \A r \in Ranks : \A k \in 1 .. Len(printed[r]) :
        printed[r][k][2] = TokenIn(r, printed[r][k][1])

\* A rank is about to send the token on.
Holds(r) == pc[r] = "isend"

\* There is one token: never two messages in the ring, never a message while a
\* rank holds it; and none is left when all ranks have returned ("or else it will
\* deadlock bc it will not be received", line 45).
OneToken ==
    LET full == {c \in Ranks \X Ranks : chan[c[1]][c[2]] # <<>>} IN
    /\ \A c \in full : full = {c} /\ Len(chan[c[1]][c[2]]) = 1
    /\ full = {} \/ \A r \in Ranks : ~Holds(r)
    /\ AllDone => full = {}

\* Every process returns from main(), whatever the library buffers.
EveryRankReturns == <>AllDone
=============================================================================
