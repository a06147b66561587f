---------------------------- MODULE HostBarrier -----------------------------
(***************************************************************************)
(* The spinning barrier of core/src/impl/Kokkos_HostBarrier.hpp, driven    *)
(* the way HostThreadTeamData drives it: in every round each thread calls  *)
(* split_arrive; then one agreed thread, the source, passes                *)
(* split_master_wait, does something while it is alone, and calls          *)
(* split_release, while the others sit in wait().  A round may instead use *)
(* arrive(), where the last thread to arrive releases and everyone waits.  *)
(*                                                                         *)
(* The buffer's three ints and each thread's step wrap at 2^w = Wrap; one  *)
(* action is one atomic access to the buffer.  With one thread every call  *)
(* returns at once (size <= 1), so Size is at least 2.                     *)
(***************************************************************************)
EXTENDS BarrierRounds

vars == <<phase, step, arrive, master, wait>>

Init ==
    /\ phase = [t \in Threads |-> "out"]
    /\ step = [t \in Threads |-> 0]
    /\ arrive = 0 /\ master = 0 /\ wait = 0

\* split_arrive: ++step.
Enter(t) ==
    /\ phase[t] = "out"
    /\ step' = [step EXCEPT ![t] = Inc(@)]
    /\ phase' = [phase EXCEPT ![t] = "arriving"]
    /\ UNCHANGED <<arrive, master, wait>>

IsLastEarly(old) == old = Size - 2

\* Does the thread whose fetch_add returned old see itself as the last one?
IsLast(old) == old = Size - 1

\* split_arrive: atomic_fetch_add on buffer[arrive_idx].
CountIn(t) ==
    /\ phase[t] = "arriving"
    /\ arrive' = arrive + 1
    /\ phase' = [phase EXCEPT ![t] = IF IsLast(arrive) THEN "signal" ELSE "waiting"]
    /\ UNCHANGED <<step, master, wait>>

\* split_arrive of the last thread: atomic_fetch_add on buffer[master_idx].
\* arrive() goes on to split_release, a rendezvous to one of the two waits.
Signal(t) ==
    /\ phase[t] = "signal"
    /\ master' = Inc(master)
    /\ phase' = [phase EXCEPT ![t] = IF Source[step[t]] = Last THEN "alone" ELSE "waiting"]
    /\ UNCHANGED <<step, arrive, wait>>

\* split_master_wait of the source sees buffer[master_idx] = step and returns.
MasterWait(t) ==
    /\ phase[t] = "waiting"
    /\ t = Source[step[t]]
    /\ master = step[t]
    /\ phase' = [phase EXCEPT ![t] = "alone"]
    /\ UNCHANGED <<step, arrive, master, wait>>

\* wait() of any other thread sees buffer[wait_idx] = step and returns.
Wait(t) ==
    /\ phase[t] = "waiting"
    /\ t # Source[step[t]]
    /\ wait = step[t]
    /\ phase' = [phase EXCEPT ![t] = "out"]
    /\ UNCHANGED <<step, arrive, master, wait>>

ResetForgotten(t) ==
    /\ phase[t] = "alone"
    /\ phase' = [phase EXCEPT ![t] = "releasing"]
    /\ UNCHANGED <<step, arrive, master, wait>>

\* split_release: atomic_fetch_sub on buffer[arrive_idx].
Reset(t) ==
    /\ phase[t] = "alone"
    /\ arrive' = arrive - Size
    /\ phase' = [phase EXCEPT ![t] = "releasing"]
    /\ UNCHANGED <<step, master, wait>>

\* split_release: atomic_fetch_add on buffer[wait_idx].  The source is done;
\* the last thread of an arrive() round has its own wait() to call.
Free(t) ==
    /\ phase[t] = "releasing"
    /\ wait' = Inc(wait)
    /\ phase' = [phase EXCEPT ![t] = IF Source[step[t]] = Last THEN "waiting" ELSE "out"]
    /\ UNCHANGED <<step, arrive, master>>

Step(t) ==
    \/ Enter(t) \/ CountIn(t) \/ Signal(t)
    \/ MasterWait(t) \/ Wait(t) \/ Reset(t) \/ Free(t)

Next == \E t \in Threads : Step(t)

\* Every thread of a pool or team keeps running and makes the same calls.
Fairness == \A t \in Threads : WF_vars(Step(t))

Spec == Init /\ [][Next]_vars /\ Fairness

-----------------------------------------------------------------------------
\* The states of the threads and the shared counters; the arrivals of a round are
\* never more than the team has threads.
TypeOK ==
    /\ phase \in [Threads ->
               {"out", "arriving", "signal", "waiting", "alone", "releasing"}]
    /\ step \in [Threads -> Count]
    /\ arrive \in 0 .. Size /\ master \in Count /\ wait \in Count
=============================================================================
