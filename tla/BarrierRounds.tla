--------------------------- MODULE BarrierRounds ----------------------------
(***************************************************************************)
(* The rounds of the host barrier: who calls it, how wide its counters are *)
(* and which thread the callers of a round agree on; its state; and what   *)
(* the callers build on.  The module HostBarrier has the steps.            *)
(***************************************************************************)
EXTENDS Integers, FiniteSets

CONSTANTS
    Size,     \* threads that share the barrier
    Wrap,     \* number of values of an int counter
    Last,     \* the source of a round that uses arrive(): whoever comes last
    Source    \* Source[k]: the thread all threads name in a round of step k

Threads == 0 .. Size - 1
Count == 0 .. Wrap - 1

ASSUME SizeAssumption == Size \in Nat /\ Size > 1
ASSUME WrapAssumption == Wrap \in Nat /\ Wrap > 1
ASSUME LastAssumption == Last \notin Threads
ASSUME SourceAssumption == Source \in [Count -> Threads \cup {Last}]

VARIABLES
    phase,   \* where each thread is
    step,    \* step[t]: rounds t has entered, its stack variable
    arrive,  \* buffer[arrive_idx]
    master,  \* buffer[master_idx]
    wait     \* buffer[wait_idx]

Inc(k) == (k + 1) % Wrap

\* t has entered the round that has not been released yet.
InRound(t) == step[t] = Inc(wait)

\* The threads counted in the current round.
Arrived == {t \in Threads : InRound(t) /\ phase[t] # "arriving"}

\* split_arrive or split_master_wait told t that it may run and release.
Running(t) == phase[t] \in {"alone", "releasing"}

\* The thread that rendezvous() or split_arrive() lets run is alone: every
\* other thread has arrived in the same round and cannot get out of its wait
\* ("All threads have entered 'team_rendezvous', only this thread returned
\* from 'team_rendezvous' with a return value of 'true'",
\* Kokkos_HostThreadTeam.hpp:564-566).
RunsAlone ==
    \A t, u \in Threads : (Running(t) /\ u # t) =>
        phase[u] = "waiting" /\ InRound(u) /\ step[u] = step[t]

\* No two threads are ever more than one round apart, and a thread that has
\* left the barrier has not left its companions behind in an older round.
AtMostOneRoundApart == \A t \in Threads : step[t] = wait \/ InRound(t)

-----------------------------------------------------------------------------
\* The barrier implements the rendezvous.
AbsIn == Arrived
AbsLeaving == {t \in Threads : phase[t] = "waiting" /\ step[t] = wait}
AbsMaster ==
    IF \E t \in Threads : Running(t) THEN CHOOSE t \in Threads : Running(t)
    ELSE Last

R == INSTANCE Rendezvous WITH Threads <- Threads, NoThread <- Last,
        in <- AbsIn, leaving <- AbsLeaving, master <- AbsMaster

\* Every step on the buffer is a step of the abstract rendezvous or none:
\* arriving, electing, releasing and leaving happen in that order.
ImplementsRendezvous == R!RSpec
=============================================================================
