----------------------------- MODULE Rendezvous -----------------------------
(***************************************************************************)
(* What a split rendezvous promises its callers: once every thread has     *)
(* arrived, one of them runs alone until it releases the others.           *)
(* Nothing here says how the threads agree; HostBarrier implements it, and *)
(* the modules whose threads meet at a rendezvous build on its actions.    *)
(***************************************************************************)
EXTENDS FiniteSets

CONSTANTS Threads   \* the threads that share the rendezvous
CONSTANTS NoThread  \* "no thread runs alone"

VARIABLES
    in,       \* threads that arrived in the current round
    leaving,  \* threads released from the last round that still have to go
    master    \* the thread that runs alone, or NoThread

rvars == <<in, leaving, master>>

RInit == in = {} /\ leaving = {} /\ master = NoThread

Arrive(t) ==
    /\ t \notin in \cup leaving
    /\ in' = in \cup {t}
    /\ UNCHANGED <<leaving, master>>

\* Everyone has arrived: s returns, the others keep waiting.
Elect(s) ==
    /\ in = Threads
    /\ master = NoThread
    /\ master' = s
    /\ UNCHANGED <<in, leaving>>

\* s lets the others go; s itself is already out, or still has to leave.
Release(s) ==
    /\ master = s
    /\ master' = NoThread
    /\ in' = {}
    /\ leaving' \in {Threads, Threads \ {s}}

Leave(t) ==
    /\ t \in leaving
    /\ leaving' = leaving \ {t}
    /\ UNCHANGED <<in, master>>

RStep(t) == Arrive(t) \/ Elect(t) \/ Release(t) \/ Leave(t)

RNext == \E t \in Threads : RStep(t)

RSpec == RInit /\ [][RNext]_rvars
=============================================================================
