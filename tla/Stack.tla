------------------------------- MODULE Stack --------------------------------
(***************************************************************************)
(* What the intrusive lists of Kokkos_LIFO.hpp promise: a stack whose      *)
(* nodes belong to one thread or to the stack, and which may be closed for *)
(* good, to be emptied from the top.                                       *)
(***************************************************************************)
EXTENDS Sequences

CONSTANTS Threads, Nodes

VARIABLES
    items,    \* the nodes in the stack, the top one first
    held,     \* held[t]: the nodes that belong to t
    closed    \* nothing can be pushed any more

Init ==
    /\ items = <<>>
    /\ held \in [Threads -> SUBSET Nodes]
    /\ \A t, u \in Threads : t # u => held[t] \cap held[u] = {}
    /\ closed = FALSE

Push(t, n) ==
    /\ ~closed
    /\ n \in held[t]
    /\ items' = <<n>> \o items
    /\ held' = [held EXCEPT ![t] = @ \ {n}]
    /\ UNCHANGED closed

Pop(t) ==
    /\ items # <<>>
    /\ items' = Tail(items)
    /\ held' = [held EXCEPT ![t] = @ \cup {Head(items)}]
    /\ UNCHANGED closed

Close == ~closed /\ closed' = TRUE /\ UNCHANGED <<items, held>>

Next == Close \/ \E t \in Threads : Pop(t) \/ \E n \in Nodes : Push(t, n)

Spec == Init /\ [][Next]_<<items, held, closed>>
=============================================================================
