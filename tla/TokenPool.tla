----------------------------- MODULE TokenPool ------------------------------
(***************************************************************************)
(* What UniqueToken promises its users: "acquire value such that           *)
(* 0 <= value < size()", a value that nobody else has until it is released.*)
(***************************************************************************)
EXTENDS Integers

CONSTANTS
    Users,   \* threads that acquire tokens
    None     \* what a user without a token has

VARIABLES
    size,    \* tokens there are
    owned    \* owned[u]: the token of u

poolVars == <<size, owned>>

Init == size \in Nat /\ owned = [u \in Users |-> None]

Take(u) ==
    /\ owned[u] = None
    /\ \E k \in 0 .. size - 1 :
        /\ \A v \in Users : owned[v] # k
        /\ owned' = [owned EXCEPT ![u] = k]
    /\ UNCHANGED size

Give(u) ==
    /\ owned[u] # None
    /\ owned' = [owned EXCEPT ![u] = None]
    /\ UNCHANGED size

Next == \E u \in Users : Take(u) \/ Give(u)

Spec == Init /\ [][Next]_poolVars
=============================================================================
