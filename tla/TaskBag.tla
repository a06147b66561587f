------------------------------ MODULE TaskBag -------------------------------
(***************************************************************************)
(* What a team's ready queue promises the scheduler: a task that was       *)
(* scheduled is handed to one worker, once.                                *)
(***************************************************************************)
CONSTANT Tasks

VARIABLES
    bag,     \* tasks that are scheduled and not handed out
    taken    \* tasks that were handed to a worker

Init == bag = {} /\ taken = {}

Put(x) == x \notin bag \cup taken /\ bag' = bag \cup {x} /\ UNCHANGED taken

Take(x) == x \in bag /\ bag' = bag \ {x} /\ taken' = taken \cup {x}

Next == \E x \in Tasks : Put(x) \/ Take(x)

Spec == Init /\ [][Next]_<<bag, taken>>
=============================================================================
