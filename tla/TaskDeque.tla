----------------------------- MODULE TaskDeque ------------------------------
(***************************************************************************)
(* One ready queue of a MultipleTaskQueueTeamEntry: the ChaseLevDeque that *)
(* the owning worker pushes to and pops from and that other workers steal  *)
(* from, and the owner's list of the tasks that found the deque full.      *)
(* (core/src/impl/Kokkos_ChaseLev.hpp, Kokkos_MultipleTaskQueue.hpp.)      *)
(*                                                                         *)
(* One action is one access to memory that a thief also uses, with the     *)
(* owner's local code around it.  Memory is sequentially consistent.  The  *)
(* entry has such a queue for every priority and kind of task; they share  *)
(* nothing.                                                                *)
(***************************************************************************)
EXTENDS Integers

CONSTANTS
    Thieves,    \* the workers of the other queues
    MaxTasks,   \* bound on the tasks that are scheduled
    Capacity,   \* size of the circular buffer
    None        \* no task: a null pointer

\* Tasks are numbered in the order in which they are scheduled.
Tasks == 1 .. MaxTasks

\* The buffer has room for something, and no task is at the null pointer.
QueueParameters == Capacity \in Nat \ {0} /\ MaxTasks \in Nat /\ None \notin Tasks

VARIABLES
    array,         \* m_array: the circular buffer
    top, bottom,   \* m_top and m_bottom
    failed_head,   \* the list of tasks that were not inserted ...
    next,          \* ... linked through their scheduling info
    state,         \* state[x]: how far the task x has come
    owner,         \* locals of the owner's call
    thief,         \* thief[p]: locals of p's steal
    hosted,        \* tasks are spawned by the host, no worker has started
    undefined      \* an access whose outcome C++ does not define, if any

vars == <<array, top, bottom, failed_head, next, state, owner, thief, hosted, undefined>>

Resting == [at |-> "idle", task |-> None, b |-> 0, then |-> "return"]
Looking == [at |-> "idle", task |-> None, t |-> 0]

\* A queue in new memory, before parallel execution of the tasks.
Init ==
    /\ array = [i \in 0 .. Capacity - 1 |-> None]
    /\ top = 0 /\ bottom = 0
    /\ failed_head = None
    /\ next = [x \in Tasks |-> None]
    /\ state = [x \in Tasks |-> "new"]
    /\ owner = Resting
    /\ thief = [p \in Thieves |-> Looking]
    /\ hosted = TRUE
    /\ undefined = "nothing"

Owner(where) == owner.at = where
Goto(where) == owner' = [owner EXCEPT !.at = where]

\* push refuses: "queue is full".
Full(b, t) == b - t > Capacity - 1

-----------------------------------------------------------------------------
\* do_schedule_runnable: the task goes to push; failed tasks are flushed next.
Schedule(x) ==
    /\ Owner("idle")
    /\ state[x] = "new"
    /\ \A y \in Tasks : y < x => state[y] # "new"
    /\ owner' = [at |-> "push", task |-> x, b |-> 0, then |-> "return"]
    /\ state' = [state EXCEPT ![x] = "scheduled"]
    /\ UNCHANGED <<array, top, bottom, failed_head, next, thief, hosted, undefined>>

\* push: loads bottom and top.
PushHasRoom ==
    /\ Owner("push")
    /\ ~Full(bottom, top)
    /\ owner' = [owner EXCEPT !.at = "write", !.b = bottom]
    /\ UNCHANGED <<array, top, bottom, failed_head, next, state, thief, hosted, undefined>>

PushFailsIgnored ==
    /\ Owner("push")
    /\ Full(bottom, top)
    /\ owner.task # failed_head
    /\ Goto("flush")
    /\ UNCHANGED <<array, top, bottom, failed_head, next, state, thief, hosted, undefined>>

\* push fails for a new task: handle_failed_ready_queue_insertion links it in
\* at the head of the list.  The host has no team, its list would be entry -1.
PushFails ==
    /\ Owner("push")
    /\ Full(bottom, top)
    /\ owner.task # failed_head
    /\ IF hosted
       THEN undefined' = "no such queue" /\ UNCHANGED <<failed_head, next, owner>>
       ELSE /\ next' = [next EXCEPT ![owner.task] = failed_head]
            /\ failed_head' = owner.task
            /\ Goto("flush")
            /\ UNCHANGED undefined
    /\ UNCHANGED <<array, top, bottom, state, thief, hosted>>

\* push fails for a task of the list: "no more room, stop traversing".
FlushStops ==
    /\ Owner("push")
    /\ Full(bottom, top)
    /\ owner.task = failed_head
    /\ Goto(owner.then)
    /\ UNCHANGED <<array, top, bottom, failed_head, next, state, thief, hosted, undefined>>

PushWrites ==
    /\ Owner("write")
    /\ array' = [array EXCEPT ![owner.b % Capacity] = owner.task]
    /\ Goto("publish")
    /\ UNCHANGED <<top, bottom, failed_head, next, state, thief, hosted, undefined>>

PushPublishes ==
    /\ Owner("publish")
    /\ bottom' = owner.b + 1
    /\ Goto(IF owner.task = failed_head THEN "step" ELSE "flush")
    /\ UNCHANGED <<array, top, failed_head, next, state, thief, hosted, undefined>>

\* flush_failed_insertions: "Step to the next linked list element", read from
\* the task that was just pushed.
FlushSteps ==
    /\ Owner("step")
    /\ IF state[failed_head] = "freed"
       THEN undefined' = "read of a freed task" /\ UNCHANGED <<failed_head, owner>>
       ELSE failed_head' = next[failed_head] /\ Goto("flush") /\ UNCHANGED undefined
    /\ UNCHANGED <<array, top, bottom, next, state, thief, hosted>>

\* The head of flush_failed_insertions' loop.
Flush ==
    /\ Owner("flush")
    /\ owner' = IF failed_head = None
                THEN [owner EXCEPT !.at = owner.then]
                ELSE [owner EXCEPT !.at = "push", !.task = failed_head]
    /\ UNCHANGED <<array, top, bottom, failed_head, next, state, thief, hosted, undefined>>

-----------------------------------------------------------------------------
\* pop_ready_task of the owner's team: flush, then look for a task.
PopReadyTask ==
    /\ Owner("idle")
    /\ ~hosted
    /\ owner' = [Resting EXCEPT !.at = "flush", !.then = "pop"]
    /\ UNCHANGED <<array, top, bottom, failed_head, next, state, thief, hosted, undefined>>

Takes(x) == state' = [state EXCEPT ![x] = "taken"]

\* _pop_failed_insertion.
PopFailedInsertion ==
    /\ Owner("pop")
    /\ failed_head # None
    /\ failed_head' = next[failed_head]
    /\ Takes(failed_head)
    /\ owner' = [owner EXCEPT !.at = "return", !.task = failed_head]
    /\ UNCHANGED <<array, top, bottom, next, thief, hosted, undefined>>

\* pop: bottom is lowered before top is read.
PopLowers ==
    /\ Owner("pop")
    /\ failed_head = None
    /\ bottom' = bottom - 1
    /\ owner' = [owner EXCEPT !.at = "top", !.b = bottom - 1]
    /\ UNCHANGED <<array, top, failed_head, next, state, thief, hosted, undefined>>

TakesBottomLast(t, b) == t <= b

\* Does pop take the element at b without asking for it?
TakesBottom(t, b) == t < b

\* pop: top is read, and the element at b if it is there.
PopReadsTop ==
    LET x == array[owner.b % Capacity] IN
    /\ Owner("top")
    /\ IF TakesBottom(top, owner.b)
       THEN Takes(x) /\ owner' = [owner EXCEPT !.at = "return", !.task = x]
       ELSE /\ owner' = IF top = owner.b
                        THEN [owner EXCEPT !.at = "last", !.task = x]
                        ELSE [owner EXCEPT !.at = "restore", !.task = None]
            /\ UNCHANGED state
    /\ UNCHANGED <<array, top, bottom, failed_head, next, thief, hosted, undefined>>

PopExpectsNext ==
    /\ Owner("last")
    /\ IF top = owner.b + 1
       THEN top' = top + 1 /\ Takes(owner.task) /\ Goto("restore")
       ELSE /\ owner' = [owner EXCEPT !.at = "restore", !.task = None]
            /\ UNCHANGED <<top, state>>
    /\ UNCHANGED <<array, bottom, failed_head, next, thief, hosted, undefined>>

\* pop: the compare-exchange for the "single last element in the queue".
PopTakesLast ==
    /\ Owner("last")
    /\ IF top = owner.b
       THEN /\ top' = top + 1
            /\ Takes(owner.task)
            /\ Goto("restore")
       ELSE /\ owner' = [owner EXCEPT !.at = "restore", !.task = None]
            /\ UNCHANGED <<top, state>>
    /\ UNCHANGED <<array, bottom, failed_head, next, thief, hosted, undefined>>

PopRestores ==
    /\ Owner("restore")
    /\ bottom' = owner.b + 1
    /\ Goto("return")
    /\ UNCHANGED <<array, top, failed_head, next, state, thief, hosted, undefined>>

Return ==
    /\ Owner("return")
    /\ owner' = Resting
    /\ UNCHANGED <<array, top, bottom, failed_head, next, state, thief, hosted, undefined>>

-----------------------------------------------------------------------------
Thief(p, where) == thief[p].at = where

\* steal: reads top, then bottom, then the element, then claims it.
StealReadsTop(p) ==
    /\ Thief(p, "idle")
    /\ ~hosted
    /\ thief' = [thief EXCEPT ![p] = [at |-> "bottom", task |-> None, t |-> top]]
    /\ UNCHANGED <<array, top, bottom, failed_head, next, state, owner, hosted, undefined>>

StealReadsBottom(p) ==
    /\ Thief(p, "bottom")
    /\ thief' = [thief EXCEPT ![p] =
           IF @.t < bottom THEN [@ EXCEPT !.at = "element"] ELSE Looking]
    /\ UNCHANGED <<array, top, bottom, failed_head, next, state, owner, hosted, undefined>>

StealReadsElement(p) ==
    /\ Thief(p, "element")
    /\ thief' = [thief EXCEPT ![p].at = "claim", ![p].task = array[thief[p].t % Capacity]]
    /\ UNCHANGED <<array, top, bottom, failed_head, next, state, owner, hosted, undefined>>

StealClaims(p) ==
    /\ Thief(p, "claim")
    /\ IF top = thief[p].t
       THEN top' = top + 1 /\ Takes(thief[p].task)
       ELSE UNCHANGED <<top, state>>
    /\ thief' = [thief EXCEPT ![p] = Looking]
    /\ UNCHANGED <<array, bottom, failed_head, next, owner, hosted, undefined>>

-----------------------------------------------------------------------------
\* A worker runs a task that it took, completes it, and nobody holds a future:
\* the task is deallocated.
Finish(x) ==
    /\ state[x] = "taken"
    /\ state' = [state EXCEPT ![x] = "freed"]
    /\ UNCHANGED <<array, top, bottom, failed_head, next, owner, thief, hosted, undefined>>

\* The workers start.
Execute ==
    /\ hosted
    /\ Owner("idle")
    /\ hosted' = FALSE
    /\ UNCHANGED <<array, top, bottom, failed_head, next, state, owner, thief, undefined>>

Defined == undefined = "nothing"

\* What the owner does inside a call.
OwnerStep ==
    \/ PushHasRoom \/ PushFails \/ FlushStops \/ PushWrites \/ PushPublishes
    \/ FlushSteps \/ Flush
    \/ PopFailedInsertion \/ PopLowers \/ PopReadsTop \/ PopTakesLast \/ PopRestores
    \/ Return

Steal(p) ==
    StealReadsTop(p) \/ StealReadsBottom(p) \/ StealReadsElement(p) \/ StealClaims(p)

Next ==
    /\ Defined
    /\ \/ \E x \in Tasks : Schedule(x) \/ Finish(x)
       \/ Execute \/ PopReadyTask \/ OwnerStep
       \/ \E p \in Thieves : Steal(p)

\* A worker asks for tasks until all of them are done.  Nobody has to spawn.
Starts == Defined /\ Execute
OwnerWorks == Defined /\ (OwnerStep \/ PopReadyTask)
Steals(p) == Defined /\ Steal(p)

Spec ==
    /\ Init /\ [][Next]_vars
    /\ WF_vars(Starts) /\ WF_vars(OwnerWorks)
    /\ \A p \in Thieves : WF_vars(Steals(p))

-----------------------------------------------------------------------------
\* The memory, the tasks and the locals have their types.
TypeOK ==
    /\ array \in [0 .. Capacity - 1 -> Tasks \cup {None}]
    /\ top \in Nat /\ bottom \in Nat \cup {-1}
    /\ failed_head \in Tasks \cup {None}
    /\ next \in [Tasks -> Tasks \cup {None}]
    /\ state \in [Tasks -> {"new", "scheduled", "taken", "freed"}]
    /\ owner.at \in {"idle", "push", "write", "publish", "step", "flush", "pop",
                     "top", "last", "restore", "return"}
    /\ owner.task \in Tasks \cup {None} /\ owner.b \in Nat \cup {-1}
    /\ owner.then \in {"return", "pop"}
    /\ \A p \in Thieves :
        /\ thief[p].at \in {"idle", "bottom", "element", "claim"}
        /\ thief[p].task \in Tasks \cup {None} /\ thief[p].t \in Nat
    /\ hosted \in BOOLEAN
    /\ undefined \in {"nothing", "no such queue", "read of a freed task"}

\* The tasks of the list that starts at x: x and the successors, no others.
Chain(x, links) ==
    {y \in Tasks : \A S \in SUBSET Tasks :
        x \in S \cup {None} /\ (\A z \in S : links[z] \in S \cup {None}) => y \in S}

\* The failed tasks: one that flush has pushed is not failed any more.
FailedTasks ==
    IF failed_head = None THEN {}
    ELSE IF Owner("step") THEN Chain(next[failed_head], next) ELSE Chain(failed_head, next)

\* The elements of the deque: the one that a pop asks for is still there.
Popping == owner.at \in {"top", "last", "restore"}
Last == IF Popping THEN bottom ELSE bottom - 1
Elements == {array[i % Capacity] : i \in top .. Last}

Bag == INSTANCE TaskBag WITH
           bag <- FailedTasks \cup Elements,
           taken <- {x \in Tasks : state[x] \in {"taken", "freed"}}

\* A task that was scheduled stays in the deque or in the list until one
\* worker, the owner or a thief, takes it; nobody takes it again, also when
\* both of them race for the last element, and when a slot is used again.
ImplementsTaskBag == Bag!Spec

\* The owner's pop comes back with nothing only if there was nothing: a task
\* in the list of failed insertions can be found by nobody else.
EmptyHanded ==
    [][Owner("restore") /\ owner.task = None => FailedTasks \cup Elements = {}]_owner

\* A task that was scheduled is taken, by the owner at the latest, unless the
\* program leaves what C++ defines.
EveryTaskIsTaken ==
    \A x \in Tasks : state[x] = "scheduled" ~> state[x] # "scheduled" \/ ~Defined

\* "Task may be enqueued and may be run at any point; don't touch it"
\* (Kokkos_MultipleTaskQueue.hpp:256).
LeavesPushedTasksAlone == undefined # "read of a freed task"
=============================================================================
