--------------------------- MODULE TaskScheduling ---------------------------
(***************************************************************************)
(* SimpleTaskScheduler: tasks are spawned, wait for predecessors, become   *)
(* ready, run, respawn and complete, and are deallocated with their last   *)
(* reference (core/src/impl/Kokkos_SimpleTaskScheduler.hpp,                *)
(* Kokkos_TaskQueueCommon.hpp, Kokkos_TaskNode.hpp, and the workers' loop  *)
(* in core/src/OpenMP/Kokkos_OpenMP_Task.hpp).                             *)
(*                                                                         *)
(* The ready queues and the wait queues are atomic here: a set and a stack *)
(* that can be closed (modules TaskDeque and LIFO).  agenda[a] holds the   *)
(* rest of the scheduler's code that the actor a is in, one entry for each *)
(* access to shared memory.                                                *)
(***************************************************************************)
EXTENDS Integers, Sequences, FiniteSets, SequencesExt

CONSTANTS
    Workers,       \* threads of the pool
    Host,          \* the code that calls wait(scheduler)
    MaxWork        \* bound on the tasks, aggregates and respawns together

Actors == Workers \cup {Host}
Tasks == 1 .. MaxWork   \* numbered in the order of creation

ASSUME MaxWorkAssumption == MaxWork \in Nat
ASSUME WorkersAssumption == IsFiniteSet(Workers)

\* The host is none of the threads of the pool, and no task.
ASSUME HostAssumption == Host \notin Workers \cup Tasks

VARIABLES
    node,          \* node[n]: a TaskNode
    ready,         \* the tasks in the ready queues
    m_ready_count,
    agenda,        \* agenda[a]: what a still has to do inside the scheduler
    running,       \* running[a]: the task whose functor a executes, 0 if none
    futures,       \* futures[x]: the tasks that functor x, or the host, has futures of
    inside,        \* workers that are in the parallel region of execute
    respawns       \* respawns so far

taskVars == <<node, ready, m_ready_count, agenda, running, futures, inside, respawns>>

Unused == [kind |-> "unused", ref |-> 0, deps |-> <<>>, flag |-> FALSE,
           wait |-> <<>>, consumed |-> FALSE, after |-> {}]

TaskInit ==
    /\ node = [n \in Tasks |-> Unused]
    /\ ready = {}
    /\ m_ready_count = 0
    /\ agenda = [a \in Actors |-> <<>>]
    /\ running = [a \in Actors |-> 0]
    /\ futures = [x \in Tasks \cup {Host} |-> {}]
    /\ inside = {}
    /\ respawns = 0

Live(n) == node[n].kind \in {"runnable", "aggregate"}

\* The entries of agenda.
Schedule(n) == [do |-> "schedule", n |-> n]   \* schedule_runnable, schedule_aggregate
Enqueue(n) == [do |-> "push", n |-> n]        \* push to a ready queue
Complete(n) == [do |-> "complete", n |-> n]   \* _complete_finished_task
Release(n) == [do |-> "release", n |-> n]     \* decrement_and_check_reference_count
CountDown == [do |-> "countdown", n |-> 0]    \* _decrement_ready_count

Do(a, what) == agenda[a] # <<>> /\ agenda[a][1].do = what
The(a) == agenda[a][1].n
Then(a, entries) == agenda' = [agenda EXCEPT ![a] = entries \o Tail(@)]

-----------------------------------------------------------------------------
\* Whose functor, or that of the host, a executes: user code.
Self(a) == IF a = Host THEN Host ELSE running[a]
InUserCode(a) ==
    /\ agenda[a] = <<>>
    /\ IF a = Host THEN inside = {} ELSE running[a] # 0

\* The memory pool hands out the next task.
Created == {n \in Tasks : node[n].kind # "unused"}
MayWork == Cardinality(Created) + respawns < MaxWork
Fresh(n) == MayWork /\ n = Cardinality(Created) + 1

Create(n, kind, deps, after) ==
    [Unused EXCEPT !.kind = kind, !.ref = 2, !.deps = deps, !.after = after]

CountsNothing(nodes, ps) == nodes

\* increment_reference_count of the tasks ps.
AddReferences(nodes, ps) ==
    [m \in DOMAIN nodes |-> IF m \in ps THEN [nodes[m] EXCEPT !.ref = @ + 1] ELSE nodes[m]]

\* _spawn_impl: one reference for the completion and one for the future that
\* is returned; the predecessor's count goes up and down again.  The functor
\* may have been given copies of futures.
Spawn(a, n) ==
    /\ InUserCode(a) /\ Fresh(n)
    /\ \E deps \in {<<>>} \cup {<<p>> : p \in futures[Self(a)]}, given \in SUBSET futures[Self(a)] :
        /\ node' = AddReferences([node EXCEPT ![n] = Create(n, "runnable", deps, Range(deps))], given)
        /\ futures' = [futures EXCEPT ![Self(a)] = @ \cup {n}, ![n] = given]
    /\ agenda' = [agenda EXCEPT ![a] = <<Schedule(n)>>]
    /\ UNCHANGED <<ready, m_ready_count, running, inside, respawns>>

\* when_all of one or two futures; it counts a reference for each predecessor.
WhenAll(a, n) ==
    /\ InUserCode(a) /\ Fresh(n)
    /\ \E p, q \in futures[Self(a)] :
        LET deps == IF p = q THEN <<p>> ELSE <<p, q>> IN
        node' = AddReferences([node EXCEPT ![n] = Create(n, "aggregate", deps, {p, q})], {p, q})
    /\ futures' = [futures EXCEPT ![Self(a)] = @ \cup {n}]
    /\ agenda' = [agenda EXCEPT ![a] = <<Schedule(n)>>]
    /\ UNCHANGED <<ready, m_ready_count, running, inside, respawns>>

\* The destructors of the futures of ps, in some order.
Releases(ps) ==
    LET drops == SetToSeq(ps) IN [i \in DOMAIN drops |-> Release(drops[i])]

\* A scope ends, or futures are cleared: some of the functor's are destroyed.
DropFutures(a) ==
    /\ InUserCode(a)
    /\ \E ps \in SUBSET futures[Self(a)] \ {{}} :
        /\ futures' = [futures EXCEPT ![Self(a)] = @ \ ps]
        /\ agenda' = [agenda EXCEPT ![a] = Releases(ps)]
    /\ UNCHANGED <<node, ready, m_ready_count, running, inside, respawns>>

BorrowsNothing(nodes, ps) == nodes

\* set_predecessor counts a reference "so that predecessor doesn't go away
\* before this task is enqueued".
Borrows(nodes, ps) == AddReferences(nodes, ps)

\* respawn, once in a run of the functor, which may then go on and destroy the
\* future that it was called with.
Respawn(w) ==
    LET x == running[w] IN
    /\ w \in Workers /\ InUserCode(w)
    /\ ~node[x].flag
    /\ MayWork
    /\ respawns' = respawns + 1
    /\ \E deps \in {<<>>} \cup {<<p>> : p \in futures[x]} :
        node' = Borrows([node EXCEPT ![x].deps = deps, ![x].flag = TRUE, ![x].after = Range(deps)], Range(deps))
    /\ UNCHANGED <<ready, m_ready_count, agenda, running, futures, inside>>

CountsDownFirst(x) == <<CountDown, Complete(x)>>
NeverCountsDown(x) == <<Complete(x)>>

\* complete(task) of a task that does not respawn.
Completion(x) == <<Complete(x), CountDown>>

\* The functor returns and is destroyed, with its futures, unless it respawns;
\* complete(task) begins.
Finish(w) ==
    LET x == running[w] IN
    /\ w \in inside /\ running[w] # 0 /\ agenda[w] = <<>>
    /\ IF node[x].flag
       THEN /\ agenda' = [agenda EXCEPT ![w] = <<Schedule(x), CountDown>>]
            /\ UNCHANGED futures
       ELSE /\ agenda' = [agenda EXCEPT ![w] = Releases(futures[x]) \o Completion(x)]
            /\ futures' = [futures EXCEPT ![x] = {}]
    /\ running' = [running EXCEPT ![w] = 0]
    /\ UNCHANGED <<node, ready, m_ready_count, inside, respawns>>

-----------------------------------------------------------------------------
\* try_add_waiting: node with n added to the wait queue of p.
Waits(nodes, p, n) == [nodes EXCEPT ![p].wait = <<n>> \o @]

\* The references to give back when the wait for p is arranged: a respawn's.
Returned(n, p) == IF node[n].flag THEN <<Release(p)>> ELSE <<>>

\* schedule_runnable_to_queue, a task with a predecessor: it waits for it, or
\* goes on as a task without one.
ScheduleDependent(a) ==
    LET n == The(a)
        p == node[n].deps[1]
        cleared == [node EXCEPT ![n].deps = <<>>, ![n].flag = FALSE]
    IN
    /\ Do(a, "schedule") /\ node[n].kind = "runnable" /\ node[n].deps # <<>>
    /\ IF node[p].consumed
       THEN node' = cleared /\ Then(a, Returned(n, p) \o <<Schedule(n)>>)
       ELSE node' = Waits(cleared, p, n) /\ Then(a, Returned(n, p))
    /\ UNCHANGED <<ready, m_ready_count, running, futures, inside, respawns>>

\* schedule_runnable_to_queue, a ready task: the count, then the queue.
ScheduleReady(a) ==
    LET n == The(a) IN
    /\ Do(a, "schedule") /\ node[n].kind = "runnable" /\ node[n].deps = <<>>
    /\ node' = [node EXCEPT ![n].flag = FALSE]
    /\ m_ready_count' = m_ready_count + 1
    /\ Then(a, <<Enqueue(n)>>)
    /\ UNCHANGED <<ready, running, futures, inside, respawns>>

PushReady(a) ==
    /\ Do(a, "push")
    /\ ready' = ready \cup {The(a)}
    /\ Then(a, <<>>)
    /\ UNCHANGED <<node, m_ready_count, running, futures, inside, respawns>>

GoesOnAlways(p) == TRUE

\* Does schedule_aggregate go on to the next predecessor after p?
GoesOn(p) == node[p].consumed

\* schedule_aggregate, one predecessor: the aggregate waits for it, or tries
\* the next; in both cases its reference to the predecessor is given back.
ScheduleAggregate(a) ==
    LET n == The(a)
        p == node[n].deps[1]
        cleared == [node EXCEPT ![n].deps = Tail(@)]
    IN
    /\ Do(a, "schedule") /\ node[n].kind = "aggregate" /\ node[n].deps # <<>>
    /\ node' = IF node[p].consumed THEN cleared ELSE Waits(cleared, p, n)
    /\ Then(a, <<Release(p)>> \o (IF GoesOn(p) THEN <<Schedule(n)>> ELSE <<>>))
    /\ UNCHANGED <<ready, m_ready_count, running, futures, inside, respawns>>

\* schedule_aggregate, "all of the predecessors were completed".
AggregateDone(a) ==
    LET n == The(a) IN
    /\ Do(a, "schedule") /\ node[n].kind = "aggregate" /\ node[n].deps = <<>>
    /\ Then(a, <<Complete(n)>>)
    /\ UNCHANGED <<node, ready, m_ready_count, running, futures, inside, respawns>>

\* _complete_finished_task: consumes the wait queue and schedules what is in
\* it, before the task's own reference is given back.
CompleteTask(a) ==
    LET n == The(a)
        waiting == node[n].wait
        schedules == [i \in DOMAIN waiting |-> Schedule(waiting[i])]
    IN
    /\ Do(a, "complete")
    /\ node' = [node EXCEPT ![n].wait = <<>>, ![n].consumed = TRUE]
    /\ Then(a, schedules \o <<Release(n)>>)
    /\ UNCHANGED <<ready, m_ready_count, running, futures, inside, respawns>>

\* The value that the fetch_add of decrement_and_check_reference_count finds
\* when the task is to be deallocated.
LastReference == 1

Deallocates(a) ==
    LET n == The(a) IN
    /\ Do(a, "release")
    /\ node' = [node EXCEPT ![n].ref = @ - 1,
                            ![n].kind = IF node[n].ref = LastReference THEN "freed" ELSE @]
    /\ Then(a, <<>>)
    /\ UNCHANGED <<ready, m_ready_count, running, futures, inside, respawns>>

\* complete: "so decrement whether respawned or not".
DecrementReadyCount(a) ==
    /\ Do(a, "countdown")
    /\ m_ready_count' = m_ready_count - 1
    /\ Then(a, <<>>)
    /\ UNCHANGED <<node, ready, running, futures, inside, respawns>>

Scheduler(a) ==
    \/ ScheduleDependent(a) \/ ScheduleReady(a) \/ PushReady(a)
    \/ ScheduleAggregate(a) \/ AggregateDone(a) \/ CompleteTask(a)
    \/ Deallocates(a) \/ DecrementReadyCount(a)

-----------------------------------------------------------------------------
\* wait(scheduler): the host opens the parallel region.
ExecuteTasks ==
    /\ inside = {} /\ agenda[Host] = <<>>
    /\ inside' = Workers
    /\ UNCHANGED <<node, ready, m_ready_count, agenda, running, futures, respawns>>

Resting(w) == w \in inside /\ agenda[w] = <<>> /\ running[w] = 0

\* pop_ready_task finds a task, and the worker runs it.
Run(w) ==
    /\ Resting(w)
    /\ \E n \in ready :
        /\ ready' = ready \ {n}
        /\ running' = [running EXCEPT ![w] = n]
    /\ UNCHANGED <<node, m_ready_count, agenda, futures, inside, respawns>>

\* queue.is_done() ends a worker's loop.
Leave(w) ==
    /\ Resting(w)
    /\ m_ready_count = 0
    /\ inside' = inside \ {w}
    /\ UNCHANGED <<node, ready, m_ready_count, agenda, running, futures, respawns>>

UserCode(a) ==
    \/ \E n \in Tasks : Spawn(a, n) \/ WhenAll(a, n)
    \/ DropFutures(a) \/ Respawn(a)

ExecuteLoop(w) == Scheduler(w) \/ Run(w) \/ Finish(w) \/ Leave(w)

TaskNext ==
    \/ ExecuteTasks \/ Scheduler(Host)
    \/ \E w \in Workers : ExecuteLoop(w)
    \/ \E a \in Actors : UserCode(a)

\* Workers loop until the queue is done, functors return, and the host waits
\* for its tasks.
TaskSpec ==
    /\ TaskInit /\ [][TaskNext]_taskVars
    /\ WF_taskVars(ExecuteTasks) /\ WF_taskVars(Scheduler(Host))
    /\ \A w \in Workers : WF_taskVars(ExecuteLoop(w))

-----------------------------------------------------------------------------
\* The tasks, the queues and the actors have their types.
TaskTypeOK ==
    /\ \A n \in Tasks :
        /\ node[n].kind \in {"unused", "runnable", "aggregate", "freed"}
        /\ node[n].ref \in Nat
        /\ node[n].deps \in Seq(Tasks) /\ node[n].wait \in Seq(Tasks)
        /\ node[n].flag \in BOOLEAN /\ node[n].consumed \in BOOLEAN
        /\ node[n].after \subseteq Tasks
    /\ ready \subseteq Tasks
    /\ m_ready_count \in Nat
    /\ \A a \in Actors : \A i \in DOMAIN agenda[a] : agenda[a][i].n \in 0 .. MaxWork
    /\ running \in [Actors -> 0 .. MaxWork]
    /\ futures \in [Tasks \cup {Host} -> SUBSET Tasks]
    /\ inside \subseteq Workers
    /\ respawns \in 0 .. MaxWork

\* Predecessors that n has counted a reference for.
Borrowed(n) == IF node[n].kind = "aggregate" \/ node[n].flag THEN node[n].deps ELSE <<>>

\* The releases of p that actors still have to execute.
Pending(p) ==
    UNION {{<<a, i>> : i \in {j \in DOMAIN agenda[a] : agenda[a][j] = Release(p)}} : a \in Actors}

\* Everything that refers to p.
References(p) ==
    (IF Live(p) /\ ~node[p].consumed THEN 1 ELSE 0)
    + Cardinality({x \in Tasks \cup {Host} : p \in futures[x]})
    + Cardinality({n \in Tasks : p \in Range(Borrowed(n))})
    + Cardinality(Pending(p))

\* The reference count of a task is the number of its references: a task is
\* deallocated when, and not before, its completion, every future, every
\* aggregate and every respawn that waits for it have let go of it.
ReferencesCounted ==
    \A p \in Tasks : node[p].ref = References(p) /\ (node[p].kind = "freed" => References(p) = 0)

\* No code of the scheduler goes on with a task that was deallocated.
TouchesLiveTasks ==
    /\ \A a \in Actors :
        /\ \A i \in DOMAIN agenda[a] : agenda[a][i].do # "countdown" => Live(agenda[a][i].n)
        /\ Do(a, "schedule") => \A p \in Range(node[The(a)].deps) : Live(p)
        /\ running[a] # 0 => Live(running[a])
    /\ \A n \in ready : Live(n)

\* A functor runs, or an aggregate is complete, only when every predecessor
\* that it was spawned, respawned or combined with is.
RunsAfterPredecessors ==
    /\ \A w \in Workers : running[w] # 0 /\ ~node[running[w]].flag =>
            \A p \in node[running[w]].after : node[p].consumed
    /\ \A n \in Tasks : node[n].kind = "aggregate" /\ node[n].consumed =>
            \A p \in node[n].after : node[p].consumed

\* "preventing quiescence" (Kokkos_TaskQueueCommon.hpp:164-170): when workers
\* see the count at zero, nothing is left to do, and nobody is doing anything
\* that makes a task ready.
QuiescentMeansDone ==
    inside # {} /\ m_ready_count = 0 =>
        \A n \in Tasks : Live(n) => node[n].consumed

\* Every wait(scheduler) returns, and by QuiescentMeansDone every task that was
\* created has then completed.
WaitReturns == inside # {} ~> inside = {}
=============================================================================
