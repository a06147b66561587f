----------------------------- MODULE MCLockFree -----------------------------
(***************************************************************************)
(* The containers that the threads of a pool share without a mutex, one of *)
(* them in each behaviour: the tokens on their bitset, an intrusive list,  *)
(* a team's ready queue.  Those that are not chosen stay in one initial    *)
(* state.  The ready queue is used in two ways: by all thieves with all    *)
(* tasks but one, and by one thief with all tasks.                         *)
(***************************************************************************)
EXTENDS UniqueToken

CONSTANTS
    Containers,                                        \* those to choose from
    Workers, Nodes, LockTag, EndTag, NotEnqueued,      \* the list
    Thieves, MaxTasks, Capacity,                       \* the ready queue
    Steady                                             \* one of the thieves

VARIABLES
    container,
    kind, m_head, link, owns, visit,
    array, top, bottom, failed_head, after, state, owner, thief, hosted, undefined

List == INSTANCE LIFO WITH
            Threads <- Workers, next <- link, held <- owns, call <- visit
Deque == INSTANCE TaskDeque WITH next <- after

\* What the proofs about the list and the ready queue assume.
ASSUME TagsAssumption == List!TagsDiffer
ASSUME QueueAssumption == Deque!QueueParameters

listVars == <<kind, m_head, link, owns, visit>>
dequeVars == <<array, top, bottom, failed_head, after, state, owner, thief, hosted, undefined>>
allVars == <<container, vars, listVars, dequeVars>>

First == CHOOSE w \in Workers : TRUE

LockFreeInit ==
    /\ container \in Containers
    /\ Init /\ (container = "tokens" \/ count = PoolSize)
    /\ List!Init /\ (container = "list" \/ (kind = "wait" /\ owns[First] = Nodes))
    /\ Deque!Init

TokensStep == container = "tokens" /\ Next /\ UNCHANGED <<container, listVars, dequeVars>>
ListStep == container = "list" /\ List!Next /\ UNCHANGED <<container, vars, dequeVars>>

\* A step of the ready queue, used in one of the two ways.
OnDeque ==
    \/ container = "deque" /\ state'[MaxTasks] = "new"
    \/ container = "long deque" /\ \A p \in Thieves \ {Steady} : thief'[p] = thief[p]

DequeStep == Deque!Next /\ OnDeque /\ UNCHANGED <<container, vars, listVars>>

\* The fairness of UniqueToken, LIFO and TaskDeque.
LockFreeSpec ==
    /\ LockFreeInit /\ [][TokensStep \/ ListStep \/ DequeStep]_allVars
    /\ \A t \in Threads : WF_vars(container = "tokens" /\ Progress(t))
    /\ \A w \in Workers : WF_listVars(container = "list" /\ List!Progress(w))
    /\ WF_dequeVars(Deque!Starts /\ OnDeque)
    /\ WF_dequeVars(Deque!OwnerWorks /\ OnDeque)
    /\ \A p \in Thieves : WF_dequeVars(Deque!Steals(p) /\ OnDeque)

-----------------------------------------------------------------------------
\* Types of the three; "zero will never appear in the queue" (Kokkos_LIFO.hpp:162).
LockFreeTypeOK == TypeOK /\ List!TypeOK /\ Deque!TypeOK

\* A list is a stack: no push is lost, no node popped twice, and consume visits
\* exactly the nodes whose try_push succeeded (Kokkos_LIFO.hpp:247-262).
ImplementsStack == List!ImplementsStack

\* A task that is scheduled is handed to one worker, once, by the deque or by
\* the list of failed insertions.
ImplementsTaskBag == Deque!ImplementsTaskBag

\* pop_ready_task finds nothing in the owner's queue only if it is empty.
EmptyHanded == Deque!EmptyHanded

\* Nobody is kept in a list or in the ready queue by nobody: every call of a wait
\* queue returns, a call of a ready list lasts for ever only if others keep
\* changing the list, and every task that is scheduled is taken.
NothingIsStuck ==
    List!WaitQueueReturns /\ List!SomebodyGetsThrough /\ Deque!EveryTaskIsTaken

\* "Task may be enqueued and may be run at any point; don't touch it"
\* (Kokkos_MultipleTaskQueue.hpp:256).
LeavesPushedTasksAlone == Deque!LeavesPushedTasksAlone
=============================================================================
