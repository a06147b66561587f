------------------------------- MODULE MCOpenMP -------------------------------
(***************************************************************************)
(* The OpenMP backend in use: callers that dispatch patterns to one        *)
(* instance, or a host that waits for the tasks of a scheduler, one of the *)
(* two in each behaviour.  The other one stays in its initial state.       *)
(***************************************************************************)
EXTENDS OpenMPDispatch, TaskScheduling

CONSTANT Parts   \* those to choose from

VARIABLE part

allVars == <<part, vars, taskVars>>

OpenMPInit == part \in Parts /\ Init /\ TaskInit

DispatchStep == part = "dispatch" /\ Next /\ UNCHANGED <<part, taskVars>>
TaskStep == part = "tasks" /\ TaskNext /\ UNCHANGED <<part, vars>>

\* The fairness of OpenMPDispatch and TaskScheduling.
OpenMPSpec ==
    /\ OpenMPInit /\ [][DispatchStep \/ TaskStep]_allVars
    /\ \A c \in Callers : WF_vars(part = "dispatch" /\ Execute(c))
    /\ WF_taskVars(part = "tasks" /\ ExecuteTasks)
    /\ WF_taskVars(part = "tasks" /\ Scheduler(Host))
    /\ \A w \in Workers : WF_taskVars(part = "tasks" /\ ExecuteLoop(w))

-----------------------------------------------------------------------------
\* Types of the dispatch and of the tasks with their scheduler.
OpenMPTypeOK == TypeOK /\ TaskTypeOK

\* Every dispatch returns, unless its allocation throws or a functor of the
\* call that holds the lock waits for that lock itself, and so does every
\* wait(scheduler).
EveryCallReturns == EveryDispatchReturns /\ WaitReturns
===============================================================================
