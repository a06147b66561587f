-------------------------------- MODULE LIFO --------------------------------
(***************************************************************************)
(* The intrusive lists of core/src/impl/Kokkos_LIFO.hpp.  LockBasedLIFO,   *)
(* a ready queue, is pushed to and popped from by all workers; a pop locks *)
(* the list by a tag in its head.  SingleConsumeOperationLIFO, the queue   *)
(* of the tasks that wait for a task, is pushed to by all workers and      *)
(* consumed once, by the one that completes the task; the same tag then    *)
(* closes it.                                                              *)
(*                                                                         *)
(* One action is one access to the head, with the code up to the next one. *)
(* A node's next is written only by the thread that the node belongs to.   *)
(***************************************************************************)
EXTENDS Integers, Sequences, FiniteSets, SequencesExt

CONSTANTS
    Threads, Nodes,
    LockTag,   \* the head while a pop is in progress; ConsumedTag
    EndTag,    \* the head of an empty list, and the end of every list
    NotEnqueued   \* the null pointer: next of a node that is in no list

\* The tags are the two highest addresses: no node is there, nor at zero.
TagsDiffer ==
    /\ IsFiniteSet(Nodes)
    /\ LockTag \notin Nodes /\ EndTag \notin Nodes /\ NotEnqueued \notin Nodes
    /\ LockTag # EndTag /\ LockTag # NotEnqueued /\ EndTag # NotEnqueued

VARIABLES
    kind,     \* "ready": a LockBasedLIFO, "wait": a SingleConsumeOperationLIFO
    m_head,
    next,     \* next[n]: the successor of node n
    held,     \* held[t]: the nodes that belong to t
    call      \* call[t]: the call that t is in

vars == <<kind, m_head, next, held, call>>

Idle == [op |-> "none", at |-> "idle", node |-> NotEnqueued, seen |-> NotEnqueued]

Init ==
    /\ kind \in {"ready", "wait"}
    /\ m_head = EndTag
    /\ next = [n \in Nodes |-> NotEnqueued]
    /\ \E home \in [Nodes -> Threads] :
        held = [t \in Threads |-> {n \in Nodes : home[n] = t}]
    /\ call = [t \in Threads |-> Idle]

At(t, where) == call[t].at = where
Return(t) == call' = [call EXCEPT ![t] = Idle]

Begin(t, op, at, n) ==
    /\ At(t, "idle")
    /\ call' = [call EXCEPT ![t] = [op |-> op, at |-> at, node |-> n, seen |-> NotEnqueued]]
    /\ UNCHANGED <<kind, m_head, next, held>>

-----------------------------------------------------------------------------
\* _try_push_node has seen the head: on an unlocked list it links the node and
\* goes to the compare-exchange; on a locked one it fails, and push tries again.
Link(t) ==
    LET n == call[t].node IN
    IF m_head # LockTag
    THEN /\ next' = [next EXCEPT ![n] = m_head]
         /\ call' = [call EXCEPT ![t].at = "exchange", ![t].seen = m_head]
    ELSE /\ next' = [next EXCEPT ![n] = NotEnqueued]
         /\ call' = [call EXCEPT ![t] = IF @.op = "push" THEN [@ EXCEPT !.at = "head"] ELSE Idle]

\* The load at the beginning of _try_push_node.
PushReadsHead(t) ==
    /\ At(t, "head")
    /\ Link(t)
    /\ UNCHANGED <<kind, m_head, held>>

LinkOnce(t) == call' = [call EXCEPT ![t].seen = m_head] /\ UNCHANGED next

\* After a compare-exchange that failed, with the head that it found.
Relink(t) == Link(t)

PushExchanges(t) ==
    LET n == call[t].node IN
    /\ At(t, "exchange")
    /\ IF m_head = call[t].seen
       THEN /\ m_head' = n
            /\ held' = [held EXCEPT ![t] = @ \ {n}]
            /\ Return(t)
            /\ UNCHANGED next
       ELSE Relink(t) /\ UNCHANGED <<m_head, held>>
    /\ UNCHANGED kind

Push(t) == PushReadsHead(t) \/ PushExchanges(t)

-----------------------------------------------------------------------------
\* pop has seen the head, by its load or by a compare-exchange that failed:
\* nothing to pop, a locked list that a steal gives up and a pop looks at
\* again, or a node to lock the list for.
Inspect(t) ==
    call' = [call EXCEPT ![t] =
        IF m_head = EndTag \/ (m_head = LockTag /\ @.op = "steal") THEN Idle
        ELSE [@ EXCEPT !.at = "lock",
                       !.node = IF m_head = LockTag THEN NotEnqueued ELSE m_head]]

PopReadsHead(t) ==
    /\ At(t, "look")
    /\ Inspect(t)
    /\ UNCHANGED <<kind, m_head, next, held>>

PopLocks(t) ==
    /\ At(t, "lock")
    /\ IF m_head = call[t].node
       THEN /\ m_head' = LockTag
            /\ call' = [call EXCEPT ![t].at = "unlock"]
       ELSE Inspect(t) /\ UNCHANGED m_head
    /\ UNCHANGED <<kind, next, held>>

\* "Lock is released here", and the node is marked as popped.  The node is t's:
\* nobody else can see the mark.
PopUnlocks(t) ==
    LET n == call[t].node IN
    /\ At(t, "unlock")
    /\ m_head' = next[n]
    /\ next' = [next EXCEPT ![n] = NotEnqueued]
    /\ held' = [held EXCEPT ![t] = @ \cup {n}]
    /\ Return(t)
    /\ UNCHANGED kind

Pop(t) == PopReadsHead(t) \/ PopLocks(t) \/ PopUnlocks(t)

-----------------------------------------------------------------------------
\* consume: the exchange of the head.  It occurs once in the life of a queue.
ConsumeExchanges(t) ==
    /\ kind = "wait"
    /\ At(t, "idle")
    /\ m_head # LockTag
    /\ m_head' = LockTag
    /\ call' = [call EXCEPT ![t] = [op |-> "consume", at |-> "visit", node |-> m_head,
                                    seen |-> NotEnqueued]]
    /\ UNCHANGED <<kind, next, held>>

\* The loop: the successor is read and the node marked before f has the node.
ConsumeVisits(t) ==
    LET n == call[t].node IN
    /\ At(t, "visit")
    /\ IF n = EndTag
       THEN Return(t) /\ UNCHANGED <<next, held>>
       ELSE /\ call' = [call EXCEPT ![t].node = next[n]]
            /\ next' = [next EXCEPT ![n] = NotEnqueued]
            /\ held' = [held EXCEPT ![t] = @ \cup {n}]
    /\ UNCHANGED <<kind, m_head>>

-----------------------------------------------------------------------------
\* A worker calls an operation of the list.
Use(t) ==
    \/ \E n \in held[t] : Begin(t, IF kind = "ready" THEN "push" ELSE "try_push", "head", n)
    \/ kind = "ready" /\ \E op \in {"pop", "steal"} : Begin(t, op, "look", NotEnqueued)
    \/ ConsumeExchanges(t)

Progress(t) == Push(t) \/ Pop(t) \/ ConsumeVisits(t)

Next == \E t \in Threads : Use(t) \/ Progress(t)

\* A call that has begun goes on; nobody has to call.
Spec == Init /\ [][Next]_vars /\ \A t \in Threads : WF_vars(Progress(t))

-----------------------------------------------------------------------------
\* "The only possible values for the queue are (1) lock, (2) end, or (3) a
\* valid task. Thus zero will never appear in the queue" (Kokkos_LIFO.hpp:160).
TypeOK ==
    /\ kind \in {"ready", "wait"}
    /\ m_head \in Nodes \cup {LockTag, EndTag}
    /\ next \in [Nodes -> Nodes \cup {EndTag, NotEnqueued}]
    /\ held \in [Threads -> SUBSET Nodes]
    /\ \A t \in Threads :
        /\ call[t].op \in {"none", "push", "try_push", "pop", "steal", "consume"}
        /\ call[t].at \in {"idle", "head", "exchange", "look", "lock", "unlock", "visit"}
        /\ call[t].node \in Nodes \cup {EndTag, NotEnqueued}
        /\ call[t].seen \in Nodes \cup {EndTag, NotEnqueued}

\* s is the list from n on: nodes that are linked one to the next.
IsListFrom(n, s, links) ==
    /\ \A i \in 1 .. Len(s) : s[i] = IF i = 1 THEN n ELSE links[s[i - 1]]
    /\ (IF Len(s) = 0 THEN n ELSE links[s[Len(s)]]) \notin Nodes

Following(n, links) == CHOOSE s \in SeqOf(Nodes, Cardinality(Nodes)) : IsListFrom(n, s, links)

Popped(t) == IF At(t, "unlock") THEN {call[t].node} ELSE {}

\* Where the list starts: at the head, behind the node that a pop has locked it
\* for, or at what the consumer has not visited.
Start ==
    IF m_head # LockTag THEN m_head
    ELSE IF \E t \in Threads : At(t, "unlock")
    THEN next[call[CHOOSE t \in Threads : At(t, "unlock")].node]
    ELSE IF \E t \in Threads : At(t, "visit")
    THEN call[CHOOSE t \in Threads : At(t, "visit")].node
    ELSE EndTag

Contents == Following(Start, next)

List == INSTANCE Stack WITH
            items <- Contents,
            held <- [t \in Threads |-> held[t] \cup Popped(t)],
            closed <- kind = "wait" /\ m_head = LockTag

\* The list is a stack: no push is lost to another push or to a lock, no node
\* is popped twice, and consume visits exactly the nodes whose try_push
\* succeeded before it (Kokkos_LIFO.hpp:247-262).
ImplementsStack == List!Spec

\* Inside a call of the wait queue.
Waiting(t) == kind = "wait" /\ ~At(t, "idle")

\* "These operations are lock-free", and each failure of a try_push is the
\* success of another: with finitely many tasks every call returns.
WaitQueueReturns == \A t \in Threads : Waiting(t) ~> At(t, "idle")

\* A worker is kept in a call of the ready queue for ever only by others who
\* go on pushing and popping: no lock is left behind.
SomebodyGetsThrough ==
    \A t \in Threads : []<>At(t, "idle") \/ []<><<held' # held>>_held
=============================================================================
