--------------------------- MODULE OpenMPDispatch ---------------------------
(***************************************************************************)
(* Threads that dispatch parallel patterns to one OpenMP instance          *)
(* (core/src/OpenMP).  The instance owns one block of scratch memory per   *)
(* pool rank, m_pool; a dispatch takes the instance's spin lock, grows the *)
(* blocks when they are too small (resize_thread_data), lets the pool work *)
(* in them, reads what the ranks left there and releases the lock.         *)
(*                                                                         *)
(* A dispatch made inside a parallel region runs in the calling thread     *)
(* (execute_in_serial).  The patterns differ in what they ask for, in      *)
(* whether they take the lock, and in whether the serial branch gives it   *)
(* back: the lock is taken before execute_in_serial is asked, so a functor *)
(* of a call that has it waits for itself when it dispatches a pattern     *)
(* that takes it.  What the functor computes is left to WorkStealing and   *)
(* TeamCollectives; here a block remembers whose call wrote it last.       *)
(***************************************************************************)
EXTENDS Naturals, FiniteSets

CONSTANTS
    Callers,     \* those that dispatch to the instance; a functor that does
                 \* while it runs is one of its own
    Kinds,       \* the patterns they dispatch from outside a parallel region
    SerialKinds, \* the patterns they dispatch from inside one
    PoolSize,    \* m_pool_size
    Sizes,       \* scratch sizes a pattern may ask for
    MayThrow,    \* may HostSpace::allocate fail?
    Dispatches   \* bound: dispatches of a caller

\* ParallelFor, ParallelReduce (RangePolicy, MDRangePolicy, TeamPolicy),
\* ParallelScan, ParallelScanWithTotal, TaskQueueSpecialization::execute.
AllKinds == {"for", "team", "reduce", "mdreduce", "teamreduce", "scan",
             "scantotal", "task"}

ASSUME KindsAssumption == Kinds \subseteq AllKinds
ASSUME SerialKindsAssumption == SerialKinds \subseteq AllKinds \ {"task"}
ASSUME PoolSizeAssumption == PoolSize \in Nat \ {0}
ASSUME SizesAssumption == Sizes \subseteq Nat
ASSUME MayThrowAssumption == MayThrow \in BOOLEAN
ASSUME DispatchesAssumption == Dispatches \in Nat

VARIABLES
    pc,      \* where each caller is in execute()
    call,    \* the pattern it dispatches
    count,   \* dispatches it has begun
    mutex,   \* m_pool_mutex
    block,   \* block[k]: the scratch block m_pool[k] points to
    grow,    \* grow[c]: the locals of resize_thread_data, the rank whose block
             \* is allocated next and the sizes it gets
    todo,    \* todo[c]: the ranks that have not yet done their part of the call
    result,  \* result[c]: the calls whose data c's last call has read
    within   \* within[c]: the call and the rank in whose functor c's call is made

vars == <<pc, call, count, mutex, block, grow, todo, result, within>>

Ranks == 0 .. PoolSize - 1

\* The three areas of a block that a dispatch asks for by size.
Areas == {"pool_reduce", "team_reduce", "team_shared"}

AreasOf(kind) ==
    CASE kind \in {"reduce", "mdreduce", "scan", "scantotal"} -> {"pool_reduce"}
      [] kind = "team" -> {"team_reduce", "team_shared"}
      [] kind = "teamreduce" -> Areas
      [] kind = "task" -> {"team_reduce"}
      [] kind = "for" -> {}

\* The dispatches a caller can make; rank is its omp_get_thread_num().
Dispatchable ==
    [kind : Kinds, serial : {FALSE}, empty : BOOLEAN, bytes : Sizes, rank : {0}]
    \cup
    [kind : SerialKinds, serial : {TRUE}, empty : BOOLEAN, bytes : Sizes, rank : Ranks]

Need(c, a) == IF a \in AreasOf(call[c].kind) THEN call[c].bytes ELSE 0

\* An empty policy: these two only initialize the result and return.
ReturnsEarly(d) == d.empty /\ d.kind \in {"reduce", "teamreduce"}

LocksNothing(kind) == FALSE

\* Which execute() begins with acquire_lock().
TakesLock(kind) == kind \notin {"for", "scan"}

UnlocksNotForTeams(d) == TakesLock(d.kind) /\ ~(d.serial /\ d.kind \in {"reduce", "teamreduce"})

\* Which execute() comes to a release_lock(): the serial branch of the
\* RangePolicy reduction returns without.
Unlocks(d) == TakesLock(d.kind) /\ ~(d.serial /\ d.kind = "reduce")

\* Whose blocks the call works in.  A serial team pattern uses the block of
\* the calling thread, the other serial patterns that of rank 0.
WorkRanks(d) ==
    IF d.kind = "for" THEN {}
    ELSE IF ~d.serial THEN Ranks
    ELSE IF d.kind \in {"team", "teamreduce"} THEN {d.rank} ELSE {0}

\* The tag that c's current call leaves in a block.
Tag(c) == <<c, count[c]>>

NoTag == <<>>

\* A call that is made in the functor of no call at the pool: from outside a
\* region, or in one of the user's or of a loop, which has no lock.
Outside == <<>>

NoCall == [kind |-> "for", serial |-> FALSE, empty |-> TRUE, bytes |-> 0, rank |-> 0]
NoGrow == [rank |-> 0, size |-> [a \in Areas |-> 0]]

Init ==
    /\ pc = [c \in Callers |-> "idle"]
    /\ call = [c \in Callers |-> NoCall]
    /\ count = [c \in Callers |-> 0]
    /\ mutex = 0
    /\ block = [k \in Ranks |-> [live |-> TRUE, size |-> [a \in Areas |-> 0], tag |-> NoTag]]
    /\ grow = [c \in Callers |-> NoGrow]
    /\ todo = [c \in Callers |-> {}]
    /\ result = [c \in Callers |-> {}]
    /\ within = [c \in Callers |-> Outside]

\* execute() returns to c, or is left by an exception.
Return(c) ==
    /\ pc' = [pc EXCEPT ![c] = "idle"]
    /\ call' = [call EXCEPT ![c] = NoCall]
    /\ grow' = [grow EXCEPT ![c] = NoGrow]
    /\ within' = [within EXCEPT ![c] = Outside]

\* The functors that may make the dispatch d now: those that ranks are in and
\* that are not in a dispatch already.  The functor runs in the thread of its
\* rank, or in the thread that makes a serial call.
Functors(d) ==
    {f \in Callers \X Ranks :
        /\ d.serial
        /\ pc[f[1]] = "work" /\ f[2] \in todo[f[1]]
        /\ d.rank = IF call[f[1]].serial THEN call[f[1]].rank ELSE f[2]
        /\ \A c \in Callers : within[c] # f}

\* execute() is called: the early returns, and the patterns without a lock.
Dispatch(c) ==
    /\ pc[c] = "idle"
    /\ count[c] < Dispatches
    /\ \E d \in Dispatchable :
        IF ReturnsEarly(d) \/ d.kind = "for"
        THEN UNCHANGED <<pc, call, within>>
        ELSE /\ call' = [call EXCEPT ![c] = d]
             /\ pc' = [pc EXCEPT ![c] = IF TakesLock(d.kind) THEN "lock" ELSE "resize"]
             /\ \E f \in {Outside} \cup Functors(d) : within' = [within EXCEPT ![c] = f]
    /\ count' = [count EXCEPT ![c] = @ + 1]
    /\ result' = [result EXCEPT ![c] = {}]
    /\ UNCHANGED <<mutex, block, grow, todo>>

AcquireByAdding(c) ==
    /\ pc[c] = "lock"
    /\ mutex' = mutex + 1
    /\ pc' = [pc EXCEPT ![c] = "resize"]
    /\ UNCHANGED <<call, count, block, grow, todo, result, within>>

\* acquire_lock: the compare-exchange that ends the spinning.
AcquireLock(c) ==
    /\ pc[c] = "lock"
    /\ mutex = 0
    /\ mutex' = 1
    /\ pc' = [pc EXCEPT ![c] = "resize"]
    /\ UNCHANGED <<call, count, block, grow, todo, result, within>>

\* The instance of a dispatch that is about to work.
StartWork(c) ==
    /\ pc' = [pc EXCEPT ![c] = "work"]
    /\ todo' = [todo EXCEPT ![c] = WorkRanks(call[c])]

\* resize_thread_data compares the request with the block of rank 0.
MustAllocate(c) == \E a \in Areas : Need(c, a) > block[0].size[a]

\* The sizes to allocate: no area gets smaller.
Grown(c) ==
    [a \in Areas |-> IF Need(c, a) < block[0].size[a] THEN block[0].size[a] ELSE Need(c, a)]

Resize(c) ==
    /\ pc[c] = "resize"
    /\ IF MustAllocate(c)
       THEN /\ pc' = [pc EXCEPT ![c] = "allocate"]
            /\ grow' = [grow EXCEPT ![c] = [rank |-> 0, size |-> Grown(c)]]
            /\ UNCHANGED todo
       ELSE StartWork(c) /\ UNCHANGED grow
    /\ UNCHANGED <<call, count, mutex, block, result, within>>

\* Free the block of the next rank and allocate a larger one.  After the last
\* rank, organize_pool ties the new blocks together.
Allocate(c) ==
    LET k == grow[c].rank IN
    /\ pc[c] = "allocate"
    /\ block' = [block EXCEPT ![k] =
           [live |-> TRUE, size |-> grow[c].size, tag |-> NoTag]]
    /\ grow' = [grow EXCEPT ![c].rank = k + 1]
    /\ IF k + 1 = PoolSize THEN StartWork(c) ELSE UNCHANGED <<pc, todo>>
    /\ UNCHANGED <<call, count, mutex, result, within>>

ThrowReleases(c) ==
    /\ MayThrow
    /\ pc[c] = "allocate"
    /\ block' = [block EXCEPT ![grow[c].rank].live = FALSE]
    /\ mutex' = 0
    /\ Return(c)
    /\ UNCHANGED <<count, todo, result>>

\* The allocation fails after the old block was freed: the exception leaves
\* execute() with m_pool[k] pointing to the freed block and the lock taken.
AllocateThrows(c) ==
    /\ MayThrow
    /\ pc[c] = "allocate"
    /\ block' = [block EXCEPT ![grow[c].rank].live = FALSE]
    /\ Return(c)
    /\ UNCHANGED <<count, mutex, todo, result>>

\* Pool rank k runs its part of the call in its own block, and comes back from
\* the functor, which is in no dispatch any more.
Work(c, k) ==
    /\ pc[c] = "work"
    /\ k \in todo[c]
    /\ \A d \in Callers : within[d] # <<c, k>>
    /\ block' = [block EXCEPT ![k].tag = Tag(c)]
    /\ todo' = [todo EXCEPT ![c] = @ \ {k}]
    /\ UNCHANGED <<pc, call, count, mutex, grow, result, within>>

\* Every rank is through: the caller, or the ranks themselves, read the blocks.
Collect(c) ==
    /\ pc[c] = "work"
    /\ todo[c] = {}
    /\ result' = [result EXCEPT ![c] = {block[k].tag : k \in WorkRanks(call[c])}]
    /\ IF Unlocks(call[c])
       THEN pc' = [pc EXCEPT ![c] = "unlock"] /\ UNCHANGED <<call, grow, within>>
       ELSE Return(c)
    /\ UNCHANGED <<count, mutex, block, todo>>

\* release_lock.
ReleaseLock(c) ==
    /\ pc[c] = "unlock"
    /\ mutex' = 0
    /\ Return(c)
    /\ UNCHANGED <<count, block, todo, result>>

AllDone == \A c \in Callers : pc[c] = "idle" /\ count[c] = Dispatches

\* The callers have made all their dispatches.
Finished == AllDone /\ UNCHANGED vars

\* What a caller and the pool ranks do once execute() is called.
Execute(c) ==
    \/ AcquireLock(c) \/ Resize(c) \/ Allocate(c)
    \/ (\E k \in Ranks : Work(c, k)) \/ Collect(c) \/ ReleaseLock(c)

Step(c) == Dispatch(c) \/ Execute(c) \/ AllocateThrows(c)

Next == (\E c \in Callers : Step(c)) \/ Finished

\* A call in progress goes on; nobody has to dispatch, no allocation to fail.
Spec == Init /\ [][Next]_vars /\ \A c \in Callers : WF_vars(Execute(c))

-----------------------------------------------------------------------------
\* The states of the calling threads, the lock word and the blocks of the pool.
TypeOK ==
    /\ pc \in [Callers -> {"idle", "lock", "resize", "allocate", "work", "unlock"}]
    /\ call \in [Callers -> Dispatchable \cup {NoCall}]
    /\ count \in [Callers -> 0 .. Dispatches]
    /\ mutex \in {0, 1}
    /\ block \in [Ranks -> [live : BOOLEAN, size : [Areas -> Sizes \cup {0}],
                            tag : {NoTag} \cup (Callers \X (1 .. Dispatches))]]
    /\ grow \in [Callers -> [rank : 0 .. PoolSize, size : [Areas -> Sizes \cup {0}]]]
    /\ todo \in [Callers -> SUBSET Ranks]
    /\ result \in [Callers -> SUBSET ({NoTag} \cup (Callers \X (1 .. Dispatches)))]
    /\ within \in [Callers -> {Outside} \cup (Callers \X Ranks)]

\* c resizes or uses the blocks of the pool, or has the lock still to release.
InPool(c) == pc[c] \in {"resize", "allocate", "work", "unlock"}

\* "Acquire lock used to protect access to m_pool"
\* (Kokkos_OpenMP_Instance.hpp:96): two calls are never both at the pool.
PoolProtected == \A c, d \in Callers : InPool(c) /\ InPool(d) => c = d

\* No allocation has failed so far: every block of the pool is there.
Intact == \A k \in Ranks : block[k].live

\* "Release lock used to protect access to m_pool"
\* (Kokkos_OpenMP_Instance.hpp:99): a call that is over does not keep the lock,
\* unless an exception ended it in the middle of a resize.
LockHandedBack == Intact /\ mutex = 1 => \E c \in Callers : InPool(c)

\* The ranks work in blocks that are allocated and as large as the call asked,
\* also after a resize was cut short by an exception, and the call reads from
\* them what its own ranks wrote there, nothing of an earlier or concurrent call.
WorksInOwnBlocks ==
    \A c \in Callers :
        /\ pc[c] = "work" => \A k \in WorkRanks(call[c]) :
              block[k].live /\ \A a \in Areas : block[k].size[a] >= Need(c, a)
        /\ result[c] \subseteq {Tag(c)}

\* A functor of a call that has the lock dispatches a pattern that takes it.
WaitsForItself ==
    \E c \in Callers : pc[c] = "lock" /\ within[c] # Outside /\ TakesLock(call[within[c][1]].kind)

\* Every dispatch returns to its caller, but for two cases in which the lock is
\* never free again and all calls that want it spin for ever: an exception left
\* it taken, or a functor waits for the call that it is part of.
EveryDispatchReturns ==
    \A c \in Callers : pc[c] # "idle" ~> pc[c] = "idle" \/ ~Intact \/ WaitsForItself
=============================================================================
