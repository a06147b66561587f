---------------------------- MODULE OpenMPProofs ----------------------------
(***************************************************************************)
(* Proofs about the OpenMP backend: its dispatches and its task scheduler. *)
(*                                                                         *)
(* That the instance's lock protects the pool, for any number of callers,  *)
(* any pool and any number of dispatches, as long as nobody dispatches the *)
(* scan without a total; and that it is always handed back, as long as     *)
(* nobody dispatches a RangePolicy reduction inside a parallel region; an  *)
(* allocation may fail.  The two premises are the two cases in which the   *)
(* code is wrong (runs dispatch_scan and dispatch_serial_reduce).          *)
(*                                                                         *)
(* That tasks run after their predecessors, that the count of ready tasks  *)
(* and the reference counts say what they should, and that no task is      *)
(* touched after it is gone, for any number of workers and tasks.          *)
(***************************************************************************)
EXTENDS MCOpenMP,
        FiniteSetTheorems, SequenceTheorems, WellFoundedInduction, TLAPS

\* Nobody dispatches the pattern that takes no lock.
NoScan == "scan" \notin Kinds \cup SerialKinds

\* Nobody dispatches the pattern that keeps the lock.
NoLeak == "reduce" \notin SerialKinds

PCs == {"idle", "lock", "resize", "allocate", "work", "unlock"}

\* c's call takes the lock before it comes to the pool.
LocksFirst(c) == pc[c] # "idle" => TakesLock(call[c].kind)

\* The inductive invariant: who is at the pool has the lock.
LockInv ==
    /\ pc \in [Callers -> PCs]
    /\ call \in [Callers -> Dispatchable \cup {NoCall}]
    /\ mutex \in {0, 1}
    /\ PoolProtected
    /\ \A c \in Callers : InPool(c) => mutex = 1

\* And the lock is taken only while somebody is at the pool.
LeakInv ==
    /\ LockInv
    /\ LockHandedBack
    /\ \A c \in Callers : LocksFirst(c)
    /\ \A c \in Callers : pc[c] # "idle" => call[c] \in Dispatchable

\* TypeOK is inductive with what a call in progress knows of its locals.
TypeInv ==
    /\ TypeOK
    /\ \A c \in Callers : pc[c] = "allocate" => grow[c].rank \in Ranks
    /\ \A c \in Callers : pc[c] # "idle" => count[c] # 0

Tags == {NoTag} \cup (Callers \X (1 .. Dispatches))
SizesOf == [Areas -> Sizes \cup {0}]

LEMMA RankZero == 0 \in Ranks /\ Ranks \subseteq Nat
  BY PoolSizeAssumption DEF Ranks

\* A call works in blocks of the pool.
LEMMA WorkRanksAreRanks ==
  ASSUME NEW d \in Dispatchable \cup {NoCall}
  PROVE  WorkRanks(d) \subseteq Ranks
  <1>1. d.rank \in Ranks
    <2>1. CASE d = NoCall
      BY <2>1, RankZero DEF NoCall
    <2>2. CASE d \in Dispatchable
      BY <2>2, RankZero DEF Dispatchable
    <2> QED BY <2>1, <2>2
  <1> QED BY <1>1, RankZero DEF WorkRanks

LEMMA NeedIsSize ==
  ASSUME TypeOK, NEW c \in Callers, NEW a \in Areas
  PROVE  Need(c, a) \in Sizes \cup {0}
  <1>1. call[c] \in Dispatchable \cup {NoCall}
    BY DEF TypeOK
  <1>2. call[c].bytes \in Sizes \cup {0}
    <2>1. CASE call[c] = NoCall
      BY <2>1 DEF NoCall
    <2>2. CASE call[c] \in Dispatchable
      BY <2>2 DEF Dispatchable
    <2> QED BY <1>1, <2>1, <2>2
  <1> QED BY <1>2 DEF Need

LEMMA SizesAreNat ==
  ASSUME TypeOK, NEW c \in Callers, NEW a \in Areas
  PROVE  Need(c, a) \in Nat /\ block[0].size[a] \in Nat
  <1>1. \A n \in Sizes \cup {0} : n \in Nat
    BY SizesAssumption
  <1>2. block[0] \in [live : BOOLEAN, size : SizesOf, tag : Tags]
    BY RankZero DEF TypeOK, SizesOf, Tags
  <1>3. block[0].size[a] \in Sizes \cup {0}
    BY <1>2 DEF SizesOf
  <1>4. Need(c, a) \in Sizes \cup {0}
    BY NeedIsSize
  <1> QED BY <1>1, <1>3, <1>4

LEMMA InitType == Init => TypeInv
  <1> SUFFICES ASSUME Init PROVE TypeInv
    OBVIOUS
  <1>1. NoCall \in Dispatchable \cup {NoCall} /\ NoGrow \in [rank : 0 .. PoolSize, size : SizesOf]
    BY PoolSizeAssumption DEF NoGrow, SizesOf
  <1>2. [live |-> TRUE, size |-> [a \in Areas |-> 0], tag |-> NoTag]
          \in [live : BOOLEAN, size : SizesOf, tag : Tags]
    BY DEF SizesOf, Tags
  <1>3. 0 \in 0 .. Dispatches
    BY DispatchesAssumption
  <1> QED BY <1>1, <1>2, <1>3 DEF Init, TypeInv, TypeOK, SizesOf, Tags

\* A call is made in the functor of no call, or in that of a rank.
LEMMA StepWithin ==
  ASSUME within \in [Callers -> {Outside} \cup (Callers \X Ranks)], [Next]_vars
  PROVE  within' \in [Callers -> {Outside} \cup (Callers \X Ranks)]
  <1>1. ASSUME NEW c \in Callers, Dispatch(c)
        PROVE  within' \in [Callers -> {Outside} \cup (Callers \X Ranks)]
    <2>1. PICK d \in Dispatchable :
              \/ UNCHANGED within
              \/ \E f \in {Outside} \cup Functors(d) : within' = [within EXCEPT ![c] = f]
      BY <1>1 DEF Dispatch
    <2>2. Functors(d) \subseteq Callers \X Ranks
      BY DEF Functors
    <2> QED BY <2>1, <2>2
  <1>2. ASSUME NEW c \in Callers, Execute(c) \/ AllocateThrows(c)
        PROVE  within' \in [Callers -> {Outside} \cup (Callers \X Ranks)]
    <2>1. UNCHANGED within \/ within' = [within EXCEPT ![c] = Outside]
      BY <1>2 DEF Execute, AllocateThrows, AcquireLock, Resize, Allocate, Work, Collect,
                  ReleaseLock, Return
    <2> QED BY <2>1
  <1>3. CASE Finished \/ UNCHANGED vars
    BY <1>3 DEF Finished, vars
  <1> QED BY <1>1, <1>2, <1>3 DEF Next, Step

\* Every step keeps the types, whatever is dispatched.
LEMMA StepType == TypeInv /\ [Next]_vars => TypeInv'
  <1> SUFFICES ASSUME TypeInv, [Next]_vars PROVE TypeInv'
    OBVIOUS
  <1> USE DEF TypeInv
  <1>t. TypeOK
    OBVIOUS
  <1>w. within' \in [Callers -> {Outside} \cup (Callers \X Ranks)]
    BY StepWithin DEF TypeOK
  <1>1. ASSUME NEW c \in Callers, Dispatch(c) PROVE TypeInv'
    <2>1. PICK d \in Dispatchable :
              IF ReturnsEarly(d) \/ d.kind = "for"
              THEN UNCHANGED <<pc, call>>
              ELSE /\ call' = [call EXCEPT ![c] = d]
                   /\ pc' = [pc EXCEPT ![c] = IF TakesLock(d.kind) THEN "lock" ELSE "resize"]
      BY <1>1 DEF Dispatch
    <2>2. count[c] + 1 \in 1 .. Dispatches
      BY <1>1, DispatchesAssumption DEF Dispatch, TypeOK
    <2>3. /\ count' = [count EXCEPT ![c] = @ + 1] /\ result' = [result EXCEPT ![c] = {}]
          /\ UNCHANGED <<mutex, block, grow, todo>>
      BY <1>1 DEF Dispatch
    <2>4. /\ pc' \in [Callers -> {"idle", "lock", "resize", "allocate", "work", "unlock"}]
          /\ call' \in [Callers -> Dispatchable \cup {NoCall}]
          /\ \A e \in Callers : e # c => pc'[e] = pc[e]
          /\ pc'[c] # "allocate" \/ pc'[c] = pc[c]
      <3>1. /\ pc \in [Callers -> {"idle", "lock", "resize", "allocate", "work", "unlock"}]
            /\ call \in [Callers -> Dispatchable \cup {NoCall}]
        BY DEF TypeOK
      <3>2. CASE ReturnsEarly(d) \/ d.kind = "for"
        BY <2>1, <3>1, <3>2
      <3>3. CASE ~(ReturnsEarly(d) \/ d.kind = "for")
        <4>1. PICK s \in {"lock", "resize"} : pc' = [pc EXCEPT ![c] = s]
          BY <2>1, <3>3
        <4>2. call' = [call EXCEPT ![c] = d]
          BY <2>1, <3>3
        <4> QED BY <4>1, <4>2, <3>1
      <3> QED BY <3>2, <3>3
    <2>5. count' \in [Callers -> 0 .. Dispatches] /\ count'[c] # 0
          /\ \A e \in Callers : e # c => count'[e] = count[e]
      BY <2>2, <2>3 DEF TypeOK
    <2>6. result' \in [Callers -> SUBSET ({NoTag} \cup (Callers \X (1 .. Dispatches)))]
      BY <2>3 DEF TypeOK
    <2> QED BY <2>3, <2>4, <2>5, <2>6, <1>w DEF TypeOK
  <1>2. ASSUME NEW c \in Callers, AcquireLock(c) PROVE TypeInv'
    BY <1>2, <1>w DEF AcquireLock, TypeOK
  <1>3. ASSUME NEW c \in Callers, Resize(c) PROVE TypeInv'
    <2>1. CASE MustAllocate(c)
      <3>1. Grown(c) \in SizesOf
        BY NeedIsSize, RankZero DEF Grown, SizesOf, TypeOK
      <3>2. [rank |-> 0, size |-> Grown(c)] \in [rank : 0 .. PoolSize, size : SizesOf]
        BY <3>1, PoolSizeAssumption
      <3>3. /\ grow' = [grow EXCEPT ![c] = [rank |-> 0, size |-> Grown(c)]]
            /\ pc' = [pc EXCEPT ![c] = "allocate"] /\ pc[c] = "resize"
            /\ UNCHANGED <<todo, call, count, mutex, block, result>>
        BY <1>3, <2>1 DEF Resize
      <3>4. grow' \in [Callers -> [rank : 0 .. PoolSize, size : SizesOf]]
            /\ grow'[c].rank \in Ranks
        BY <3>2, <3>3, RankZero DEF TypeOK, SizesOf
      <3> QED BY <3>3, <3>4, <1>w DEF TypeOK, SizesOf
    <2>2. CASE ~MustAllocate(c)
      <3>1. WorkRanks(call[c]) \subseteq Ranks
        BY WorkRanksAreRanks DEF TypeOK
      <3>2. /\ pc' = [pc EXCEPT ![c] = "work"] /\ pc[c] = "resize"
            /\ todo' = [todo EXCEPT ![c] = WorkRanks(call[c])]
            /\ UNCHANGED <<grow, call, count, mutex, block, result>>
        BY <1>3, <2>2 DEF Resize, StartWork
      <3>3. todo' \in [Callers -> SUBSET Ranks]
        BY <3>1, <3>2 DEF TypeOK
      <3> QED BY <3>2, <3>3, <1>w DEF TypeOK
    <2> QED BY <2>1, <2>2
  <1>4. ASSUME NEW c \in Callers, Allocate(c) PROVE TypeInv'
    <2>1. grow[c].rank \in Ranks /\ pc[c] = "allocate" /\ WorkRanks(call[c]) \subseteq Ranks
      BY <1>4, WorkRanksAreRanks DEF Allocate, TypeOK
    <2>2. block' \in [Ranks -> [live : BOOLEAN, size : SizesOf, tag : Tags]]
      <3>1. [live |-> TRUE, size |-> grow[c].size, tag |-> NoTag]
              \in [live : BOOLEAN, size : SizesOf, tag : Tags]
        BY DEF TypeOK, SizesOf, Tags
      <3> QED BY <1>4, <3>1 DEF Allocate, TypeOK, SizesOf, Tags
    <2>3. grow' \in [Callers -> [rank : 0 .. PoolSize, size : SizesOf]]
          /\ grow'[c].rank = grow[c].rank + 1 /\ \A e \in Callers : e # c => grow'[e] = grow[e]
      <3>1. grow[c].rank + 1 \in 0 .. PoolSize
        BY <2>1, PoolSizeAssumption DEF Ranks
      <3> QED BY <1>4, <3>1 DEF Allocate, TypeOK, SizesOf
    <2>4. CASE grow[c].rank + 1 = PoolSize
      <3>1. /\ pc' = [pc EXCEPT ![c] = "work"]
            /\ todo' = [todo EXCEPT ![c] = WorkRanks(call[c])]
            /\ UNCHANGED <<call, count, mutex, result>>
        BY <1>4, <2>4 DEF Allocate, StartWork
      <3>2. todo' \in [Callers -> SUBSET Ranks]
        BY <2>1, <3>1 DEF TypeOK
      <3> QED BY <2>1, <2>2, <2>3, <3>1, <3>2, <1>w DEF TypeOK, SizesOf, Tags
    <2>5. CASE grow[c].rank + 1 # PoolSize
      <3>1. grow[c].rank + 1 \in Ranks
        BY <2>1, <2>5, PoolSizeAssumption DEF Ranks
      <3> QED BY <1>4, <2>1, <2>2, <2>3, <2>5, <3>1, <1>w DEF Allocate, TypeOK, SizesOf, Tags
    <2> QED BY <2>4, <2>5
  <1>5. ASSUME NEW c \in Callers, AllocateThrows(c) PROVE TypeInv'
    <2>1. NoGrow \in [rank : 0 .. PoolSize, size : SizesOf]
      BY PoolSizeAssumption DEF NoGrow, SizesOf
    <2>2. /\ pc' = [pc EXCEPT ![c] = "idle"] /\ call' = [call EXCEPT ![c] = NoCall]
          /\ grow' = [grow EXCEPT ![c] = NoGrow] /\ UNCHANGED <<count, mutex, todo, result>>
      BY <1>5 DEF AllocateThrows, Return
    <2>3. block' \in [Ranks -> [live : BOOLEAN, size : SizesOf, tag : Tags]]
      <3>1. grow[c].rank \in Ranks
        BY <1>5 DEF AllocateThrows
      <3> DEFINE Block == [live : BOOLEAN, size : SizesOf, tag : Tags]
      <3>2. block \in [Ranks -> Block]
        BY DEF TypeOK, SizesOf, Tags
      <3>3. block' = [block EXCEPT ![grow[c].rank].live = FALSE]
        BY <1>5 DEF AllocateThrows
      <3>4. [block[grow[c].rank] EXCEPT !.live = FALSE] \in Block
        BY <3>1, <3>2
      <3> HIDE DEF Block
      <3>5. block' \in [Ranks -> Block]
        BY <3>2, <3>3, <3>4
      <3> QED BY <3>5 DEF Block
    <2> QED BY <2>1, <2>2, <2>3, <1>w DEF TypeOK, SizesOf, Tags
  <1>6. ASSUME NEW c \in Callers, NEW k \in Ranks, Work(c, k) PROVE TypeInv'
    <2>1. Tag(c) \in {NoTag} \cup (Callers \X (1 .. Dispatches))
      BY <1>6, DispatchesAssumption DEF Work, TypeOK, Tag
    <2>2. block' = [block EXCEPT ![k].tag = Tag(c)] /\ todo' = [todo EXCEPT ![c] = @ \ {k}]
          /\ UNCHANGED <<pc, call, count, mutex, grow, result>>
      BY <1>6 DEF Work
    <2>3. block' \in [Ranks -> [live : BOOLEAN, size : SizesOf, tag : Tags]]
      <3> DEFINE Block == [live : BOOLEAN, size : SizesOf, tag : Tags]
      <3>1. block \in [Ranks -> Block]
        BY DEF TypeOK, SizesOf, Tags
      <3>2. [block[k] EXCEPT !.tag = Tag(c)] \in Block
        BY <3>1, <2>1 DEF Tags
      <3> HIDE DEF Block
      <3>3. block' \in [Ranks -> Block]
        BY <3>1, <3>2, <2>2
      <3> QED BY <3>3 DEF Block
    <2>4. todo' \in [Callers -> SUBSET Ranks]
      BY <2>2 DEF TypeOK
    <2>5. TypeOK'
      BY <2>2, <2>3, <2>4, <1>w DEF TypeOK, SizesOf, Tags
    <2> QED BY <1>6, <2>2, <2>5 DEF Work
  <1>7. ASSUME NEW c \in Callers, Collect(c) PROVE TypeInv'
    <2>1. NoGrow \in [rank : 0 .. PoolSize, size : SizesOf]
      BY PoolSizeAssumption DEF NoGrow, SizesOf
    <2>2. {block[k].tag : k \in WorkRanks(call[c])} \subseteq {NoTag} \cup (Callers \X (1 .. Dispatches))
      BY WorkRanksAreRanks DEF TypeOK
    <2>3. result' \in [Callers -> SUBSET ({NoTag} \cup (Callers \X (1 .. Dispatches)))]
      BY <1>7, <2>2 DEF Collect, TypeOK
    <2>4. UNCHANGED <<count, mutex, block, todo>> /\ pc[c] = "work"
      BY <1>7 DEF Collect
    <2>5. CASE Unlocks(call[c])
      BY <1>7, <2>3, <2>4, <2>5, <1>w DEF Collect, TypeOK
    <2>6. CASE ~Unlocks(call[c])
      <3>1. /\ pc' = [pc EXCEPT ![c] = "idle"] /\ call' = [call EXCEPT ![c] = NoCall]
            /\ grow' = [grow EXCEPT ![c] = NoGrow]
        BY <1>7, <2>6 DEF Collect, Return
      <3> QED BY <2>1, <2>3, <2>4, <3>1, <1>w DEF TypeOK, SizesOf
    <2> QED BY <2>5, <2>6
  <1>8. ASSUME NEW c \in Callers, ReleaseLock(c) PROVE TypeInv'
    <2>1. NoGrow \in [rank : 0 .. PoolSize, size : SizesOf]
      BY PoolSizeAssumption DEF NoGrow, SizesOf
    <2> QED BY <1>8, <2>1, <1>w DEF ReleaseLock, Return, TypeOK, SizesOf
  <1>9. CASE Finished \/ UNCHANGED vars
    BY <1>9 DEF Finished, vars, TypeOK
  <1> QED BY <1>1, <1>2, <1>3, <1>4, <1>5, <1>6, <1>7, <1>8, <1>9 DEF Next, Step, Execute

\* Whatever is dispatched and whatever throws, the state of the instance and of
\* its callers keeps its types: the lock word is 0 or 1, a rank works in a block
\* of the pool and resize_thread_data stays within m_pool.
THEOREM DispatchTypes == Spec => []TypeOK
  <1>1. TypeInv => TypeOK
    BY DEF TypeInv
  <1> QED BY InitType, StepType, <1>1, PTL DEF Spec

-----------------------------------------------------------------------------
LEMMA InitLock == Init => LockInv
  BY DEF Init, LockInv, PCs, PoolProtected, InPool

\* Nobody comes to the pool without the lock, and leaving it only frees it.
LEMMA StepLock == NoScan /\ LockInv /\ [Next]_vars => LockInv'
  <1> SUFFICES ASSUME NoScan, LockInv, [Next]_vars PROVE LockInv'
    OBVIOUS
  <1> USE DEF LockInv, PoolProtected, InPool, PCs
  <1>1. ASSUME NEW c \in Callers, Dispatch(c) PROVE LockInv'
    <2>1. PICK d \in Dispatchable :
              IF ReturnsEarly(d) \/ d.kind = "for"
              THEN UNCHANGED <<pc, call>>
              ELSE /\ call' = [call EXCEPT ![c] = d]
                   /\ pc' = [pc EXCEPT ![c] = IF TakesLock(d.kind) THEN "lock" ELSE "resize"]
      BY <1>1 DEF Dispatch
    <2>2. d.kind \in Kinds \cup SerialKinds
      BY DEF Dispatchable
    <2>3. CASE ReturnsEarly(d) \/ d.kind = "for"
      BY <1>1, <2>1, <2>3 DEF Dispatch
    <2>4. CASE ~(ReturnsEarly(d) \/ d.kind = "for")
      <3>1. TakesLock(d.kind)
        BY <2>2, <2>4 DEF TakesLock, NoScan
      <3>2. pc' = [pc EXCEPT ![c] = "lock"] /\ call' = [call EXCEPT ![c] = d] /\ mutex' = mutex
        BY <1>1, <2>1, <2>4, <3>1 DEF Dispatch
      <3> QED BY <3>2
    <2> QED BY <2>3, <2>4
  <1>2. ASSUME NEW c \in Callers, AcquireLock(c) PROVE LockInv'
    BY <1>2 DEF AcquireLock
  <1>3. ASSUME NEW c \in Callers, Resize(c) PROVE LockInv'
    BY <1>3 DEF Resize, StartWork
  <1>4. ASSUME NEW c \in Callers, Allocate(c) PROVE LockInv'
    BY <1>4 DEF Allocate, StartWork
  <1>5. ASSUME NEW c \in Callers, AllocateThrows(c) PROVE LockInv'
    BY <1>5 DEF AllocateThrows, Return
  <1>6. ASSUME NEW c \in Callers, NEW k \in Ranks, Work(c, k) PROVE LockInv'
    BY <1>6 DEF Work
  <1>7. ASSUME NEW c \in Callers, Collect(c) PROVE LockInv'
    BY <1>7 DEF Collect, Return
  <1>8. ASSUME NEW c \in Callers, ReleaseLock(c) PROVE LockInv'
    BY <1>8 DEF ReleaseLock, Return
  <1>9. CASE Finished \/ UNCHANGED vars
    BY <1>9 DEF Finished, vars
  <1> QED BY <1>1, <1>2, <1>3, <1>4, <1>5, <1>6, <1>7, <1>8, <1>9 DEF Next, Step, Execute

\* The lock of the instance protects the pool: no two calls resize or use the
\* thread data at the same time (acquire_lock, Kokkos_OpenMP_Instance.cpp:37),
\* if every pattern that is dispatched takes it.
THEOREM DispatchProtectsPool == NoScan => (Spec => []PoolProtected)
  <1> SUFFICES ASSUME NoScan PROVE Spec => []PoolProtected
    OBVIOUS
  <1>1. Init => LockInv
    BY InitLock
  <1>2. LockInv /\ [Next]_vars => LockInv'
    BY StepLock
  <1>3. LockInv => PoolProtected
    BY DEF LockInv
  <1> QED BY <1>1, <1>2, <1>3, PTL DEF Spec

-----------------------------------------------------------------------------
LEMMA InitLeak == Init => LeakInv
  BY InitLock DEF Init, LeakInv, LockHandedBack, LocksFirst

\* The caller that has the lock leaves the pool through release_lock().
LEMMA StepLeak == NoScan /\ NoLeak /\ TypeInv /\ LeakInv /\ [Next]_vars => LeakInv'
  <1> SUFFICES ASSUME NoScan, NoLeak, TypeInv, LeakInv, [Next]_vars PROVE LeakInv'
    OBVIOUS
  <1>0. LockInv /\ LockInv'
    BY StepLock DEF LeakInv
  <1> DEFINE Goal == /\ LockHandedBack'
                     /\ \A c \in Callers : LocksFirst(c)'
                     /\ \A c \in Callers : (pc[c] # "idle" => call[c] \in Dispatchable)'
  <1> SUFFICES Goal
    BY <1>0 DEF LeakInv
  <1> USE DEF LeakInv, LockHandedBack, LocksFirst, InPool
  <1>t. pc \in [Callers -> PCs] /\ call \in [Callers -> Dispatchable \cup {NoCall}]
    BY <1>0 DEF LockInv
  <1>1. ASSUME NEW c \in Callers, Dispatch(c) PROVE Goal
    <2>1. PICK d \in Dispatchable :
              IF ReturnsEarly(d) \/ d.kind = "for"
              THEN UNCHANGED <<pc, call>>
              ELSE /\ call' = [call EXCEPT ![c] = d]
                   /\ pc' = [pc EXCEPT ![c] = IF TakesLock(d.kind) THEN "lock" ELSE "resize"]
      BY <1>1 DEF Dispatch
    <2>2. d.kind \in Kinds \cup SerialKinds
      BY DEF Dispatchable
    <2>0. Intact' = Intact
      BY <1>1 DEF Dispatch, Intact
    <2>3. CASE ReturnsEarly(d) \/ d.kind = "for"
      BY <1>1, <2>0, <2>1, <2>3 DEF Dispatch
    <2>4. CASE ~(ReturnsEarly(d) \/ d.kind = "for")
      <3>1. TakesLock(d.kind)
        BY <2>2, <2>4 DEF TakesLock, NoScan
      <3>2. pc' = [pc EXCEPT ![c] = "lock"] /\ call' = [call EXCEPT ![c] = d] /\ mutex' = mutex
        BY <1>1, <2>1, <2>4, <3>1 DEF Dispatch
      <3>3. pc[c] = "idle"
        BY <1>1 DEF Dispatch
      <3> QED BY <2>0, <3>1, <3>2, <3>3, <1>t
    <2> QED BY <2>3, <2>4
  <1>2. ASSUME NEW c \in Callers, AcquireLock(c) PROVE Goal
    BY <1>2, <1>t DEF AcquireLock
  <1>3. ASSUME NEW c \in Callers, Resize(c) PROVE Goal
    BY <1>3, <1>t DEF Resize, StartWork
  <1>4. ASSUME NEW c \in Callers, Allocate(c) PROVE Goal
    <2>1. /\ pc' = pc \/ pc' = [pc EXCEPT ![c] = "work"]
          /\ call' = call /\ mutex' = mutex /\ pc[c] = "allocate"
      BY <1>4 DEF Allocate, StartWork
    <2> QED BY <2>1, <1>t
  <1>5. ASSUME NEW c \in Callers, AllocateThrows(c) PROVE Goal
    <2>1. grow[c].rank \in Ranks /\ block[grow[c].rank] \in [live : BOOLEAN, size : SizesOf, tag : Tags]
      BY <1>5 DEF AllocateThrows, TypeInv, TypeOK, SizesOf, Tags
    <2>2. block'[grow[c].rank].live = FALSE
      BY <1>5, <2>1 DEF AllocateThrows, TypeInv, TypeOK
    <2>3. ~Intact'
      BY <2>1, <2>2 DEF Intact
    <2>4. pc' = [pc EXCEPT ![c] = "idle"] /\ call' = [call EXCEPT ![c] = NoCall]
      BY <1>5 DEF AllocateThrows, Return
    <2> QED BY <2>3, <2>4, <1>t
  <1>6. ASSUME NEW c \in Callers, NEW k \in Ranks, Work(c, k) PROVE Goal
    <2>1. pc' = pc /\ call' = call /\ mutex' = mutex /\ pc[c] = "work"
      BY <1>6 DEF Work
    <2> QED BY <2>1
  <1>7. ASSUME NEW c \in Callers, Collect(c) PROVE Goal
    <2>1. pc[c] = "work" /\ call[c] \in Dispatchable /\ TakesLock(call[c].kind)
      BY <1>7 DEF Collect
    <2>2. Unlocks(call[c])
      <3>1. call[c].serial => call[c].kind \in SerialKinds
        BY <2>1 DEF Dispatchable
      <3> QED BY <2>1, <3>1 DEF Unlocks, NoLeak
    <2>3. pc' = [pc EXCEPT ![c] = "unlock"] /\ call' = call /\ mutex' = mutex
      BY <1>7, <2>2 DEF Collect
    <2> QED BY <2>1, <2>3, <1>t
  <1>8. ASSUME NEW c \in Callers, ReleaseLock(c) PROVE Goal
    BY <1>8, <1>t DEF ReleaseLock, Return
  <1>9. CASE Finished \/ UNCHANGED vars
    BY <1>9 DEF Finished, vars, Intact
  <1> QED BY <1>1, <1>2, <1>3, <1>4, <1>5, <1>6, <1>7, <1>8, <1>9 DEF Next, Step, Execute

\* A call that is over has given the lock back (release_lock,
\* Kokkos_OpenMP_Instance.cpp:45), if nobody dispatches a RangePolicy reduction
\* inside a parallel region, or an exception has cut a resize short.
THEOREM DispatchHandsLockBack == NoScan /\ NoLeak => (Spec => []LockHandedBack)
  <1> SUFFICES ASSUME NoScan, NoLeak PROVE Spec => []LockHandedBack
    OBVIOUS
  <1>1. Init => LeakInv
    BY InitLeak
  <1>2. TypeInv /\ LeakInv /\ [Next]_vars => LeakInv'
    BY StepLeak
  <1>3. LeakInv => LockHandedBack
    BY DEF LeakInv
  <1> QED BY <1>1, <1>2, <1>3, InitType, StepType, PTL DEF Spec

-----------------------------------------------------------------------------
\* All blocks of the pool are as large as that of rank 0, the only one that
\* resize_thread_data looks at.
Uniform == \A k \in Ranks : block[k].size = block[0].size

\* After an exception cut a resize short, the lock stays taken and nobody is at
\* the pool, so that nobody looks at blocks that are freed or of uneven size.
CutShort == ~Intact => mutex = 1 /\ \A c \in Callers : ~InPool(c)

\* A resize that has come to rank grow[c].rank.
Growing(c) ==
    pc[c] = "allocate" =>
        /\ \A a \in Areas : grow[c].size[a] >= Need(c, a)
        /\ \A k \in Ranks : k < grow[c].rank => block[k].size = grow[c].size

\* A call at work has blocks of the size it asked for, and the ranks that are
\* through have left its tag in theirs.
Working(c) ==
    pc[c] = "work" =>
        /\ \A k \in Ranks : \A a \in Areas : block[k].size[a] >= Need(c, a)
        /\ \A k \in WorkRanks(call[c]) \ todo[c] : block[k].tag = Tag(c)

\* The inductive invariant behind WorksInOwnBlocks.
BlocksInv ==
    /\ LockInv
    /\ CutShort
    /\ Intact /\ (\A c \in Callers : pc[c] # "allocate") => Uniform
    /\ \A c \in Callers : Growing(c) /\ Working(c) /\ result[c] \subseteq {Tag(c)}

LEMMA InitBlocks == Init => BlocksInv
  <1> SUFFICES ASSUME Init PROVE BlocksInv
    OBVIOUS
  <1>1. Intact /\ Uniform
    BY RankZero DEF Init, Intact, Uniform
  <1>2. \A c \in Callers : pc[c] = "idle" /\ result[c] = {}
    BY DEF Init
  <1> QED BY InitLock, <1>1, <1>2 DEF BlocksInv, CutShort, Growing, Working

\* resize_thread_data leaves no area smaller than the call asks for.
LEMMA GrownCovers ==
  ASSUME TypeOK, NEW c \in Callers, NEW a \in Areas
  PROVE  Grown(c)[a] >= Need(c, a)
  BY SizesAreNat DEF Grown

\* Only the call that is at the pool touches the blocks.
LEMMA StepBlocks == NoScan /\ TypeInv /\ BlocksInv /\ [Next]_vars => BlocksInv'
  <1> SUFFICES ASSUME NoScan, TypeInv, BlocksInv, [Next]_vars PROVE BlocksInv'
    OBVIOUS
  <1>l. LockInv /\ LockInv'
    BY StepLock DEF BlocksInv
  <1>t. TypeOK
    BY DEF TypeInv
  <1>p. /\ pc \in [Callers -> PCs] /\ call \in [Callers -> Dispatchable \cup {NoCall}]
        /\ \A c \in Callers : InPool(c) => mutex = 1
        /\ \A c, d \in Callers : InPool(c) /\ InPool(d) => c = d
    BY <1>l DEF LockInv, PoolProtected
  <1>b. block \in [Ranks -> [live : BOOLEAN, size : SizesOf, tag : Tags]]
    BY <1>t DEF TypeOK, SizesOf, Tags
  <1> DEFINE Same == Intact /\ (\A c \in Callers : pc[c] # "allocate") => Uniform
             Each(c) == Growing(c) /\ Working(c) /\ result[c] \subseteq {Tag(c)}
             Goal == CutShort' /\ Same' /\ \A e \in Callers : Each(e)'
  <1> SUFFICES Goal
    BY <1>l DEF BlocksInv
  <1>i. CutShort /\ Same /\ \A e \in Callers : Each(e)
    BY DEF BlocksInv
  \* A caller of whom nothing changes keeps what it knows while the blocks stay.
  <1>k. ASSUME NEW e \in Callers, block' = block, pc'[e] = pc[e], call'[e] = call[e],
               count'[e] = count[e], grow'[e] = grow[e], todo'[e] = todo[e], result'[e] = result[e]
        PROVE  Each(e)'
    BY <1>k, <1>i DEF Growing, Working, Need, Tag
  \* And so does a caller away from the pool, whatever happens to the blocks.
  <1>a. ASSUME NEW e \in Callers, ~InPool(e), pc'[e] = pc[e], count'[e] = count[e],
               result'[e] = result[e]
        PROVE  Each(e)'
    BY <1>a, <1>i DEF Growing, Working, Tag, InPool
  <1>1. ASSUME NEW c \in Callers, Dispatch(c) PROVE Goal
    <2>1. PICK d \in Dispatchable :
              IF ReturnsEarly(d) \/ d.kind = "for"
              THEN UNCHANGED <<pc, call>>
              ELSE /\ call' = [call EXCEPT ![c] = d]
                   /\ pc' = [pc EXCEPT ![c] = IF TakesLock(d.kind) THEN "lock" ELSE "resize"]
      BY <1>1 DEF Dispatch
    <2>2. d.kind \in Kinds \cup SerialKinds
      BY DEF Dispatchable
    <2>3. /\ count' = [count EXCEPT ![c] = @ + 1] /\ result' = [result EXCEPT ![c] = {}]
          /\ UNCHANGED <<mutex, block, grow, todo>> /\ pc[c] = "idle"
      BY <1>1 DEF Dispatch
    <2>4. /\ pc'[c] \in {"idle", "lock"}
          /\ \A e \in Callers : e # c => pc'[e] = pc[e] /\ call'[e] = call[e]
      BY <2>1, <2>2, <2>3, <1>p DEF NoScan, TakesLock
    <2>5. \A e \in Callers : Each(e)'
      <3>1. ASSUME NEW e \in Callers, e # c PROVE Each(e)'
        BY <3>1, <2>3, <2>4, <1>k, <1>t DEF TypeOK
      <3>2. result'[c] = {}
        BY <2>3, <1>t DEF TypeOK
      <3>3. Each(c)'
        BY <3>2, <2>4 DEF Growing, Working
      <3> QED BY <3>1, <3>3
    <2>6. Intact' = Intact /\ Uniform' = Uniform
      BY <2>3 DEF Intact, Uniform
    <2>7. CutShort' /\ Same'
      BY <1>i, <2>3, <2>4, <2>6 DEF CutShort, InPool
    <2> QED BY <2>5, <2>7
  <1>2. ASSUME NEW c \in Callers, AcquireLock(c) PROVE Goal
    <2>1. /\ pc' = [pc EXCEPT ![c] = "resize"] /\ pc[c] = "lock" /\ mutex = 0
          /\ UNCHANGED <<call, count, block, grow, todo, result>>
      BY <1>2 DEF AcquireLock
    <2>2. Intact /\ Intact' /\ Uniform' = Uniform
      BY <1>i, <2>1 DEF CutShort, Intact, Uniform
    <2>3. \A e \in Callers : Each(e)'
      <3>1. ASSUME NEW e \in Callers, e # c PROVE Each(e)'
        BY <3>1, <2>1, <1>k, <1>p
      <3>2. Each(c)'
        BY <1>i, <2>1, <1>p DEF Growing, Working, Tag
      <3> QED BY <3>1, <3>2
    <2> QED BY <1>i, <1>p, <2>1, <2>2, <2>3 DEF CutShort
  <1>3. ASSUME NEW c \in Callers, Resize(c) PROVE Goal
    <2>0. /\ pc[c] = "resize" /\ InPool(c) /\ UNCHANGED <<call, count, mutex, block, result>>
          /\ \A e \in Callers : e # c => ~InPool(e)
      BY <1>3, <1>p DEF Resize, InPool
    <2>1. Intact /\ Intact' /\ Uniform' = Uniform /\ Uniform
      BY <1>i, <2>0 DEF CutShort, Intact, Uniform, InPool
    <2>2. pc'[c] \in {"allocate", "work"} /\ \A e \in Callers : e # c => pc'[e] = pc[e]
      BY <1>3, <1>p DEF Resize, StartWork
    <2>3. ASSUME NEW e \in Callers, e # c PROVE Each(e)'
      BY <2>0, <2>2, <2>3, <1>a
    <2>4. CASE MustAllocate(c)
      <3>1. pc'[c] = "allocate" /\ grow'[c] = [rank |-> 0, size |-> Grown(c)]
        BY <1>3, <2>4, <1>t DEF Resize, TypeOK
      <3>2. Growing(c)'
        <4>1. \A a \in Areas : grow'[c].size[a] >= Need(c, a)'
          BY <3>1, <2>0, GrownCovers, <1>t DEF Need
        <4>2. \A k \in Ranks : ~(k < grow'[c].rank)
          BY <3>1, RankZero
        <4> QED BY <4>1, <4>2 DEF Growing
      <3>3. Each(c)'
        BY <3>1, <3>2, <2>0, <1>i DEF Working, Tag
      <3> QED BY <2>1, <2>3, <3>1, <3>3 DEF CutShort
    <2>5. CASE ~MustAllocate(c)
      <3>1. pc'[c] = "work" /\ todo'[c] = WorkRanks(call[c])
        BY <1>3, <2>5, <1>t DEF Resize, StartWork, TypeOK
      <3>2. \A k \in Ranks : \A a \in Areas : block[k].size[a] >= Need(c, a)
        <4> SUFFICES ASSUME NEW k \in Ranks, NEW a \in Areas PROVE block[k].size[a] >= Need(c, a)
          OBVIOUS
        <4>1. block[k].size[a] = block[0].size[a]
          BY <2>1 DEF Uniform
        <4>2. ~(Need(c, a) > block[0].size[a])
          BY <2>5 DEF MustAllocate
        <4>3. Need(c, a) \in Nat /\ block[0].size[a] \in Nat
          BY SizesAreNat, <1>t
        <4> QED BY <4>1, <4>2, <4>3
      <3>3. Each(c)'
        BY <3>1, <3>2, <2>0, <1>i DEF Growing, Working, Tag, Need
      <3> QED BY <2>1, <2>3, <3>3 DEF CutShort
    <2> QED BY <2>4, <2>5
  <1>4. ASSUME NEW c \in Callers, Allocate(c) PROVE Goal
    <2> DEFINE k == grow[c].rank
    <2>0. /\ pc[c] = "allocate" /\ InPool(c) /\ k \in Ranks /\ UNCHANGED <<call, count, mutex, result>>
          /\ \A e \in Callers : e # c => ~InPool(e)
      BY <1>4, <1>p DEF Allocate, InPool, TypeInv
    <2>1. /\ block' = [block EXCEPT ![k] = [live |-> TRUE, size |-> grow[c].size, tag |-> NoTag]]
          /\ grow' = [grow EXCEPT ![c].rank = k + 1]
      BY <1>4 DEF Allocate
    <2>2. Intact /\ Intact'
      BY <1>i, <1>b, <2>0, <2>1 DEF CutShort, Intact
    <2>3. grow'[c].rank = k + 1 /\ grow'[c].size = grow[c].size
      BY <2>1, <1>t DEF TypeOK
    <2>4. \A j \in Ranks : j < k + 1 => block'[j].size = grow[c].size
      <3> SUFFICES ASSUME NEW j \in Ranks, j < k + 1 PROVE block'[j].size = grow[c].size
        OBVIOUS
      <3>0. j \in Nat /\ k \in Nat
        BY <2>0, RankZero
      <3>1. j = k \/ (j # k /\ j < k)
        <4> HIDE DEF k
        <4> QED BY <3>0
      <3>2. CASE j = k
        BY <3>2, <2>0, <2>1, <1>b
      <3>3. CASE j # k /\ j < k
        BY <3>3, <2>0, <2>1, <1>b, <1>i DEF Growing
      <3> QED BY <3>1, <3>2, <3>3
    <2>5. pc'[c] \in {"allocate", "work"} /\ \A e \in Callers : e # c => pc'[e] = pc[e]
      BY <1>4, <1>p DEF Allocate, StartWork
    <2>6. ASSUME NEW e \in Callers, e # c PROVE Each(e)'
      BY <2>0, <2>5, <2>6, <1>a
    <2>7. CASE k + 1 = PoolSize
      <3>1. pc'[c] = "work" /\ todo'[c] = WorkRanks(call[c])
        BY <1>4, <2>7, <1>t DEF Allocate, StartWork, TypeOK
      <3>2. \A j \in Ranks : block'[j].size = grow[c].size
        BY <2>4, <2>7, PoolSizeAssumption DEF Ranks
      <3>3. Uniform'
        BY <3>2, RankZero DEF Uniform
      <3>4. \A j \in Ranks : \A a \in Areas : block'[j].size[a] >= Need(c, a)
        BY <3>2, <1>i, <2>0 DEF Growing
      <3>5. Each(c)'
        BY <3>1, <3>4, <2>0, <1>i DEF Growing, Working, Tag, Need
      <3> QED BY <2>2, <2>6, <3>3, <3>5 DEF CutShort
    <2>8. CASE k + 1 # PoolSize
      <3>1. pc'[c] = "allocate"
        BY <1>4, <2>8, <2>0 DEF Allocate
      <3>2. Growing(c)'
        BY <2>3, <2>4, <2>0, <1>i DEF Growing, Need
      <3>3. Each(c)'
        BY <3>1, <3>2, <2>0, <1>i DEF Working, Tag
      <3> QED BY <2>2, <2>6, <3>1, <3>3 DEF CutShort
    <2> QED BY <2>7, <2>8
  <1>5. ASSUME NEW c \in Callers, AllocateThrows(c) PROVE Goal
    <2>0. /\ pc[c] = "allocate" /\ InPool(c) /\ mutex = 1 /\ grow[c].rank \in Ranks
          /\ \A e \in Callers : e # c => ~InPool(e)
      BY <1>5, <1>p DEF AllocateThrows, InPool, TypeInv
    <2>1. /\ pc' = [pc EXCEPT ![c] = "idle"] /\ UNCHANGED <<count, mutex, result>>
          /\ block' = [block EXCEPT ![grow[c].rank].live = FALSE]
      BY <1>5 DEF AllocateThrows, Return
    <2>2. ~Intact'
      <3>1. block'[grow[c].rank].live = FALSE
        BY <2>0, <2>1, <1>b
      <3> QED BY <2>0, <3>1 DEF Intact
    <2>3. CutShort'
      BY <2>0, <2>1, <1>p DEF CutShort, InPool
    <2>4. ASSUME NEW e \in Callers, e # c PROVE Each(e)'
      BY <2>0, <2>1, <2>4, <1>a, <1>p
    <2>5. Each(c)'
      BY <2>1, <1>p, <1>i DEF Growing, Working, Tag
    <2> QED BY <2>2, <2>3, <2>4, <2>5
  <1>6. ASSUME NEW c \in Callers, NEW k \in Ranks, Work(c, k) PROVE Goal
    <2>0. /\ pc[c] = "work" /\ InPool(c) /\ k \in todo[c]
          /\ \A e \in Callers : e # c => ~InPool(e)
      BY <1>6, <1>p DEF Work, InPool
    <2>1. /\ block' = [block EXCEPT ![k].tag = Tag(c)] /\ todo' = [todo EXCEPT ![c] = @ \ {k}]
          /\ UNCHANGED <<pc, call, count, mutex, grow, result>>
      BY <1>6 DEF Work
    <2>2. \A j \in Ranks : /\ block'[j].live = block[j].live /\ block'[j].size = block[j].size
                           /\ j # k => block'[j] = block[j]
                           /\ j = k => block'[j].tag = Tag(c)
      BY <2>1, <1>b
    <2>3. Intact' = Intact /\ Uniform' = Uniform
      BY <2>2, RankZero DEF Intact, Uniform
    <2>4. CutShort' /\ Same'
      BY <1>i, <2>1, <2>3 DEF CutShort, InPool
    <2>5. ASSUME NEW e \in Callers, e # c PROVE Each(e)'
      BY <2>0, <2>1, <2>5, <1>a
    <2>6. \A j \in WorkRanks(call[c]) \ todo'[c] : block'[j].tag = Tag(c)
      <3> SUFFICES ASSUME NEW j \in WorkRanks(call[c]), j \notin todo'[c]
                   PROVE  block'[j].tag = Tag(c)
        OBVIOUS
      <3>1. j \in Ranks
        BY WorkRanksAreRanks, <1>t DEF TypeOK
      <3>2. j = k \/ (j # k /\ j \notin todo[c])
        BY <2>1, <1>t DEF TypeOK
      <3> QED BY <3>1, <3>2, <2>0, <2>2, <1>i DEF Working
    <2>7. Each(c)'
      BY <2>0, <2>1, <2>2, <2>6, <1>i DEF Growing, Working, Tag, Need
    <2> QED BY <2>4, <2>5, <2>7
  <1>7. ASSUME NEW c \in Callers, Collect(c) PROVE Goal
    <2>0. /\ pc[c] = "work" /\ InPool(c) /\ todo[c] = {} /\ UNCHANGED <<count, mutex, block, todo>>
          /\ \A e \in Callers : e # c => ~InPool(e)
          /\ result' = [result EXCEPT ![c] = {block[k].tag : k \in WorkRanks(call[c])}]
      BY <1>7, <1>p DEF Collect, InPool
    <2>1. pc'[c] \in {"unlock", "idle"} /\ \A e \in Callers : e # c => pc'[e] = pc[e]
      BY <1>7, <1>p DEF Collect, Return
    <2>2. Intact /\ Intact' /\ Uniform' = Uniform
      BY <1>i, <2>0 DEF CutShort, Intact, Uniform
    <2>3. ASSUME NEW e \in Callers, e # c PROVE Each(e)'
      BY <2>0, <2>1, <2>3, <1>a, <1>t DEF TypeOK
    <2>4. {block[k].tag : k \in WorkRanks(call[c])} \subseteq {Tag(c)}
      BY <2>0, <1>i DEF Working
    <2>5. Each(c)'
      BY <2>0, <2>1, <2>4, <1>t DEF Growing, Working, Tag, TypeOK
    <2> QED BY <1>i, <2>0, <2>1, <2>2, <2>3, <2>5 DEF CutShort, InPool
  <1>8. ASSUME NEW c \in Callers, ReleaseLock(c) PROVE Goal
    <2>0. /\ pc[c] = "unlock" /\ InPool(c) /\ UNCHANGED <<count, block, todo, result>>
          /\ pc' = [pc EXCEPT ![c] = "idle"] /\ \A e \in Callers : e # c => ~InPool(e)
      BY <1>8, <1>p DEF ReleaseLock, Return, InPool
    <2>1. Intact /\ Intact' /\ Uniform' = Uniform
      BY <1>i, <2>0 DEF CutShort, Intact, Uniform
    <2>2. ASSUME NEW e \in Callers, e # c PROVE Each(e)'
      BY <2>0, <2>2, <1>a, <1>p
    <2>3. Each(c)'
      BY <2>0, <1>p, <1>i DEF Growing, Working, Tag
    <2> QED BY <1>i, <1>p, <2>0, <2>1, <2>2, <2>3 DEF CutShort, InPool
  <1>9. CASE Finished \/ UNCHANGED vars
    <2>1. UNCHANGED <<pc, call, count, mutex, block, grow, todo, result>>
      BY <1>9 DEF Finished, vars
    <2>2. \A e \in Callers : Each(e)'
      BY <2>1, <1>k
    <2> QED BY <1>i, <2>1, <2>2 DEF CutShort, InPool, Intact, Uniform
  <1> QED BY <1>1, <1>2, <1>3, <1>4, <1>5, <1>6, <1>7, <1>8, <1>9 DEF Next, Step, Execute

\* A call works in blocks that are allocated and as large as it asked for, and
\* reads back what its own ranks left there (resize_thread_data,
\* Kokkos_OpenMP_Instance.cpp:130), if every pattern that is dispatched takes the
\* lock; an allocation may fail half-way through the ranks.
THEOREM DispatchWorksInOwnBlocks == NoScan => (Spec => []WorksInOwnBlocks)
  <1> SUFFICES ASSUME NoScan PROVE Spec => []WorksInOwnBlocks
    OBVIOUS
  <1>1. TypeInv /\ BlocksInv /\ [Next]_vars => BlocksInv'
    BY StepBlocks
  <1>2. TypeInv /\ BlocksInv => WorksInOwnBlocks
    <2> SUFFICES ASSUME TypeInv, BlocksInv, NEW c \in Callers
                 PROVE  /\ pc[c] = "work" => \A k \in WorkRanks(call[c]) :
                              block[k].live /\ \A a \in Areas : block[k].size[a] >= Need(c, a)
                        /\ result[c] \subseteq {Tag(c)}
      BY DEF WorksInOwnBlocks
    <2>1. WorkRanks(call[c]) \subseteq Ranks
      BY WorkRanksAreRanks DEF TypeInv, TypeOK
    <2>2. pc[c] = "work" => Intact
      BY DEF BlocksInv, CutShort, InPool
    <2> QED BY <2>1, <2>2 DEF BlocksInv, Working, Intact
  <1> QED BY InitBlocks, InitType, StepType, <1>1, <1>2, PTL DEF Spec

-----------------------------------------------------------------------------
\* The inductive invariant.

NodeKinds == {"unused", "runnable", "aggregate", "freed"}

NodeType ==
    [kind : NodeKinds, ref : Int, deps : Seq(Tasks), flag : BOOLEAN,
     wait : Seq(Tasks), consumed : BOOLEAN, after : SUBSET Tasks]

Entry == [do : {"schedule", "push", "complete", "release"}, n : Tasks] \cup {CountDown}

Owners == Tasks \cup {Host}

Types ==
    /\ node \in [Tasks -> NodeType]
    /\ ready \in SUBSET Tasks
    /\ m_ready_count \in Int
    /\ agenda \in [Actors -> Seq(Entry)]
    /\ running \in [Actors -> 0 .. MaxWork]
    /\ futures \in [Owners -> SUBSET Tasks]
    /\ inside \in SUBSET Workers
    /\ respawns \in Nat

\* Tasks are created in the order of their numbers, and nothing refers to a
\* task that is not created yet.
Numbered ==
    /\ \E k \in 0 .. MaxWork : Created = 1 .. k /\ k + respawns <= MaxWork
    /\ \A n \in Tasks \ Created : node[n] = Unused /\ futures[n] = {}
    /\ \A x \in Owners : futures[x] \subseteq Created
    /\ \A n \in Tasks : Range(node[n].deps) \subseteq Created
    /\ \A a \in Actors : \A i \in DOMAIN agenda[a] :
        agenda[a][i].do # "countdown" => agenda[a][i].n \in Created

\* The entries whose execution is the next thing that happens to a task.
Carrier(e) == e.do \in {"schedule", "push", "complete"}
Carries(s, n) == \E i \in DOMAIN s : Carrier(s[i]) /\ s[i].n = n

\* Entries of s belong to tasks that are where a is.
CarriedBy(s, a, at, by) ==
    \A i \in DOMAIN s : Carrier(s[i]) => at[s[i].n] = "todo" /\ by[s[i].n] = a
Once(s) ==
    \A i, j \in DOMAIN s : Carrier(s[i]) /\ Carrier(s[j]) /\ s[i].n = s[j].n => i = j

Stages == {"new", "todo", "ready", "runs", "waits", "done"}

\* n is at the stage st; who is the actor that works on it or the task that it
\* waits for.
Stands(n, st, who) ==
    /\ st = "new" <=> n \notin Created
    /\ st = "done" <=> node[n].consumed
    /\ st = "ready" <=> n \in ready
    /\ \A a \in Actors : running[a] = n <=> st = "runs" /\ who = a
    /\ \A p \in Tasks : n \in Range(node[p].wait) <=> st = "waits" /\ who = p
    /\ st = "todo" => who \in Actors /\ Carries(agenda[who], n)
    /\ st = "runs" => who \in Actors
    /\ st = "waits" => who \in Tasks

\* Every task is at one place.
PlacedAs(at, by) ==
    /\ at \in [Tasks -> Stages] /\ by \in [Tasks -> Actors \cup Tasks]
    /\ \A a \in Actors : CarriedBy(agenda[a], a, at, by)
    /\ \A n \in Tasks : Stands(n, at[n], by[n])

Placed ==
    /\ \E at, by : PlacedAs(at, by)
    /\ \A a \in Actors : Once(agenda[a])
    /\ \A p \in Tasks : IsInjective(node[p].wait)
    /\ \A p \in Tasks : node[p].consumed => node[p].wait = <<>>

\* The code that an actor is in ends with the countdown, or begins with a push.
EndsIn(s) == s # <<>> /\ s[Len(s)].do = "countdown"
PushesIn(s) == s # <<>> /\ s[1].do = "push"
ShapedList(s) ==
    \A i \in DOMAIN s : /\ s[i].do = "countdown" => i = Len(s)
                        /\ s[i].do = "push" => i = 1

\* What the code that an actor is in looks like, and who may be in it.
Shaped ==
    /\ \A a \in Actors : ShapedList(agenda[a])
    /\ \A w \in Workers :
        /\ running[w] # 0 \/ agenda[w] # <<>> => w \in inside
        /\ agenda[w] # <<>> => running[w] # 0 \/ EndsIn(agenda[w])
    /\ running[Host] = 0
    /\ inside # {} => agenda[Host] = <<>>

Runners == {a \in Actors : running[a] # 0}
Enders == {a \in Actors : EndsIn(agenda[a])}
Pushers == {a \in Actors : PushesIn(agenda[a])}

\* m_ready_count counts the tasks that are ready or run, and those of which the
\* count is about to be told.
Counted ==
    m_ready_count = Cardinality(ready) + Cardinality(Runners) + Cardinality(Enders)
                    + Cardinality(Pushers)

\* n has gone past all of its predecessors.
PastIn(s, n) == \E i \in DOMAIN s : s[i].do \in {"push", "complete"} /\ s[i].n = n
Settled(n) ==
    \/ n \in ready
    \/ node[n].consumed
    \/ \E a \in Actors : running[a] = n /\ ~node[n].flag
    \/ \E a \in Actors : PastIn(agenda[a], n)

\* A predecessor is complete, or still to be looked at, or being waited for.
Ordered ==
    \A n \in Tasks :
        /\ \A p \in node[n].after :
              node[p].consumed \/ p \in Range(node[n].deps) \/ n \in Range(node[p].wait)
        /\ Settled(n) => node[n].deps = <<>>
        /\ node[n].kind = "runnable" => Len(node[n].deps) <= 1

\* Tasks and the host are in layers: a functor has futures of tasks in lower
\* layers, and waits for those.
LayersOf(h) ==
    /\ h \in [Owners -> Nat]
    /\ \A x \in Owners : \A p \in futures[x] : h[p] < h[x]
    /\ \A n, p \in Tasks : p \in Range(node[n].deps) \/ n \in Range(node[p].wait) => h[p] < h[n]

Layered == \E h : LayersOf(h)

TaskInv == Types /\ Numbered /\ Placed /\ Shaped /\ Counted /\ Ordered /\ Layered

-----------------------------------------------------------------------------
\* Sequences of entries.

\* An entry is replaced by others: what is where afterwards.
LEMMA ThenSequence ==
  ASSUME NEW T, NEW s \in Seq(T), s # <<>>, NEW e \in Seq(T), NEW r, r = e \o Tail(s)
  PROVE  /\ r \in Seq(T) /\ Len(r) = Len(e) + Len(s) - 1 /\ DOMAIN r = 1 .. Len(r)
         /\ DOMAIN s = 1 .. Len(s) /\ 1 \in DOMAIN s
         /\ DOMAIN e = 1 .. Len(e)
         /\ \A i \in DOMAIN r : \/ i \in DOMAIN e /\ r[i] = e[i]
                                \/ /\ i > Len(e) /\ i - Len(e) + 1 \in 2 .. Len(s)
                                   /\ r[i] = s[i - Len(e) + 1]
         /\ \A i \in DOMAIN e : i \in DOMAIN r /\ r[i] = e[i]
         /\ \A j \in 2 .. Len(s) : j + Len(e) - 1 \in DOMAIN r /\ r[j + Len(e) - 1] = s[j]
  <1>1. PICK t : t = Tail(s)
    OBVIOUS
  <1>2. t \in Seq(T) /\ Len(t) = Len(s) - 1 /\ Len(s) \in Nat \ {0} /\ Len(e) \in Nat
        /\ \A i \in 1 .. Len(t) : t[i] = s[i + 1]
    BY <1>1
  <1>3. r = e \o t
    BY <1>1
  <1>4. r \in Seq(T) /\ Len(r) = Len(e) + Len(t)
    BY <1>2, <1>3
  <1>5. \A i \in 1 .. Len(r) : r[i] = IF i <= Len(e) THEN e[i] ELSE t[i - Len(e)]
    BY <1>2, <1>3
  <1>6. DOMAIN r = 1 .. Len(r) /\ DOMAIN s = 1 .. Len(s) /\ DOMAIN e = 1 .. Len(e)
    BY <1>4
  <1>7. ASSUME NEW i \in DOMAIN r
        PROVE  \/ i \in DOMAIN e /\ r[i] = e[i]
               \/ /\ i > Len(e) /\ i - Len(e) + 1 \in 2 .. Len(s)
                  /\ r[i] = s[i - Len(e) + 1]
    BY <1>2, <1>4, <1>5, <1>6
  <1>8. \A i \in DOMAIN e : i \in DOMAIN r /\ r[i] = e[i]
    BY <1>2, <1>4, <1>5, <1>6
  <1>9. ASSUME NEW j \in 2 .. Len(s)
        PROVE  j + Len(e) - 1 \in DOMAIN r /\ r[j + Len(e) - 1] = s[j]
    <2>1. j + Len(e) - 1 \in 1 .. Len(r) /\ ~(j + Len(e) - 1 <= Len(e)) /\ j - 1 \in 1 .. Len(t)
      BY <1>2, <1>4
    <2>2. r[j + Len(e) - 1] = t[j - 1] /\ t[j - 1] = s[j]
      BY <2>1, <1>2, <1>5
    <2> QED BY <2>1, <2>2, <1>6
  <1> QED BY <1>2, <1>4, <1>6, <1>7, <1>8, <1>9

\* The entries e carry tasks that no list carries, but the head of s; and the
\* tasks that the rest of a's list s carries stay where they are.
FrontIsNew(s, e, at) ==
    \A n \in Tasks : Carries(e, n) => at[n] # "todo" \/ (Carrier(s[1]) /\ n = s[1].n)
RestStays(s, a, at, by, at2, by2) ==
    \A n \in Tasks : at[n] = "todo" /\ by[n] = a /\ ~(Carrier(s[1]) /\ n = s[1].n) =>
        at2[n] = "todo" /\ by2[n] = a

Replaced(s, e, r) ==
    /\ \A n \in Tasks : Carries(e, n) => Carries(r, n)
    /\ \A n \in Tasks : Carries(s, n) /\ ~(Carrier(s[1]) /\ n = s[1].n) => Carries(r, n)

\* The head of s is replaced by the entries e: the places of the tasks that s
\* carries are kept, and those of e's are added.
LEMMA ThenCarries ==
  ASSUME NEW s \in Seq(Entry), s # <<>>, NEW e \in Seq(Entry),
         NEW a, NEW at, NEW by, NEW at2, NEW by2,
         CarriedBy(s, a, at, by), Once(s), Once(e), CarriedBy(e, a, at2, by2),
         FrontIsNew(s, e, at), RestStays(s, a, at, by, at2, by2)
  PROVE  /\ CarriedBy(e \o Tail(s), a, at2, by2) /\ Once(e \o Tail(s))
         /\ Replaced(s, e, e \o Tail(s))
  <1>r. PICK r : r = e \o Tail(s)
    OBVIOUS
  <1>1. /\ r \in Seq(Entry) /\ Len(r) = Len(e) + Len(s) - 1 /\ DOMAIN r = 1 .. Len(r)
        /\ DOMAIN s = 1 .. Len(s) /\ 1 \in DOMAIN s
        /\ DOMAIN e = 1 .. Len(e)
        /\ \A i \in DOMAIN r : \/ i \in DOMAIN e /\ r[i] = e[i]
                               \/ /\ i > Len(e) /\ i - Len(e) + 1 \in 2 .. Len(s)
                                  /\ r[i] = s[i - Len(e) + 1]
        /\ \A i \in DOMAIN e : i \in DOMAIN r /\ r[i] = e[i]
        /\ \A j \in 2 .. Len(s) : j + Len(e) - 1 \in DOMAIN r /\ r[j + Len(e) - 1] = s[j]
    BY <1>r, ThenSequence
  <1>2. Len(e) \in Nat /\ Len(s) \in Nat
    OBVIOUS
  <1>8. \A j \in 2 .. Len(s) : j \in DOMAIN s
    BY <1>1, <1>2
  <1>3. ASSUME NEW j \in 2 .. Len(s), Carrier(s[j])
        PROVE  /\ s[j].n \in Tasks /\ ~(Carrier(s[1]) /\ s[j].n = s[1].n)
               /\ at[s[j].n] = "todo" /\ by[s[j].n] = a /\ ~Carries(e, s[j].n)
               /\ at2[s[j].n] = "todo" /\ by2[s[j].n] = a
    <2>1. j \in DOMAIN s /\ j # 1
      BY <1>1, <1>2
    <2>2. s[j] \in Entry
      BY <2>1, <1>1
    <2>3. s[j].n \in Tasks
      BY <2>2, <1>3 DEF Entry, Carrier, CountDown
    <2>4. at[s[j].n] = "todo" /\ by[s[j].n] = a
      BY <2>1, <1>3 DEF CarriedBy
    <2>5. ~(Carrier(s[1]) /\ s[j].n = s[1].n)
      BY <2>1, <1>1, <1>3 DEF Once
    <2> QED BY <2>3, <2>4, <2>5 DEF FrontIsNew, RestStays
  <1>4. CarriedBy(r, a, at2, by2)
    <2> SUFFICES ASSUME NEW i \in DOMAIN r, Carrier(r[i])
                 PROVE  at2[r[i].n] = "todo" /\ by2[r[i].n] = a
      BY DEF CarriedBy
    <2>1. CASE i \in DOMAIN e /\ r[i] = e[i]
      BY <2>1 DEF CarriedBy
    <2>2. CASE i - Len(e) + 1 \in 2 .. Len(s) /\ r[i] = s[i - Len(e) + 1]
      BY <2>2, <1>3
    <2> QED BY <2>1, <2>2, <1>1
  <1>5. Once(r)
    <2> SUFFICES ASSUME NEW i \in DOMAIN r, NEW j \in DOMAIN r, Carrier(r[i]), Carrier(r[j]),
                        r[i].n = r[j].n
                 PROVE  i = j
      BY DEF Once
    <2>0. i \in Int /\ j \in Int
      BY <1>1
    <2>1. CASE i \in DOMAIN e /\ r[i] = e[i] /\ j \in DOMAIN e /\ r[j] = e[j]
      BY <2>1 DEF Once
    <2>2. CASE /\ i - Len(e) + 1 \in 2 .. Len(s) /\ r[i] = s[i - Len(e) + 1]
               /\ j \in DOMAIN e /\ r[j] = e[j]
      <3>1. ~Carries(e, r[i].n)
        BY <2>2, <1>3
      <3> QED BY <2>2, <3>1 DEF Carries
    <2>3. CASE /\ j - Len(e) + 1 \in 2 .. Len(s) /\ r[j] = s[j - Len(e) + 1]
               /\ i \in DOMAIN e /\ r[i] = e[i]
      <3>1. ~Carries(e, r[j].n)
        BY <2>3, <1>3
      <3> QED BY <2>3, <3>1 DEF Carries
    <2>4. CASE /\ i - Len(e) + 1 \in 2 .. Len(s) /\ r[i] = s[i - Len(e) + 1]
               /\ j - Len(e) + 1 \in 2 .. Len(s) /\ r[j] = s[j - Len(e) + 1]
      <3>1. PICK i1 \in 2 .. Len(s), j1 \in 2 .. Len(s) :
              i1 = i - Len(e) + 1 /\ j1 = j - Len(e) + 1
        BY <2>4
      <3>2. i1 \in DOMAIN s /\ j1 \in DOMAIN s
        BY <1>8
      <3>3. i1 = j1
        BY <3>1, <3>2, <2>4 DEF Once
      <3> QED BY <3>1, <3>3, <2>0, <1>2
    <2> QED BY <2>1, <2>2, <2>3, <2>4, <1>1
  <1>6. \A n \in Tasks : Carries(e, n) => Carries(r, n)
    BY <1>1 DEF Carries
  <1>7. ASSUME NEW n \in Tasks, Carries(s, n), ~(Carrier(s[1]) /\ n = s[1].n)
        PROVE  Carries(r, n)
    <2>1. PICK j \in DOMAIN s : Carrier(s[j]) /\ s[j].n = n
      BY <1>7 DEF Carries
    <2>2. j # 1
      BY <2>1, <1>7
    <2>3. j \in 2 .. Len(s)
      BY <2>1, <2>2, <1>1, <1>2
    <2> QED BY <2>1, <2>3, <1>1 DEF Carries
  <1> QED BY <1>r, <1>4, <1>5, <1>6, <1>7 DEF Replaced
-----------------------------------------------------------------------------
\* What the actions do to the nodes, field by field.

\* The fields of a node, and what is left when one or two of them change.
LEMMA FieldTypes ==
  ASSUME NEW r \in NodeType
  PROVE  /\ r.kind \in NodeKinds /\ r.ref \in Int /\ r.deps \in Seq(Tasks) /\ r.flag \in BOOLEAN
         /\ r.wait \in Seq(Tasks) /\ r.consumed \in BOOLEAN /\ r.after \in SUBSET Tasks
  BY DEF NodeType

LEMMA SetKindRef ==
  ASSUME NEW r \in NodeType, NEW kind \in NodeKinds, NEW ref \in Int,
         NEW q, q = [r EXCEPT !.kind = kind, !.ref = ref]
  PROVE  /\ q \in NodeType /\ q.kind = kind /\ q.ref = ref
         /\ q.deps = r.deps /\ q.flag = r.flag /\ q.wait = r.wait
         /\ q.consumed = r.consumed /\ q.after = r.after
  BY DEF NodeType

LEMMA SetRefKind ==
  ASSUME NEW r \in NodeType, NEW ref \in Int, NEW kind \in NodeKinds,
         NEW q, q = [r EXCEPT !.ref = ref, !.kind = kind]
  PROVE  /\ q \in NodeType /\ q.ref = ref /\ q.kind = kind
         /\ q.deps = r.deps /\ q.flag = r.flag /\ q.wait = r.wait
         /\ q.consumed = r.consumed /\ q.after = r.after
  BY DEF NodeType

LEMMA SetRef ==
  ASSUME NEW r \in NodeType, NEW ref \in Int,
         NEW q, q = [r EXCEPT !.ref = ref]
  PROVE  /\ q \in NodeType /\ q.ref = ref
         /\ q.kind = r.kind /\ q.deps = r.deps /\ q.flag = r.flag
         /\ q.wait = r.wait /\ q.consumed = r.consumed /\ q.after = r.after
  BY DEF NodeType

LEMMA SetDepsFlag ==
  ASSUME NEW r \in NodeType, NEW deps \in Seq(Tasks), NEW flag \in BOOLEAN,
         NEW q, q = [r EXCEPT !.deps = deps, !.flag = flag]
  PROVE  /\ q \in NodeType /\ q.deps = deps /\ q.flag = flag
         /\ q.kind = r.kind /\ q.ref = r.ref /\ q.wait = r.wait
         /\ q.consumed = r.consumed /\ q.after = r.after
  BY DEF NodeType

LEMMA SetDepsAfter ==
  ASSUME NEW r \in NodeType, NEW deps \in Seq(Tasks), NEW after \in SUBSET Tasks,
         NEW q, q = [r EXCEPT !.deps = deps, !.after = after]
  PROVE  /\ q \in NodeType /\ q.deps = deps /\ q.after = after
         /\ q.kind = r.kind /\ q.ref = r.ref /\ q.flag = r.flag
         /\ q.wait = r.wait /\ q.consumed = r.consumed
  BY DEF NodeType

LEMMA SetDeps ==
  ASSUME NEW r \in NodeType, NEW deps \in Seq(Tasks),
         NEW q, q = [r EXCEPT !.deps = deps]
  PROVE  /\ q \in NodeType /\ q.deps = deps
         /\ q.kind = r.kind /\ q.ref = r.ref /\ q.flag = r.flag
         /\ q.wait = r.wait /\ q.consumed = r.consumed /\ q.after = r.after
  BY DEF NodeType

LEMMA SetFlag ==
  ASSUME NEW r \in NodeType, NEW flag \in BOOLEAN,
         NEW q, q = [r EXCEPT !.flag = flag]
  PROVE  /\ q \in NodeType /\ q.flag = flag
         /\ q.kind = r.kind /\ q.ref = r.ref /\ q.deps = r.deps
         /\ q.wait = r.wait /\ q.consumed = r.consumed /\ q.after = r.after
  BY DEF NodeType

LEMMA SetAfter ==
  ASSUME NEW r \in NodeType, NEW after \in SUBSET Tasks,
         NEW q, q = [r EXCEPT !.after = after]
  PROVE  /\ q \in NodeType /\ q.after = after
         /\ q.kind = r.kind /\ q.ref = r.ref /\ q.deps = r.deps
         /\ q.flag = r.flag /\ q.wait = r.wait /\ q.consumed = r.consumed
  BY DEF NodeType

LEMMA SetWait ==
  ASSUME NEW r \in NodeType, NEW wait \in Seq(Tasks),
         NEW q, q = [r EXCEPT !.wait = wait]
  PROVE  /\ q \in NodeType /\ q.wait = wait
         /\ q.kind = r.kind /\ q.ref = r.ref /\ q.deps = r.deps
         /\ q.flag = r.flag /\ q.consumed = r.consumed /\ q.after = r.after
  BY DEF NodeType

LEMMA SetWaitConsumed ==
  ASSUME NEW r \in NodeType, NEW wait \in Seq(Tasks), NEW consumed \in BOOLEAN,
         NEW q, q = [r EXCEPT !.wait = wait, !.consumed = consumed]
  PROVE  /\ q \in NodeType /\ q.wait = wait /\ q.consumed = consumed
         /\ q.kind = r.kind /\ q.ref = r.ref /\ q.deps = r.deps
         /\ q.flag = r.flag /\ q.after = r.after
  BY DEF NodeType

\* A new task.
LEMMA CreateFields ==
  ASSUME NEW n, NEW kind \in NodeKinds, NEW deps \in Seq(Tasks), NEW after \in SUBSET Tasks,
         NEW c, c = Create(n, kind, deps, after)
  PROVE  /\ c.kind = kind /\ c.ref = 2 /\ c.deps = deps
         /\ c.wait = <<>> /\ c.after = after /\ ~c.flag /\ ~c.consumed
         /\ c \in NodeType
  <1>1. /\ c.kind = kind /\ c.ref = 2 /\ c.deps = deps
        /\ c.wait = <<>> /\ c.after = after /\ ~c.flag /\ ~c.consumed
    BY DEF Create, Unused
  <1>2. c \in NodeType
    <2>1. Unused \in NodeType
      BY EmptySeq DEF Unused, NodeType, NodeKinds
    <2>2. PICK v \in NodeType, ref \in Int : v = Unused /\ ref = 2
      BY <2>1
    <2>3. PICK u : u = [v EXCEPT !.kind = kind, !.ref = ref]
      OBVIOUS
    <2>4. u \in NodeType
      BY <2>3 DEF NodeType
    <2>5. PICK r : r = [u EXCEPT !.deps = deps, !.after = after]
      OBVIOUS
    <2>6. r \in NodeType
      BY <2>4, <2>5 DEF NodeType
    <2>7. c = r
      BY <2>2, <2>3, <2>5 DEF Create
    <2> QED BY <2>6, <2>7
  <1> QED BY <1>1, <1>2

\* References are counted, and nothing else changes.
LEMMA ReferencesFields ==
  ASSUME NEW nodes \in [Tasks -> NodeType], NEW ps, NEW after, after = AddReferences(nodes, ps)
  PROVE  /\ after \in [Tasks -> NodeType]
         /\ \A m \in Tasks :
              /\ m \notin ps => after[m] = nodes[m]
              /\ m \in ps => after[m].ref = nodes[m].ref + 1
              /\ after[m].kind = nodes[m].kind /\ after[m].deps = nodes[m].deps
              /\ after[m].flag = nodes[m].flag /\ after[m].wait = nodes[m].wait
              /\ after[m].consumed = nodes[m].consumed /\ after[m].after = nodes[m].after
  <1>1. DOMAIN nodes = Tasks
    OBVIOUS
  <1>2. after = [m \in Tasks |-> IF m \in ps THEN [nodes[m] EXCEPT !.ref = @ + 1] ELSE nodes[m]]
    BY <1>1 DEF AddReferences
  <1>3. ASSUME NEW m \in Tasks
        PROVE  /\ after[m] \in NodeType
               /\ m \notin ps => after[m] = nodes[m]
               /\ m \in ps => after[m].ref = nodes[m].ref + 1
               /\ after[m].kind = nodes[m].kind /\ after[m].deps = nodes[m].deps
               /\ after[m].flag = nodes[m].flag /\ after[m].wait = nodes[m].wait
               /\ after[m].consumed = nodes[m].consumed /\ after[m].after = nodes[m].after
    <2>1. nodes[m] \in NodeType
      OBVIOUS
    <2>2. CASE m \in ps
      <3>1. after[m] = [nodes[m] EXCEPT !.ref = @ + 1]
        BY <2>2, <1>2
      <3>2. nodes[m].ref + 1 \in Int
        BY <2>1, FieldTypes
      <3> QED BY <3>1, <3>2, <2>1, <2>2, SetRef
    <2>3. CASE m \notin ps
      BY <2>1, <2>3, <1>2
    <2> QED BY <2>2, <2>3
  <1> QED BY <1>2, <1>3

\* The entry at the head of an actor's code.
LEMMA HeadEntry ==
  ASSUME Types, Numbered, NEW a \in Actors, NEW what, Do(a, what)
  PROVE  /\ agenda[a] \in Seq(Entry) /\ agenda[a] # <<>> /\ 1 \in DOMAIN agenda[a]
         /\ agenda[a][1] \in Entry /\ agenda[a][1].do = what /\ The(a) = agenda[a][1].n
         /\ what # "countdown" => The(a) \in Tasks /\ The(a) \in Created
         /\ Tail(agenda[a]) \in Seq(Entry)
  <1>1. agenda[a] \in Seq(Entry) /\ agenda[a] # <<>> /\ agenda[a][1].do = what
    BY DEF Types, Do
  <1>2. 1 \in DOMAIN agenda[a] /\ agenda[a][1] \in Entry /\ Tail(agenda[a]) \in Seq(Entry)
    BY <1>1
  <1>3. what # "countdown" => agenda[a][1].n \in Created
    BY <1>1, <1>2 DEF Numbered
  <1>4. what # "countdown" => agenda[a][1].n \in Tasks
    BY <1>1, <1>2 DEF Entry, CountDown
  <1> QED BY <1>1, <1>2, <1>3, <1>4 DEF The

\* Nobody waits for itself.
LEMMA NotItself ==
  ASSUME Layered, NEW n \in Tasks
  PROVE  n \notin Range(node[n].deps) /\ n \notin Range(node[n].wait)
  <1>1. PICK h : LayersOf(h)
    BY DEF Layered
  <1>2. h[n] \in Nat
    BY <1>1 DEF LayersOf, Owners
  <1> QED BY <1>1, <1>2 DEF LayersOf

\* The next task that is created.
LEMMA FreshTask ==
  ASSUME Types, Numbered, NEW n \in Tasks, Fresh(n)
  PROVE  /\ n \notin Created /\ Created = 1 .. n - 1 /\ n + respawns <= MaxWork
         /\ node[n] = Unused /\ node[n].kind = "unused" /\ node[n].consumed = FALSE
         /\ node[n].wait = <<>> /\ node[n].deps = <<>> /\ futures[n] = {}
  <1>1. PICK k \in 0 .. MaxWork : Created = 1 .. k /\ k + respawns <= MaxWork
    BY DEF Numbered
  <1>2. Cardinality(Created) = k
    BY <1>1, FS_Interval, MaxWorkAssumption
  <1>3. n = k + 1 /\ k + respawns < MaxWork
    BY <1>2 DEF Fresh, MayWork
  <1>4. n \notin Created /\ Created = 1 .. n - 1 /\ n + respawns <= MaxWork
    BY <1>1, <1>3, MaxWorkAssumption DEF Types
  <1>5. node[n] = Unused /\ futures[n] = {}
    BY <1>4 DEF Numbered
  <1> QED BY <1>4, <1>5 DEF Unused

\* Tasks that are neither created nor lost.
LEMMA SameCreated ==
  ASSUME \A m \in Tasks : node'[m].kind = "unused" <=> node[m].kind = "unused"
  PROVE  Created' = Created
  BY DEF Created

LEMMA OneElement ==
  ASSUME NEW T, NEW p \in T
  PROVE  <<p>> \in Seq(T) /\ Range(<<p>>) = {p} /\ Len(<<p>>) = 1 /\ DOMAIN <<p>> = {1}
  <1>1. <<p>> \in Seq(T) /\ Len(<<p>>) = 1 /\ DOMAIN <<p>> = 1 .. 1 /\ <<p>>[1] = p
    OBVIOUS
  <1>2. 1 .. 1 = {1}
    OBVIOUS
  <1> QED BY <1>1, <1>2 DEF Range

LEMMA NoElement == Range(<<>>) = {} /\ DOMAIN <<>> = {} /\ Len(<<>>) = 0
  <1>1. DOMAIN <<>> = {}
    OBVIOUS
  <1> QED BY <1>1 DEF Range

\* A task put in front of a wait queue, or taken from the front of a list.
LEMMA Prepend ==
  ASSUME NEW T, NEW n \in T, NEW s \in Seq(T), NEW r, r = <<n>> \o s
  PROVE  /\ r \in Seq(T) /\ Range(r) = Range(s) \cup {n}
         /\ IsInjective(s) /\ n \notin Range(s) => IsInjective(r)
  <1>1. /\ r \in Seq(T) /\ Len(r) = Len(s) + 1 /\ Len(s) \in Nat
        /\ \A i \in 1 .. Len(r) : r[i] = IF i = 1 THEN n ELSE s[i - 1]
    OBVIOUS
  <1>2. DOMAIN r = 1 .. Len(s) + 1 /\ DOMAIN s = 1 .. Len(s)
    BY <1>1
  <1>3. r[1] = n /\ 1 \in DOMAIN r
    BY <1>1, <1>2
  <1>4. \A i \in DOMAIN s : i + 1 \in DOMAIN r /\ r[i + 1] = s[i]
    BY <1>1, <1>2
  <1>5. \A i \in DOMAIN r : i = 1 \/ (i - 1 \in DOMAIN s /\ r[i] = s[i - 1])
    BY <1>1, <1>2
  <1>6. Range(r) = Range(s) \cup {n}
    <2>1. ASSUME NEW i \in DOMAIN r PROVE r[i] \in Range(s) \cup {n}
      BY <1>3, <1>5 DEF Range
    <2>2. ASSUME NEW i \in DOMAIN s PROVE s[i] \in Range(r)
      <3>1. PICK j \in DOMAIN r : r[j] = s[i]
        BY <1>4
      <3> QED BY <3>1 DEF Range
    <2>3. n \in Range(r)
      BY <1>3 DEF Range
    <2> QED BY <2>1, <2>2, <2>3 DEF Range
  <1>7. ASSUME IsInjective(s), n \notin Range(s) PROVE IsInjective(r)
    <2> SUFFICES ASSUME NEW i \in DOMAIN r, NEW j \in DOMAIN r, r[i] = r[j] PROVE i = j
      BY DEF IsInjective
    <2>1. i \in Int /\ j \in Int
      BY <1>2
    <2>2. CASE i = 1 /\ j # 1
      BY <2>2, <1>3, <1>5, <1>7 DEF Range
    <2>3. CASE i # 1 /\ j = 1
      BY <2>3, <1>3, <1>5, <1>7 DEF Range
    <2>4. CASE i # 1 /\ j # 1
      <3>1. i - 1 \in DOMAIN s /\ j - 1 \in DOMAIN s /\ s[i - 1] = s[j - 1]
        BY <2>4, <1>5
      <3>2. i - 1 = j - 1
        BY <3>1, <1>7 DEF IsInjective
      <3> QED BY <3>2, <2>1
    <2> QED BY <2>2, <2>3, <2>4
  <1> QED BY <1>1, <1>6, <1>7

LEMMA TakeFirst ==
  ASSUME NEW T, NEW s \in Seq(T), s # <<>>, NEW r, r = Tail(s)
  PROVE  /\ r \in Seq(T) /\ s[1] \in T /\ Range(s) = Range(r) \cup {s[1]}
         /\ IsInjective(s) => IsInjective(r) /\ s[1] \notin Range(r)
  <1>1. /\ r \in Seq(T) /\ Len(r) = Len(s) - 1 /\ Len(s) \in Nat \ {0}
        /\ \A i \in 1 .. Len(r) : r[i] = s[i + 1]
    OBVIOUS
  <1>2. DOMAIN r = 1 .. Len(s) - 1 /\ DOMAIN s = 1 .. Len(s) /\ 1 \in DOMAIN s /\ s[1] \in T
    BY <1>1
  <1>3. \A i \in DOMAIN r : i + 1 \in DOMAIN s /\ i + 1 # 1 /\ r[i] = s[i + 1]
    BY <1>1, <1>2
  <1>4. \A i \in DOMAIN s : i = 1 \/ (i - 1 \in DOMAIN r /\ r[i - 1] = s[i])
    BY <1>1, <1>2
  <1>5. Range(s) = Range(r) \cup {s[1]}
    <2>1. ASSUME NEW i \in DOMAIN s PROVE s[i] \in Range(r) \cup {s[1]}
      <3>1. CASE i = 1
        BY <3>1
      <3>2. CASE i # 1
        <4>1. PICK j \in DOMAIN r : r[j] = s[i]
          BY <3>2, <1>4
        <4> QED BY <4>1 DEF Range
      <3> QED BY <3>1, <3>2
    <2>2. ASSUME NEW i \in DOMAIN r PROVE r[i] \in Range(s)
      <3>1. PICK j \in DOMAIN s : s[j] = r[i]
        BY <1>3
      <3> QED BY <3>1 DEF Range
    <2>3. s[1] \in Range(s)
      BY <1>2 DEF Range
    <2> QED BY <2>1, <2>2, <2>3 DEF Range
  <1>6. ASSUME IsInjective(s) PROVE IsInjective(r) /\ s[1] \notin Range(r)
    <2>1. s[1] \notin Range(r)
      BY <1>2, <1>3, <1>6 DEF Range, IsInjective
    <2>2. ASSUME NEW i \in DOMAIN r, NEW j \in DOMAIN r, r[i] = r[j] PROVE i = j
      <3>1. i + 1 = j + 1
        BY <2>2, <1>3, <1>6 DEF IsInjective
      <3> QED BY <3>1, <1>2
    <2> QED BY <2>1, <2>2 DEF IsInjective
  <1> QED BY <1>1, <1>2, <1>5, <1>6

\* Who executes user code has futures of its own.
LEMMA UserCodeOf ==
  ASSUME Types, Shaped, NEW a \in Actors, InUserCode(a)
  PROVE  /\ Self(a) \in Owners /\ agenda[a] = <<>>
         /\ a # Host => a \in Workers /\ running[a] \in Tasks /\ Self(a) = running[a]
         /\ a = Host => Self(a) = Host
  <1>1. running[a] \in 0 .. MaxWork
    BY DEF Types
  <1>2. a # Host => running[a] # 0
    BY DEF InUserCode
  <1> QED BY <1>1, <1>2, MaxWorkAssumption DEF Self, Owners, Tasks, Actors, InUserCode

\* self gets a future of the new task n, and gives n copies of some that it has.
Hands(self, n, given) ==
    /\ given \in SUBSET futures[self] /\ futures' \in [Owners -> SUBSET Tasks]
    /\ futures'[self] = futures[self] \cup {n} /\ futures'[n] = given
    /\ \A x \in Owners : x # self /\ x # n => futures'[x] = futures[x]

\* Nobody creates himself.
LEMMA CreatorCreated ==
  ASSUME TaskInv, NEW a \in Actors, NEW n \in Tasks, Fresh(n), InUserCode(a)
  PROVE  Self(a) \in Owners /\ Self(a) # n /\ Self(a) \in Created \cup {Host}
  <1>i. Types /\ Numbered /\ Placed /\ Shaped
    BY DEF TaskInv
  <1>1. /\ Self(a) \in Owners
        /\ a # Host => running[a] \in Tasks /\ Self(a) = running[a]
        /\ a = Host => Self(a) = Host
    BY <1>i, UserCodeOf
  <1>2. CASE a = Host
    BY <1>1, <1>2, HostAssumption
  <1>3. CASE a # Host
    <2>1. PICK at, by : PlacedAs(at, by)
      BY <1>i DEF Placed
    <2>2. running[a] \in Created
      BY <2>1, <1>1, <1>3 DEF PlacedAs, Stands
    <2>3. n \notin Created
      BY <1>i, FreshTask
    <2> QED BY <2>2, <2>3, <1>1, <1>3
  <1> QED BY <1>2, <1>3

\* spawn: a task that waits for nothing or for one that its creator knows.
LEMMA SpawnEffect ==
  ASSUME TaskInv, NEW a \in Actors, NEW n \in Tasks, Spawn(a, n)
  PROVE  \E deps \in Seq(Tasks) : \E given \in SUBSET futures[Self(a)] :
           /\ deps = <<>> \/ \E p \in futures[Self(a)] : deps = <<p>>
           /\ Range(deps) \subseteq futures[Self(a)] /\ Len(deps) <= 1
           /\ node' \in [Tasks -> NodeType]
           /\ n \notin given
           /\ \A m \in Tasks : m # n =>
                /\ m \notin given => node'[m] = node[m]
                /\ m \in given => node'[m].ref = node[m].ref + 1
                /\ node'[m].kind = node[m].kind /\ node'[m].deps = node[m].deps
                /\ node'[m].flag = node[m].flag /\ node'[m].wait = node[m].wait
                /\ node'[m].consumed = node[m].consumed /\ node'[m].after = node[m].after
           /\ node'[n].kind = "runnable" /\ node'[n].ref = 2 /\ node'[n].deps = deps
           /\ ~node'[n].flag /\ node'[n].wait = <<>> /\ ~node'[n].consumed
           /\ node'[n].after = Range(deps)
           /\ Hands(Self(a), n, given)
  <1>1. PICK deps \in {<<>>} \cup {<<p>> : p \in futures[Self(a)]}, given \in SUBSET futures[Self(a)] :
          /\ node' = AddReferences([node EXCEPT ![n] = Create(n, "runnable", deps, Range(deps))], given)
          /\ futures' = [futures EXCEPT ![Self(a)] = @ \cup {n}, ![n] = given]
    BY DEF Spawn
  <1>2. Self(a) \in Owners /\ futures[Self(a)] \subseteq Tasks /\ futures[Self(a)] \subseteq Created
    BY UserCodeOf DEF TaskInv, Types, Spawn, Numbered
  <1>3. /\ deps \in Seq(Tasks) /\ Range(deps) \subseteq futures[Self(a)] /\ Len(deps) <= 1
        /\ deps = <<>> \/ \E p \in futures[Self(a)] : deps = <<p>>
    <2>1. CASE deps = <<>>
      BY <2>1, NoElement, EmptySeq
    <2>2. CASE deps # <<>>
      <3>1. PICK p \in futures[Self(a)] : deps = <<p>>
        BY <1>1, <2>2
      <3>2. p \in Tasks
        BY <1>2
      <3> QED BY <3>1, <3>2, OneElement
    <2> QED BY <2>1, <2>2
  <1>4. PICK r : r = Create(n, "runnable", deps, Range(deps))
    OBVIOUS
  <1>5. /\ r \in NodeType
        /\ r.kind = "runnable" /\ r.ref = 2 /\ r.deps = deps /\ ~r.flag
        /\ r.wait = <<>> /\ ~r.consumed /\ r.after = Range(deps)
    <2>1. "runnable" \in NodeKinds /\ Range(deps) \in SUBSET Tasks
      BY <1>2, <1>3 DEF NodeKinds
    <2>2. PICK kind \in NodeKinds, after \in SUBSET Tasks : kind = "runnable" /\ after = Range(deps)
      BY <2>1
    <2>3. r = Create(n, kind, deps, after)
      BY <2>2, <1>4
    <2>4. /\ r \in NodeType
          /\ r.kind = kind /\ r.ref = 2 /\ r.deps = deps /\ ~r.flag
          /\ r.wait = <<>> /\ ~r.consumed /\ r.after = after
      BY <2>3, <1>3, CreateFields
    <2> QED BY <2>2, <2>4
  <1>6. node \in [Tasks -> NodeType]
    BY DEF TaskInv, Types
  <1>7. PICK nodes \in [Tasks -> NodeType] : nodes = [node EXCEPT ![n] = r]
    BY <1>5, <1>6
  <1>8. nodes[n] = r /\ \A m \in Tasks : m # n => nodes[m] = node[m]
    BY <1>6, <1>7
  <1>9. /\ node' \in [Tasks -> NodeType]
        /\ \A m \in Tasks :
              /\ m \notin given => node'[m] = nodes[m]
              /\ m \in given => node'[m].ref = nodes[m].ref + 1
              /\ node'[m].kind = nodes[m].kind /\ node'[m].deps = nodes[m].deps
              /\ node'[m].flag = nodes[m].flag /\ node'[m].wait = nodes[m].wait
              /\ node'[m].consumed = nodes[m].consumed /\ node'[m].after = nodes[m].after
    <2>1. PICK after : after = node'
      OBVIOUS
    <2>2. after = AddReferences(nodes, given)
      BY <2>1, <1>1, <1>4, <1>7
    <2> QED BY <2>1, <2>2, ReferencesFields
  <1>10. n \notin given
    BY <1>2, FreshTask DEF TaskInv, Spawn
  <1>11. node'[n] = r
    BY <1>8, <1>9, <1>10
  <1>12. \A m \in Tasks : m # n =>
                /\ m \notin given => node'[m] = node[m]
                /\ m \in given => node'[m].ref = node[m].ref + 1
                /\ node'[m].kind = node[m].kind /\ node'[m].deps = node[m].deps
                /\ node'[m].flag = node[m].flag /\ node'[m].wait = node[m].wait
                /\ node'[m].consumed = node[m].consumed /\ node'[m].after = node[m].after
    BY <1>8, <1>9
  <1>13. Hands(Self(a), n, given)
    <2>1. Self(a) # n /\ n \in Owners
      BY CreatorCreated DEF Spawn, Owners
    <2>2. futures \in [Owners -> SUBSET Tasks]
      BY DEF TaskInv, Types
    <2> QED BY <1>1, <1>2, <2>1, <2>2 DEF Hands
  <1> QED BY <1>3, <1>5, <1>9, <1>10, <1>11, <1>12, <1>13

\* when_all: an aggregate of one or two tasks, with a reference to each.
LEMMA WhenAllEffect ==
  ASSUME TaskInv, NEW a \in Actors, NEW n \in Tasks, WhenAll(a, n)
  PROVE  \E deps \in Seq(Tasks) :
           /\ IsInjective(deps) /\ deps # <<>> /\ n \notin Range(deps)
           /\ Range(deps) \subseteq futures[Self(a)]
           /\ node' \in [Tasks -> NodeType]
           /\ \A m \in Tasks : m # n =>
                /\ m \notin Range(deps) => node'[m] = node[m]
                /\ m \in Range(deps) => node'[m].ref = node[m].ref + 1
                /\ node'[m].kind = node[m].kind /\ node'[m].deps = node[m].deps
                /\ node'[m].flag = node[m].flag /\ node'[m].wait = node[m].wait
                /\ node'[m].consumed = node[m].consumed /\ node'[m].after = node[m].after
           /\ node'[n].kind = "aggregate" /\ node'[n].ref = 2 /\ node'[n].deps = deps
           /\ ~node'[n].flag /\ node'[n].wait = <<>> /\ ~node'[n].consumed
           /\ node'[n].after = Range(deps)
           /\ Hands(Self(a), n, {})
  <1>1. PICK p \in futures[Self(a)], q \in futures[Self(a)] :
          LET deps == IF p = q THEN <<p>> ELSE <<p, q>> IN
          node' = AddReferences([node EXCEPT ![n] = Create(n, "aggregate", deps, {p, q})], {p, q})
    BY DEF WhenAll
  <1>2. PICK deps : deps = IF p = q THEN <<p>> ELSE <<p, q>>
    OBVIOUS
  <1>3. node' = AddReferences([node EXCEPT ![n] = Create(n, "aggregate", deps, {p, q})], {p, q})
    BY <1>1, <1>2
  <1>4. Self(a) \in Owners /\ p \in Tasks /\ q \in Tasks /\ futures[Self(a)] \subseteq Created
    BY UserCodeOf DEF TaskInv, Types, WhenAll, Numbered
  <1>5. /\ deps \in Seq(Tasks) /\ Range(deps) = {p, q} /\ deps # <<>> /\ IsInjective(deps)
    <2>1. CASE p = q
      <3>1. deps = <<p>>
        BY <2>1, <1>2
      <3> QED BY <3>1, <2>1, <1>4, OneElement DEF IsInjective
    <2>2. CASE p # q
      <3>1. deps = <<p, q>>
        BY <2>2, <1>2
      <3>2. deps \in Seq(Tasks) /\ DOMAIN deps = {1, 2} /\ deps[1] = p /\ deps[2] = q /\ deps # <<>>
        BY <3>1, <1>4
      <3> QED BY <3>2, <2>2 DEF Range, IsInjective
    <2> QED BY <2>1, <2>2
  <1>6. n \notin Range(deps)
    BY <1>4, <1>5, FreshTask DEF TaskInv, WhenAll
  <1>7. PICK r : r = Create(n, "aggregate", deps, {p, q})
    OBVIOUS
  <1>8. /\ r \in NodeType
        /\ r.kind = "aggregate" /\ r.ref = 2 /\ r.deps = deps /\ ~r.flag
        /\ r.wait = <<>> /\ ~r.consumed /\ r.after = {p, q}
    <2>1. "aggregate" \in NodeKinds /\ {p, q} \in SUBSET Tasks
      BY <1>4 DEF NodeKinds
    <2>2. PICK kind \in NodeKinds, after \in SUBSET Tasks : kind = "aggregate" /\ after = {p, q}
      BY <2>1
    <2>3. r = Create(n, kind, deps, after)
      BY <2>2, <1>7
    <2>4. /\ r \in NodeType
          /\ r.kind = kind /\ r.ref = 2 /\ r.deps = deps /\ ~r.flag
          /\ r.wait = <<>> /\ ~r.consumed /\ r.after = after
      BY <2>3, <1>5, CreateFields
    <2> QED BY <2>2, <2>4
  <1>9. node \in [Tasks -> NodeType]
    BY DEF TaskInv, Types
  <1>10. PICK nodes \in [Tasks -> NodeType] : nodes = [node EXCEPT ![n] = r]
    BY <1>8, <1>9
  <1>11. nodes[n] = r /\ \A m \in Tasks : m # n => nodes[m] = node[m]
    BY <1>9, <1>10
  <1>12. node' = AddReferences(nodes, Range(deps))
    BY <1>3, <1>5, <1>7, <1>10
  <1>13. /\ node' \in [Tasks -> NodeType]
         /\ \A m \in Tasks :
              /\ m \notin Range(deps) => node'[m] = nodes[m]
              /\ m \in Range(deps) => node'[m].ref = nodes[m].ref + 1
              /\ node'[m].kind = nodes[m].kind /\ node'[m].deps = nodes[m].deps
              /\ node'[m].flag = nodes[m].flag /\ node'[m].wait = nodes[m].wait
              /\ node'[m].consumed = nodes[m].consumed /\ node'[m].after = nodes[m].after
    <2>1. PICK after : after = node'
      OBVIOUS
    <2>2. after = AddReferences(nodes, Range(deps))
      BY <2>1, <1>12
    <2> QED BY <2>1, <2>2, ReferencesFields
  <1>14. node'[n] = r
    BY <1>6, <1>11, <1>13
  <1>15. \A m \in Tasks : m # n =>
                /\ m \notin Range(deps) => node'[m] = node[m]
                /\ m \in Range(deps) => node'[m].ref = node[m].ref + 1
                /\ node'[m].kind = node[m].kind /\ node'[m].deps = node[m].deps
                /\ node'[m].flag = node[m].flag /\ node'[m].wait = node[m].wait
                /\ node'[m].consumed = node[m].consumed /\ node'[m].after = node[m].after
    BY <1>11, <1>13
  <1>16. Range(deps) \subseteq futures[Self(a)]
    BY <1>5
  <1>17. Hands(Self(a), n, {})
    <2>1. Self(a) # n /\ n \in Owners
      BY CreatorCreated DEF WhenAll, Owners
    <2>2. futures \in [Owners -> SUBSET Tasks]
      BY DEF TaskInv, Types
    <2>3. futures' = [futures EXCEPT ![Self(a)] = @ \cup {n}] /\ futures[n] = {}
      BY FreshTask DEF WhenAll, TaskInv
    <2> QED BY <1>4, <2>1, <2>2, <2>3 DEF Hands
  <1> QED BY <1>5, <1>6, <1>8, <1>13, <1>14, <1>15, <1>16, <1>17

\* respawn: the functor's own task gets a new predecessor, or none.
LEMMA RespawnEffect ==
  ASSUME TaskInv, NEW w \in Actors, Respawn(w)
  PROVE  /\ w \in Workers /\ running[w] \in Tasks /\ node[running[w]].flag = FALSE /\ agenda[w] = <<>>
         /\ \E x \in Tasks : \E deps \in Seq(Tasks) :
           /\ x = running[w]
           /\ Range(deps) \subseteq futures[x] /\ Len(deps) <= 1 /\ x \notin Range(deps)
           /\ node' \in [Tasks -> NodeType]
           /\ \A m \in Tasks : m # x =>
                /\ m \notin Range(deps) => node'[m] = node[m]
                /\ m \in Range(deps) => node'[m].ref = node[m].ref + 1
                /\ node'[m].deps = node[m].deps /\ node'[m].flag = node[m].flag
                /\ node'[m].after = node[m].after
           /\ \A m \in Tasks :
                /\ node'[m].kind = node[m].kind /\ node'[m].wait = node[m].wait
                /\ node'[m].consumed = node[m].consumed
           /\ node'[x].ref = node[x].ref /\ node'[x].deps = deps /\ node'[x].flag = TRUE
           /\ node'[x].after = Range(deps)
  <1>0. w \in Workers /\ agenda[w] = <<>> /\ w # Host /\ ~node[running[w]].flag /\ running[w] # 0
    BY HostAssumption DEF Respawn, InUserCode, TaskInv
  <1>1. PICK x \in Tasks : x = running[w]
    BY <1>0, UserCodeOf DEF TaskInv, Respawn
  <1>2. PICK deps \in {<<>>} \cup {<<p>> : p \in futures[x]} :
          node' = Borrows([node EXCEPT ![x].deps = deps, ![x].flag = TRUE, ![x].after = Range(deps)], Range(deps))
    BY <1>1 DEF Respawn
  <1>3. x \in Owners /\ futures[x] \subseteq Tasks /\ node \in [Tasks -> NodeType]
    BY DEF TaskInv, Types, Owners
  <1>4. deps \in Seq(Tasks) /\ Range(deps) \subseteq futures[x] /\ Len(deps) <= 1
    <2>1. CASE deps = <<>>
      BY <2>1, NoElement, EmptySeq
    <2>2. CASE deps # <<>>
      <3>1. PICK p \in futures[x] : deps = <<p>>
        BY <1>2, <2>2
      <3>2. p \in Tasks
        BY <1>3
      <3> QED BY <3>1, <3>2, OneElement
    <2> QED BY <2>1, <2>2
  <1>5. x \notin Range(deps)
    <2>1. PICK h : LayersOf(h)
      BY DEF TaskInv, Layered
    <2>2. h[x] \in Nat /\ \A p \in futures[x] : h[p] < h[x]
      BY <1>3, <2>1 DEF LayersOf
    <2> QED BY <1>4, <2>2
  <1>6. PICK r : r = [node[x] EXCEPT !.deps = deps, !.flag = TRUE]
    OBVIOUS
  <1>7. /\ r \in NodeType /\ r.deps = deps /\ r.flag = TRUE /\ r.kind = node[x].kind
        /\ r.ref = node[x].ref /\ r.wait = node[x].wait /\ r.consumed = node[x].consumed
    <2>1. PICK f \in BOOLEAN : f = TRUE
      OBVIOUS
    <2>2. PICK v \in NodeType : v = node[x]
      BY <1>3
    <2>3. r = [v EXCEPT !.deps = deps, !.flag = f]
      BY <1>6, <2>1, <2>2
    <2>4. /\ r \in NodeType /\ r.deps = deps /\ r.flag = f /\ r.kind = v.kind
          /\ r.ref = v.ref /\ r.wait = v.wait /\ r.consumed = v.consumed
      BY <1>4, <2>3 DEF NodeType
    <2> QED BY <2>1, <2>2, <2>4
  <1>8. PICK q : q = [r EXCEPT !.after = Range(deps)]
    OBVIOUS
  <1>9. /\ q \in NodeType /\ q.deps = deps /\ q.flag = TRUE /\ q.kind = node[x].kind
        /\ q.ref = node[x].ref /\ q.wait = node[x].wait /\ q.consumed = node[x].consumed
        /\ q.after = Range(deps)
    <2>1. Range(deps) \in SUBSET Tasks
      BY <1>3, <1>4
    <2> QED BY <1>7, <1>8, <2>1, SetAfter
  <1>10. PICK nodes \in [Tasks -> NodeType] : nodes = [node EXCEPT ![x] = q]
    BY <1>3, <1>9
  <1>11. [node EXCEPT ![x].deps = deps, ![x].flag = TRUE, ![x].after = Range(deps)] = nodes
    BY <1>3, <1>6, <1>8, <1>10
  <1>12. /\ node' \in [Tasks -> NodeType]
         /\ \A m \in Tasks :
              /\ m \notin Range(deps) => node'[m] = nodes[m]
              /\ m \in Range(deps) => node'[m].ref = nodes[m].ref + 1
              /\ node'[m].kind = nodes[m].kind /\ node'[m].deps = nodes[m].deps
              /\ node'[m].flag = nodes[m].flag /\ node'[m].wait = nodes[m].wait
              /\ node'[m].consumed = nodes[m].consumed /\ node'[m].after = nodes[m].after
    <2>1. node' = AddReferences(nodes, Range(deps))
      BY <1>2, <1>11 DEF Borrows
    <2>2. PICK after : after = node'
      OBVIOUS
    <2>3. after = AddReferences(nodes, Range(deps))
      BY <2>1, <2>2
    <2> QED BY <2>2, <2>3, ReferencesFields
  <1>13. nodes[x] = q /\ \A m \in Tasks : m # x => nodes[m] = node[m]
    BY <1>3, <1>10
  <1>14. node'[x] = q
    BY <1>5, <1>12, <1>13
  <1>15. \A m \in Tasks : m # x =>
                /\ m \notin Range(deps) => node'[m] = node[m]
                /\ m \in Range(deps) => node'[m].ref = node[m].ref + 1
                /\ node'[m].deps = node[m].deps /\ node'[m].flag = node[m].flag
                /\ node'[m].after = node[m].after
    BY <1>12, <1>13
  <1>16. \A m \in Tasks :
                /\ node'[m].kind = node[m].kind /\ node'[m].wait = node[m].wait
                /\ node'[m].consumed = node[m].consumed
    BY <1>9, <1>12, <1>13
  <1>17. node[running[w]].flag = FALSE
    <2>1. node[x].flag \in BOOLEAN
      BY <1>3, FieldTypes
    <2> QED BY <2>1, <1>0, <1>1
  <1> QED BY <1>0, <1>1, <1>4, <1>5, <1>9, <1>12, <1>14, <1>15, <1>16, <1>17

\* schedule_runnable with a predecessor: it is waited for, or complete.
LEMMA DependentEffect ==
  ASSUME TaskInv, NEW a \in Actors, ScheduleDependent(a)
  PROVE  \E n, p \in Tasks :
           /\ Do(a, "schedule") /\ n = The(a) /\ n \in Created /\ p \in Created /\ p # n
           /\ node[n].kind = "runnable" /\ node[n].deps = <<p>> /\ Range(node[n].deps) = {p}
           /\ node' \in [Tasks -> NodeType]
           /\ \A m \in Tasks : m # n => node'[m].deps = node[m].deps /\ (node'[m].flag <=> node[m].flag)
           /\ node'[n].deps = <<>> /\ ~node'[n].flag
           /\ \A m \in Tasks : /\ node'[m].kind = node[m].kind /\ node'[m].ref = node[m].ref
                               /\ node'[m].after = node[m].after
                               /\ node'[m].consumed = node[m].consumed
                               /\ m # p => node'[m].wait = node[m].wait
           /\ node'[p].wait = IF node[p].consumed THEN node[p].wait ELSE <<n>> \o node[p].wait
           /\ node[p].consumed => Then(a, Returned(n, p) \o <<Schedule(n)>>)
           /\ ~node[p].consumed => Then(a, Returned(n, p))
           /\ UNCHANGED <<ready, m_ready_count, running, futures, inside, respawns>>
  <1>1. PICK n \in Tasks : n = The(a) /\ n \in Created /\ Do(a, "schedule")
    BY HeadEntry DEF TaskInv, ScheduleDependent
  <1>2. node \in [Tasks -> NodeType] /\ node[n] \in NodeType /\ node[n].deps \in Seq(Tasks)
    BY FieldTypes DEF TaskInv, Types
  <1>3. node[n].kind = "runnable" /\ node[n].deps # <<>>
    BY <1>1 DEF ScheduleDependent
  <1>4. PICK p \in Tasks : p = node[n].deps[1]
    BY <1>2, <1>3
  <1>5. node[n].deps = <<p>>
    <2>1. Len(node[n].deps) <= 1
      BY <1>3 DEF TaskInv, Ordered
    <2> QED BY <2>1, <1>2, <1>3, <1>4
  <1>6. Range(node[n].deps) = {p} /\ p \in Created /\ p # n
    <2>1. Range(node[n].deps) = {p}
      BY <1>5, OneElement
    <2> QED BY <2>1, NotItself DEF TaskInv, Numbered
  <1>7. PICK r : r = [node[n] EXCEPT !.deps = <<>>, !.flag = FALSE]
    OBVIOUS
  <1>8. /\ r \in NodeType /\ r.deps = <<>> /\ ~r.flag /\ r.kind = node[n].kind /\ r.ref = node[n].ref
        /\ r.wait = node[n].wait /\ r.consumed = node[n].consumed /\ r.after = node[n].after
    <2>1. PICK f \in BOOLEAN, d \in Seq(Tasks), v \in NodeType : f = FALSE /\ d = <<>> /\ v = node[n]
      BY <1>2, EmptySeq
    <2>2. r = [v EXCEPT !.deps = d, !.flag = f]
      BY <1>7, <2>1
    <2>3. /\ r \in NodeType /\ r.deps = d /\ r.flag = f /\ r.kind = v.kind /\ r.ref = v.ref
          /\ r.wait = v.wait /\ r.consumed = v.consumed /\ r.after = v.after
      BY <2>2 DEF NodeType
    <2> QED BY <2>1, <2>3
  <1>9. PICK cleared \in [Tasks -> NodeType] : cleared = [node EXCEPT ![n] = r]
    BY <1>2, <1>8
  <1>10. cleared = [node EXCEPT ![n].deps = <<>>, ![n].flag = FALSE]
    BY <1>2, <1>7, <1>9
  <1>11. cleared[n] = r /\ \A m \in Tasks : m # n => cleared[m] = node[m]
    BY <1>2, <1>9
  <1>12. /\ node[p].consumed => node' = cleared /\ Then(a, Returned(n, p) \o <<Schedule(n)>>)
         /\ ~node[p].consumed => node' = Waits(cleared, p, n) /\ Then(a, Returned(n, p))
         /\ UNCHANGED <<ready, m_ready_count, running, futures, inside, respawns>>
    BY <1>1, <1>4, <1>10 DEF ScheduleDependent
  <1>13. /\ node' \in [Tasks -> NodeType]
         /\ \A m \in Tasks : m # n => node'[m].deps = node[m].deps /\ (node'[m].flag <=> node[m].flag)
         /\ node'[n].deps = <<>> /\ ~node'[n].flag
         /\ \A m \in Tasks : /\ node'[m].kind = node[m].kind /\ node'[m].ref = node[m].ref
                             /\ node'[m].after = node[m].after
                             /\ node'[m].consumed = node[m].consumed
                             /\ m # p => node'[m].wait = node[m].wait
         /\ node'[p].wait = IF node[p].consumed THEN node[p].wait ELSE <<n>> \o node[p].wait
    <2>c. CASE node[p].consumed
      <3>1. node' = cleared
        BY <1>12, <2>c
      <3> QED BY <3>1, <1>6, <1>8, <1>9, <1>11, <2>c
    <2>w. CASE ~node[p].consumed
      <3>1. cleared[p] = node[p] /\ node[p] \in NodeType /\ node[p].wait \in Seq(Tasks)
        BY <1>2, <1>6, <1>11, FieldTypes
      <3>2. PICK wait \in Seq(Tasks) : wait = <<n>> \o node[p].wait
        BY <3>1, Prepend
      <3>3. PICK q : q = [node[p] EXCEPT !.wait = wait]
        OBVIOUS
      <3>4. /\ q \in NodeType /\ q.wait = wait /\ q.kind = node[p].kind /\ q.ref = node[p].ref
            /\ q.deps = node[p].deps /\ q.flag = node[p].flag /\ q.consumed = node[p].consumed
            /\ q.after = node[p].after
        <4>1. PICK v \in NodeType : v = node[p]
          BY <3>1
        <4>2. /\ q \in NodeType /\ q.wait = wait /\ q.kind = v.kind /\ q.ref = v.ref
              /\ q.deps = v.deps /\ q.flag = v.flag /\ q.consumed = v.consumed
              /\ q.after = v.after
          BY <4>1, <3>3 DEF NodeType
        <4> QED BY <4>1, <4>2
      <3>5. node' = [cleared EXCEPT ![p] = q]
        BY <1>12, <2>w, <3>1, <3>2, <3>3 DEF Waits
      <3>6. node' \in [Tasks -> NodeType] /\ node'[p] = q /\ \A m \in Tasks : m # p => node'[m] = cleared[m]
        BY <3>4, <3>5
      <3>7. node'[n] = r
        BY <3>6, <1>6, <1>11
      <3>8. \A m \in Tasks : m \notin {n, p} => node'[m] = node[m]
        BY <3>6, <1>11
      <3> QED BY <3>2, <3>4, <3>6, <3>7, <3>8, <1>6, <1>8, <2>w
    <2> QED BY <2>c, <2>w
  <1> QED BY <1>1, <1>3, <1>5, <1>6, <1>12, <1>13

\* schedule_aggregate, one predecessor: it is waited for, or complete.
LEMMA AggregateEffect ==
  ASSUME TaskInv, NEW a \in Actors, ScheduleAggregate(a)
  PROVE  \E n, p \in Tasks :
           /\ Do(a, "schedule") /\ n = The(a) /\ n \in Created /\ p \in Created /\ p # n
           /\ node[n].kind = "aggregate" /\ node[n].deps # <<>> /\ p = node[n].deps[1]
           /\ p \in Range(node[n].deps) /\ node'[n].deps = Tail(node[n].deps)
           /\ node' \in [Tasks -> NodeType]
           /\ \A m \in Tasks : m # n => node'[m].deps = node[m].deps
           /\ \A m \in Tasks : /\ node'[m].kind = node[m].kind /\ node'[m].ref = node[m].ref
                               /\ node'[m].after = node[m].after
                               /\ node'[m].consumed = node[m].consumed
                               /\ node'[m].flag <=> node[m].flag
                               /\ m # p => node'[m].wait = node[m].wait
           /\ node'[p].wait = IF node[p].consumed THEN node[p].wait ELSE <<n>> \o node[p].wait
           /\ node[p].consumed => Then(a, <<Release(p)>> \o <<Schedule(n)>>)
           /\ ~node[p].consumed => Then(a, <<Release(p)>> \o <<>>)
           /\ UNCHANGED <<ready, m_ready_count, running, futures, inside, respawns>>
  <1>1. PICK n \in Tasks : n = The(a) /\ n \in Created /\ Do(a, "schedule")
    BY HeadEntry DEF TaskInv, ScheduleAggregate
  <1>2. node \in [Tasks -> NodeType] /\ node[n] \in NodeType /\ node[n].deps \in Seq(Tasks)
    BY FieldTypes DEF TaskInv, Types
  <1>3. node[n].kind = "aggregate" /\ node[n].deps # <<>>
    BY <1>1 DEF ScheduleAggregate
  <1>4. PICK p \in Tasks : p = node[n].deps[1] /\ p \in Range(node[n].deps)
    BY <1>2, <1>3 DEF Range
  <1>6. p \in Created /\ p # n
    BY <1>4, NotItself DEF TaskInv, Numbered
  <1>7. PICK deps \in Seq(Tasks) : deps = Tail(node[n].deps)
    <2>1. PICK ds \in Seq(Tasks) : ds = node[n].deps
      BY <1>2
    <2>2. Tail(ds) \in Seq(Tasks)
      BY <2>1, <1>3
    <2> QED BY <2>1, <2>2
  <1>8. PICK r : r = [node[n] EXCEPT !.deps = deps]
    OBVIOUS
  <1>9. /\ r \in NodeType /\ r.deps = deps /\ (r.flag <=> node[n].flag) /\ r.kind = node[n].kind
        /\ r.ref = node[n].ref /\ r.wait = node[n].wait /\ r.consumed = node[n].consumed
        /\ r.after = node[n].after
    BY <1>2, <1>8, SetDeps
  <1>10. PICK cleared \in [Tasks -> NodeType] : cleared = [node EXCEPT ![n] = r]
    BY <1>2, <1>9
  <1>11. cleared = [node EXCEPT ![n].deps = Tail(@)]
    BY <1>2, <1>7, <1>8, <1>10
  <1>12. cleared[n] = r /\ \A m \in Tasks : m # n => cleared[m] = node[m]
    BY <1>2, <1>10
  <1>13. /\ node' = IF node[p].consumed THEN cleared ELSE Waits(cleared, p, n)
         /\ node[p].consumed => Then(a, <<Release(p)>> \o <<Schedule(n)>>)
         /\ ~node[p].consumed => Then(a, <<Release(p)>> \o <<>>)
         /\ UNCHANGED <<ready, m_ready_count, running, futures, inside, respawns>>
    BY <1>1, <1>4, <1>11 DEF ScheduleAggregate, GoesOn
  <1>14. /\ node' \in [Tasks -> NodeType]
         /\ \A m \in Tasks : m # n => node'[m].deps = node[m].deps
         /\ node'[n].deps = Tail(node[n].deps)
         /\ \A m \in Tasks : /\ node'[m].kind = node[m].kind /\ node'[m].ref = node[m].ref
                             /\ node'[m].after = node[m].after
                             /\ node'[m].consumed = node[m].consumed
                             /\ node'[m].flag <=> node[m].flag
                             /\ m # p => node'[m].wait = node[m].wait
         /\ node'[p].wait = IF node[p].consumed THEN node[p].wait ELSE <<n>> \o node[p].wait
    <2>c. CASE node[p].consumed
      <3>1. node' = cleared
        BY <1>13, <2>c
      <3> QED BY <3>1, <1>6, <1>7, <1>9, <1>10, <1>12, <2>c
    <2>w. CASE ~node[p].consumed
      <3>1. cleared[p] = node[p] /\ node[p] \in NodeType /\ node[p].wait \in Seq(Tasks)
        BY <1>2, <1>6, <1>12, FieldTypes
      <3>2. PICK wait \in Seq(Tasks) : wait = <<n>> \o node[p].wait
        BY <3>1, Prepend
      <3>3. PICK q : q = [node[p] EXCEPT !.wait = wait]
        OBVIOUS
      <3>4. /\ q \in NodeType /\ q.wait = wait /\ q.kind = node[p].kind /\ q.ref = node[p].ref
            /\ q.deps = node[p].deps /\ q.flag = node[p].flag /\ q.consumed = node[p].consumed
            /\ q.after = node[p].after
        <4>1. PICK v \in NodeType : v = node[p]
          BY <3>1
        <4>2. /\ q \in NodeType /\ q.wait = wait /\ q.kind = v.kind /\ q.ref = v.ref
              /\ q.deps = v.deps /\ q.flag = v.flag /\ q.consumed = v.consumed
              /\ q.after = v.after
          BY <4>1, <3>3 DEF NodeType
        <4> QED BY <4>1, <4>2
      <3>5. node' = [cleared EXCEPT ![p] = q]
        BY <1>13, <2>w, <3>1, <3>2, <3>3 DEF Waits
      <3>6. node' \in [Tasks -> NodeType] /\ node'[p] = q /\ \A m \in Tasks : m # p => node'[m] = cleared[m]
        BY <3>4, <3>5
      <3>7. node'[n] = r
        BY <3>6, <1>6, <1>12
      <3>8. \A m \in Tasks : m \notin {n, p} => node'[m] = node[m]
        BY <3>6, <1>12
      <3> QED BY <3>2, <3>4, <3>6, <3>7, <3>8, <1>6, <1>7, <1>9, <2>w
    <2> QED BY <2>c, <2>w
  <1> QED BY <1>1, <1>3, <1>4, <1>6, <1>13, <1>14

\* _complete_finished_task: the wait queue becomes work for the actor.
LEMMA CompleteEffect ==
  ASSUME TaskInv, NEW a \in Actors, CompleteTask(a)
  PROVE  \E n \in Tasks : \E waiting \in Seq(Tasks) : \E schedules \in Seq(Entry) :
           /\ Do(a, "complete") /\ n = The(a) /\ n \in Created /\ waiting = node[n].wait
           /\ Len(schedules) = Len(waiting) /\ DOMAIN schedules = DOMAIN waiting
           /\ \A i \in DOMAIN waiting : schedules[i] = Schedule(waiting[i])
           /\ node' \in [Tasks -> NodeType]
           /\ \A m \in Tasks : m # n => node'[m] = node[m]
           /\ node'[n].wait = <<>> /\ node'[n].consumed
           /\ node'[n].kind = node[n].kind /\ node'[n].ref = node[n].ref
           /\ node'[n].deps = node[n].deps /\ (node'[n].flag <=> node[n].flag)
           /\ node'[n].after = node[n].after
           /\ Then(a, schedules \o <<Release(n)>>)
           /\ UNCHANGED <<ready, m_ready_count, running, futures, inside, respawns>>
  <1>1. PICK n \in Tasks : n = The(a) /\ n \in Created /\ Do(a, "complete")
    BY HeadEntry DEF TaskInv, CompleteTask
  <1>2. node \in [Tasks -> NodeType] /\ node[n] \in NodeType
    BY DEF TaskInv, Types
  <1>3. PICK waiting \in Seq(Tasks) : waiting = node[n].wait
    BY <1>2, FieldTypes
  <1>4. PICK schedules : schedules = [i \in DOMAIN waiting |-> Schedule(waiting[i])]
    OBVIOUS
  <1>5. schedules \in Seq(Entry) /\ Len(schedules) = Len(waiting) /\ DOMAIN schedules = DOMAIN waiting
    <2>1. DOMAIN waiting = 1 .. Len(waiting) /\ Len(waiting) \in Nat
      OBVIOUS
    <2>2. \A i \in 1 .. Len(waiting) : waiting[i] \in Tasks
      OBVIOUS
    <2>3. \A i \in 1 .. Len(waiting) : Schedule(waiting[i]) \in Entry
      BY <2>2 DEF Schedule, Entry
    <2>4. schedules \in [1 .. Len(waiting) -> Entry]
      BY <1>4, <2>1, <2>3
    <2>5. schedules \in Seq(Entry)
      BY <2>1, <2>4, SeqDef
    <2> QED BY <2>1, <2>4, <2>5, LenProperties
  <1>6. PICK r : r = [node[n] EXCEPT !.wait = <<>>, !.consumed = TRUE]
    OBVIOUS
  <1>7. /\ r \in NodeType /\ r.wait = <<>> /\ r.consumed /\ r.kind = node[n].kind /\ r.ref = node[n].ref
        /\ r.deps = node[n].deps /\ (r.flag <=> node[n].flag) /\ r.after = node[n].after
    <2>1. PICK c \in BOOLEAN, d \in Seq(Tasks), v \in NodeType : c = TRUE /\ d = <<>> /\ v = node[n]
      BY <1>2, EmptySeq
    <2>2. r = [v EXCEPT !.wait = d, !.consumed = c]
      BY <1>6, <2>1
    <2>3. /\ r \in NodeType /\ r.wait = d /\ r.consumed = c /\ r.kind = v.kind /\ r.ref = v.ref
          /\ r.deps = v.deps /\ r.flag = v.flag /\ r.after = v.after
      BY <2>2 DEF NodeType
    <2> QED BY <2>1, <2>3
  <1>8. node' = [node EXCEPT ![n] = r]
    BY <1>1, <1>2, <1>6 DEF CompleteTask
  <1>9. node' \in [Tasks -> NodeType] /\ node'[n] = r /\ \A m \in Tasks : m # n => node'[m] = node[m]
    BY <1>2, <1>7, <1>8
  <1>10. /\ Then(a, schedules \o <<Release(n)>>)
         /\ UNCHANGED <<ready, m_ready_count, running, futures, inside, respawns>>
    BY <1>1, <1>3, <1>4 DEF CompleteTask
  <1> QED BY <1>1, <1>3, <1>4, <1>5, <1>7, <1>9, <1>10

\* decrement_and_check_reference_count.
LEMMA ReleaseEffect ==
  ASSUME TaskInv, NEW a \in Actors, Deallocates(a)
  PROVE  \E n \in Tasks :
           /\ Do(a, "release") /\ n = The(a) /\ n \in Created
           /\ node' \in [Tasks -> NodeType]
           /\ \A m \in Tasks : m # n => node'[m] = node[m]
           /\ node'[n].ref = node[n].ref - 1
           /\ node'[n].kind = IF node[n].ref = 1 THEN "freed" ELSE node[n].kind
           /\ node'[n].wait = node[n].wait /\ (node'[n].consumed <=> node[n].consumed)
           /\ node'[n].deps = node[n].deps /\ (node'[n].flag <=> node[n].flag)
           /\ node'[n].after = node[n].after
           /\ Then(a, <<>>)
           /\ UNCHANGED <<ready, m_ready_count, running, futures, inside, respawns>>
  <1>1. PICK n \in Tasks : n = The(a) /\ n \in Created /\ Do(a, "release")
    BY HeadEntry DEF TaskInv, Deallocates
  <1>2. node \in [Tasks -> NodeType]
    BY DEF TaskInv, Types
  <1>3. PICK v \in NodeType : v = node[n]
    BY <1>2
  <1>4. PICK ref \in Int, kind \in NodeKinds :
          ref = v.ref - 1 /\ kind = IF v.ref = 1 THEN "freed" ELSE v.kind
    <2>1. v.ref \in Int /\ v.kind \in NodeKinds
      BY FieldTypes
    <2>2. v.ref - 1 \in Int /\ (IF v.ref = 1 THEN "freed" ELSE v.kind) \in NodeKinds
      BY <2>1 DEF NodeKinds
    <2> QED BY <2>2
  <1>5. PICK r : r = [v EXCEPT !.ref = ref, !.kind = kind]
    OBVIOUS
  <1>6. /\ r \in NodeType /\ r.ref = ref /\ r.kind = kind /\ r.wait = v.wait /\ r.consumed = v.consumed
        /\ r.deps = v.deps /\ r.flag = v.flag /\ r.after = v.after
    BY <1>5 DEF NodeType
  <1>7. node' = [node EXCEPT ![n] = r]
    BY <1>1, <1>2, <1>3, <1>4, <1>5 DEF Deallocates, LastReference
  <1>8. node' \in [Tasks -> NodeType] /\ node'[n] = r /\ \A m \in Tasks : m # n => node'[m] = node[m]
    BY <1>2, <1>6, <1>7
  <1>9. /\ Then(a, <<>>)
        /\ UNCHANGED <<ready, m_ready_count, running, futures, inside, respawns>>
    BY <1>1 DEF Deallocates
  <1> QED BY <1>1, <1>3, <1>4, <1>6, <1>8, <1>9

\* schedule_runnable without a predecessor.
LEMMA ReadyEffect ==
  ASSUME TaskInv, NEW a \in Actors, ScheduleReady(a)
  PROVE  \E n \in Tasks :
           /\ Do(a, "schedule") /\ n = The(a) /\ n \in Created
           /\ node[n].kind = "runnable" /\ node[n].deps = <<>>
           /\ node' \in [Tasks -> NodeType]
           /\ \A m \in Tasks : m # n => node'[m] = node[m]
           /\ ~node'[n].flag
           /\ \A m \in Tasks : /\ node'[m].kind = node[m].kind /\ node'[m].ref = node[m].ref
                               /\ node'[m].deps = node[m].deps /\ node'[m].after = node[m].after
                               /\ node'[m].consumed = node[m].consumed
                               /\ node'[m].wait = node[m].wait
           /\ m_ready_count' = m_ready_count + 1
           /\ Then(a, <<Enqueue(n)>>)
           /\ UNCHANGED <<ready, running, futures, inside, respawns>>
  <1>1. PICK n \in Tasks : n = The(a) /\ n \in Created /\ Do(a, "schedule")
    BY HeadEntry DEF TaskInv, ScheduleReady
  <1>2. node \in [Tasks -> NodeType]
    BY DEF TaskInv, Types
  <1>3. PICK v \in NodeType, f \in BOOLEAN : v = node[n] /\ f = FALSE
    BY <1>2
  <1>4. PICK r : r = [v EXCEPT !.flag = f]
    OBVIOUS
  <1>5. /\ r \in NodeType /\ r.flag = f /\ r.kind = v.kind /\ r.ref = v.ref /\ r.deps = v.deps
        /\ r.after = v.after /\ r.consumed = v.consumed /\ r.wait = v.wait
    BY <1>4 DEF NodeType
  <1>6. node' = [node EXCEPT ![n] = r]
    BY <1>1, <1>2, <1>3, <1>4 DEF ScheduleReady
  <1>7. node' \in [Tasks -> NodeType] /\ node'[n] = r /\ \A m \in Tasks : m # n => node'[m] = node[m]
    BY <1>2, <1>5, <1>6
  <1>8. \A m \in Tasks : /\ node'[m].kind = node[m].kind /\ node'[m].ref = node[m].ref
                         /\ node'[m].deps = node[m].deps /\ node'[m].after = node[m].after
                         /\ node'[m].consumed = node[m].consumed
                         /\ node'[m].wait = node[m].wait
    BY <1>3, <1>5, <1>7
  <1>9. ~node'[n].flag
    BY <1>3, <1>5, <1>7
  <1>10. /\ node[n].kind = "runnable" /\ node[n].deps = <<>>
         /\ m_ready_count' = m_ready_count + 1
         /\ Then(a, <<Enqueue(n)>>)
         /\ UNCHANGED <<ready, running, futures, inside, respawns>>
    BY <1>1 DEF ScheduleReady
  <1> QED BY <1>1, <1>7, <1>8, <1>9, <1>10

\* The code of an actor after a step of the scheduler.
LEMMA ThenTodo ==
  ASSUME Types, NEW a \in Actors, NEW e \in Seq(Entry), agenda[a] # <<>>, Then(a, e)
  PROVE  /\ agenda' \in [Actors -> Seq(Entry)]
         /\ agenda'[a] = e \o Tail(agenda[a])
         /\ \A b \in Actors : b # a => agenda'[b] = agenda[b]
  <1>1. agenda \in [Actors -> Seq(Entry)]
    BY DEF Types
  <1>2. PICK s \in Seq(Entry) : s = agenda[a] /\ s # <<>>
    BY <1>1
  <1>3. e \o Tail(s) \in Seq(Entry)
    BY <1>2
  <1> QED BY <1>1, <1>2, <1>3 DEF Then

\* The entries are entries.
LEMMA EntryTypes ==
  ASSUME NEW n \in Tasks
  PROVE  /\ Schedule(n) \in Entry /\ Enqueue(n) \in Entry /\ Complete(n) \in Entry
         /\ Release(n) \in Entry /\ CountDown \in Entry
         /\ <<>> \in Seq(Entry) /\ <<Schedule(n)>> \in Seq(Entry) /\ <<Enqueue(n)>> \in Seq(Entry)
         /\ <<Complete(n)>> \in Seq(Entry) /\ <<Release(n)>> \in Seq(Entry)
         /\ <<Schedule(n), CountDown>> \in Seq(Entry) /\ <<Complete(n), CountDown>> \in Seq(Entry)
  <1>1. /\ Schedule(n) \in Entry /\ Enqueue(n) \in Entry /\ Complete(n) \in Entry
        /\ Release(n) \in Entry /\ CountDown \in Entry
    BY DEF Schedule, Enqueue, Complete, Release, Entry
  <1> QED BY <1>1

\* SetToSeq lists a set of tasks.
LEMMA ListsSet ==
  ASSUME NEW S \in SUBSET Tasks, NEW s, s = SetToSeq(S)
  PROVE  s \in Seq(S) /\ s \in Seq(Tasks) /\ IsInjective(s) /\ Range(s) = S
  <1>1. IsFiniteSet(S) /\ Cardinality(S) \in Nat
    <2>1. IsFiniteSet(Tasks)
      BY FS_Interval, MaxWorkAssumption DEF Tasks
    <2> QED BY <2>1, FS_Subset, FS_CardinalityType
  <1>2. PICK k \in Nat : k = Cardinality(S)
    BY <1>1
  <1>3. \E f \in [1 .. k -> S] : IsInjective(f)
    <2>1. ExistsBijection(1 .. k, S)
      BY <1>1, <1>2, FS_CardinalityType
    <2> QED BY <2>1 DEF ExistsBijection, Bijection, Injection
  <1>4. s \in [1 .. k -> S] /\ IsInjective(s)
    BY <1>2, <1>3 DEF SetToSeq
  <1>5. s \in Seq(S) /\ s \in Seq(Tasks)
    BY <1>4
  <1>6. Range(s) = S
    <2>1. s \in Injection(1 .. k, S)
      BY <1>4 DEF Injection
    <2>2. Cardinality(1 .. k) = Cardinality(S)
      BY <1>2, FS_Interval
    <2>3. s \in Surjection(1 .. k, S)
      BY <2>1, <2>2, <1>1, FS_Injection
    <2> QED BY <2>3, <1>4 DEF Surjection, Range
  <1> QED BY <1>4, <1>5, <1>6

\* The destructors of the futures: one release for each.
LEMMA ReleasesList ==
  ASSUME NEW ps \in SUBSET Tasks, NEW r, r = Releases(ps)
  PROVE  \E drops \in Seq(Tasks) :
           /\ IsInjective(drops) /\ Range(drops) = ps
           /\ r \in Seq(Entry) /\ Len(r) = Len(drops) /\ DOMAIN r = DOMAIN drops
           /\ \A i \in DOMAIN r : drops[i] \in ps /\ r[i] = Release(drops[i])
  <1>2. PICK drops : drops = SetToSeq(ps)
    OBVIOUS
  <1>3. drops \in Seq(Tasks) /\ IsInjective(drops) /\ Range(drops) = ps
    BY <1>2, ListsSet
  <1>4. r = [i \in DOMAIN drops |-> Release(drops[i])]
    BY <1>2 DEF Releases
  <1>5. DOMAIN drops = 1 .. Len(drops) /\ Len(drops) \in Nat
    BY <1>3
  <1>6. \A i \in DOMAIN drops : drops[i] \in ps /\ Release(drops[i]) \in Entry
    BY <1>3, EntryTypes DEF Range
  <1>7. r \in [1 .. Len(drops) -> Entry]
    BY <1>4, <1>5, <1>6
  <1>8. r \in Seq(Entry) /\ Len(r) = Len(drops)
    BY <1>5, <1>7, SeqDef, LenProperties
  <1> QED BY <1>3, <1>4, <1>5, <1>6, <1>7, <1>8

-----------------------------------------------------------------------------
\* The steps, by actor.
LEMMA NextCases ==
  ASSUME [TaskNext]_taskVars
  PROVE  \/ UNCHANGED taskVars
         \/ ExecuteTasks
         \/ \E a \in Actors :
              \/ ScheduleDependent(a) \/ ScheduleReady(a) \/ PushReady(a)
              \/ ScheduleAggregate(a) \/ AggregateDone(a) \/ CompleteTask(a)
              \/ Deallocates(a) \/ DecrementReadyCount(a)
              \/ Run(a) \/ Finish(a) \/ Leave(a) \/ DropFutures(a) \/ Respawn(a)
              \/ \E n \in Tasks : Spawn(a, n) \/ WhenAll(a, n)
  <1>1. Host \in Actors /\ Workers \subseteq Actors
    BY DEF Actors
  <1> QED BY <1>1, Zenon DEF TaskNext, Scheduler, ExecuteLoop, UserCode

\* New entries name tasks that are created.
LEMMA ThenNamed ==
  ASSUME Types, Numbered, NEW a \in Actors, NEW e \in Seq(Entry), agenda[a] # <<>>, Then(a, e),
         Created \subseteq Created',
         \A i \in DOMAIN e : e[i].do # "countdown" => e[i].n \in Created'
  PROVE  \A b \in Actors : \A i \in DOMAIN agenda'[b] :
            agenda'[b][i].do # "countdown" => agenda'[b][i].n \in Created'
  <1>1. agenda'[a] = e \o Tail(agenda[a]) /\ \A b \in Actors : b # a => agenda'[b] = agenda[b]
    BY ThenTodo
  <1>2. PICK s \in Seq(Entry) : s = agenda[a] /\ s # <<>>
    BY DEF Types
  <1>3. \A b \in Actors : \A i \in DOMAIN agenda[b] :
            agenda[b][i].do # "countdown" => agenda[b][i].n \in Created'
    BY DEF Numbered
  <1>4. PICK r : r = e \o Tail(s)
    OBVIOUS
  <1>5. /\ DOMAIN s = 1 .. Len(s) /\ Len(s) \in Nat
        /\ \A i \in DOMAIN r : \/ i \in DOMAIN e /\ r[i] = e[i]
                               \/ /\ i > Len(e) /\ i - Len(e) + 1 \in 2 .. Len(s)
                                  /\ r[i] = s[i - Len(e) + 1]
    BY <1>2, <1>4, ThenSequence
  <1>6. ASSUME NEW i \in DOMAIN r, r[i].do # "countdown" PROVE r[i].n \in Created'
    <2>1. CASE i \in DOMAIN e /\ r[i] = e[i]
      BY <2>1, <1>6
    <2>2. CASE i - Len(e) + 1 \in 2 .. Len(s) /\ r[i] = s[i - Len(e) + 1]
      <3>1. PICK j \in 2 .. Len(s) : j = i - Len(e) + 1
        BY <2>2
      <3>2. j \in DOMAIN s /\ r[i] = s[j]
        BY <3>1, <2>2, <1>5
      <3> QED BY <3>2, <1>2, <1>3, <1>6
    <2> QED BY <2>1, <2>2, <1>5
  <1> QED BY <1>1, <1>2, <1>3, <1>4, <1>6

\* Steps that create no task.
LEMMA SameNumbered ==
  ASSUME Types, Numbered, respawns' = respawns, Created' = Created,
         \A n \in Tasks : node[n] = Unused => node'[n] = Unused,
         \A x \in Owners : futures'[x] \subseteq futures[x],
         \A n \in Tasks : Range(node'[n].deps) \subseteq Created,
         \A a \in Actors : \A i \in DOMAIN agenda'[a] :
            agenda'[a][i].do # "countdown" => agenda'[a][i].n \in Created'
  PROVE  Numbered'
  <1>1. \A n \in Tasks \ Created : node'[n] = Unused /\ futures'[n] = {}
    BY DEF Numbered, Owners
  <1>2. \A x \in Owners : futures'[x] \subseteq Created
    BY DEF Numbered
  <1> QED BY <1>1, <1>2 DEF Numbered

\* A node is given by its fields.
LEMMA SameNode ==
  ASSUME NEW r \in NodeType, NEW q \in NodeType, r.kind = q.kind, r.ref = q.ref,
         r.deps = q.deps, r.flag <=> q.flag, r.wait = q.wait, r.consumed <=> q.consumed,
         r.after = q.after
  PROVE  r = q
  <1>1. r.flag = q.flag /\ r.consumed = q.consumed
    BY FieldTypes
  <1> QED BY <1>1 DEF NodeType

\* A step of the scheduler's code keeps types and numbers.
LEMMA ThenStep ==
  ASSUME Types, Numbered, NEW a \in Actors, NEW e \in Seq(Entry), agenda[a] # <<>>, Then(a, e),
         node' \in [Tasks -> NodeType], ready' \in SUBSET Tasks, m_ready_count' \in Int,
         \A m \in Tasks : node'[m].kind = "unused" <=> node[m].kind = "unused",
         \A m \in Tasks \ Created : node'[m] = node[m],
         \A m \in Tasks : Range(node'[m].deps) \subseteq Range(node[m].deps),
         running' = running, futures' = futures, inside' = inside, respawns' = respawns,
         \A i \in DOMAIN e : e[i].do # "countdown" => e[i].n \in Created
  PROVE  Types' /\ Numbered'
  <1>1. Created' = Created
    BY SameCreated
  <1>2. agenda' \in [Actors -> Seq(Entry)]
    BY ThenTodo
  <1>3. \A b \in Actors : \A i \in DOMAIN agenda'[b] :
            agenda'[b][i].do # "countdown" => agenda'[b][i].n \in Created'
    BY <1>1, ThenNamed
  <1>4. Types'
    BY <1>2 DEF Types
  <1>5. \A n \in Tasks : Range(node'[n].deps) \subseteq Created
    BY DEF Numbered
  <1>6. Numbered'
    <2>1. \A n \in Tasks \ Created : node'[n] = Unused
      BY DEF Numbered
    <2>2. \A x \in Owners : futures'[x] \subseteq Created
      BY DEF Numbered
    <2>3. \E k \in 0 .. MaxWork : Created = 1 .. k /\ k + respawns <= MaxWork
      BY DEF Numbered
    <2> HIDE DEF Created
    <2> QED BY <2>1, <2>2, <2>3, <1>1, <1>3, <1>5 DEF Numbered
  <1> QED BY <1>4, <1>6

\* The lists of entries that the actions put in front, and whom they name.
LEMMA EntryLists ==
  ASSUME NEW n \in Tasks, NEW p \in Tasks
  PROVE  /\ <<Release(p), Schedule(n)>> \in Seq(Entry)
         /\ <<Release(p)>> \o <<Schedule(n)>> = <<Release(p), Schedule(n)>>
         /\ <<Release(p)>> \o <<>> = <<Release(p)>>
         /\ <<>> \o <<Schedule(n)>> = <<Schedule(n)>>
  <1>1. PICK x \in Entry : x = Release(p)
    BY EntryTypes
  <1>2. PICK y \in Entry : y = Schedule(n)
    BY EntryTypes
  <1>3. <<x, y>> \in Seq(Entry)
    OBVIOUS
  <1>5. <<x>> \in Seq(Entry) /\ <<y>> \in Seq(Entry)
    OBVIOUS
  <1>4. <<x>> \o <<y>> = <<x, y>>
    <2>1. PICK s \in Seq(Entry) : s = <<x>> /\ Len(s) = 1 /\ s[1] = x
      BY <1>5
    <2>2. PICK t \in Seq(Entry) : t = <<y>> /\ Len(t) = 1 /\ t[1] = y
      BY <1>5
    <2>3. PICK q \in Seq(Entry) : q = <<x, y>> /\ Len(q) = 2 /\ q[1] = x /\ q[2] = y
      BY <1>3
    <2>4. s \o t \in Seq(Entry) /\ Len(s \o t) = 2 /\ (s \o t)[1] = x /\ (s \o t)[2] = y
      BY <2>1, <2>2, ConcatProperties
    <2>5. \A i \in 1 .. Len(q) : (s \o t)[i] = q[i]
      BY <2>3, <2>4
    <2>6. s \o t = q
      BY <2>3, <2>4, <2>5, SeqEqual
    <2> QED BY <2>1, <2>2, <2>3, <2>6
  <1>6. <<x>> \o <<>> = <<x>> /\ <<>> \o <<y>> = <<y>>
    BY <1>5, ConcatEmptySeq
  <1> QED BY <1>1, <1>2, <1>3, <1>4, <1>6

LEMMA EntryFields ==
  ASSUME NEW n
  PROVE  /\ Schedule(n).do = "schedule" /\ Schedule(n).n = n
         /\ Enqueue(n).do = "push" /\ Enqueue(n).n = n
         /\ Complete(n).do = "complete" /\ Complete(n).n = n
         /\ Release(n).do = "release" /\ Release(n).n = n
         /\ CountDown.do = "countdown" /\ CountDown.n = 0
         /\ Carrier(Schedule(n)) /\ Carrier(Enqueue(n)) /\ Carrier(Complete(n))
         /\ ~Carrier(Release(n)) /\ ~Carrier(CountDown)
  BY DEF Schedule, Enqueue, Complete, Release, CountDown, Carrier

\* The entries of the lists that the actions put in front.
LEMMA Fronts ==
  ASSUME NEW n \in Tasks, NEW p \in Tasks
  PROVE  /\ Range(<<Schedule(n)>>) = {Schedule(n)} /\ Once(<<Schedule(n)>>)
         /\ Range(<<Enqueue(n)>>) = {Enqueue(n)} /\ Once(<<Enqueue(n)>>)
         /\ Range(<<Complete(n)>>) = {Complete(n)} /\ Once(<<Complete(n)>>)
         /\ Range(<<Release(p)>>) = {Release(p)} /\ Once(<<Release(p)>>)
         /\ Range(<<Release(p), Schedule(n)>>) = {Release(p), Schedule(n)}
         /\ Once(<<Release(p), Schedule(n)>>)
         /\ Range(<<>>) = {} /\ Once(<<>>)
  <1>1. ASSUME NEW x PROVE Range(<<x>>) = {x} /\ Once(<<x>>)
    BY DEF Range, Once
  <1>2. PICK x : x = Release(p) /\ ~Carrier(x)
    BY EntryFields
  <1>3. PICK y : y = Schedule(n)
    OBVIOUS
  <1>4. Range(<<x, y>>) = {x, y} /\ Once(<<x, y>>)
    BY <1>2 DEF Range, Once
  <1>5. Range(<<>>) = {} /\ Once(<<>>)
    BY NoElement DEF Once
  <1> QED BY <1>1, <1>2, <1>3, <1>4, <1>5

\* What is true of the entries of a list, by its range.
LEMMA Listed ==
  ASSUME NEW e, NEW i \in DOMAIN e
  PROVE  e[i] \in Range(e)
  BY DEF Range

\* The elements of a concatenation.
LEMMA Concatenation ==
  ASSUME NEW T, NEW s \in Seq(T), NEW t \in Seq(T), NEW k \in Nat, k = Len(s)
  PROVE  /\ s \o t \in Seq(T) /\ Len(s \o t) = k + Len(t) /\ DOMAIN (s \o t) = 1 .. k + Len(t)
         /\ \A i \in 1 .. k : (s \o t)[i] = s[i]
         /\ \A j \in 1 .. Len(t) : (s \o t)[k + j] = t[j]
  <1>1. /\ s \o t \in Seq(T) /\ Len(s \o t) = k + Len(t)
        /\ \A i \in 1 .. k + Len(t) : (s \o t)[i] = IF i <= k THEN s[i] ELSE t[i - k]
    BY ConcatProperties
  <1>2. PICK r \in Seq(T) : r = s \o t
    BY <1>1
  <1>3. Len(t) \in Nat
    OBVIOUS
  <1>4. \A i \in 1 .. k : i \in 1 .. k + Len(t) /\ i <= k
    BY <1>3
  <1>5. \A i \in 1 .. k : r[i] = s[i]
    BY <1>1, <1>2, <1>4
  <1>6. ASSUME NEW j \in 1 .. Len(t) PROVE r[k + j] = t[j]
    <2>1. k + j \in 1 .. k + Len(t) /\ ~(k + j <= k) /\ k + j - k = j
      BY <1>3
    <2> QED BY <2>1, <1>1, <1>2
  <1>7. DOMAIN r = 1 .. k + Len(t)
    BY <1>1, <1>2
  <1> QED BY <1>1, <1>2, <1>5, <1>6, <1>7

\* schedules schedules the tasks of waiting; e does that and then releases n.
ScheduleList(schedules, waiting) ==
    /\ schedules \in Seq(Entry) /\ Len(schedules) = Len(waiting)
    /\ DOMAIN schedules = DOMAIN waiting
    /\ \A i \in DOMAIN waiting : schedules[i] = Schedule(waiting[i])
CompleteList(e, n, waiting) ==
    /\ e \in Seq(Entry) /\ Once(e)
    /\ \A i \in DOMAIN e : e[i] = Release(n) \/ \E m \in Range(waiting) : e[i] = Schedule(m)
    /\ \A m \in Range(waiting) : \E i \in DOMAIN e : e[i] = Schedule(m)
    /\ Len(e) = Len(waiting) + 1 /\ e[Len(waiting) + 1] = Release(n)
    /\ \A i \in DOMAIN waiting : e[i] = Schedule(waiting[i])

LEMMA CompletionList ==
  ASSUME NEW n \in Tasks, NEW waiting \in Seq(Tasks), IsInjective(waiting),
         NEW schedules, ScheduleList(schedules, waiting),
         NEW e, e = schedules \o <<Release(n)>>
  PROVE  CompleteList(e, n, waiting)
  <1>0. /\ schedules \in Seq(Entry) /\ Len(schedules) = Len(waiting)
        /\ DOMAIN schedules = DOMAIN waiting
        /\ \A i \in DOMAIN waiting : schedules[i] = Schedule(waiting[i])
    BY DEF ScheduleList
  <1>1. PICK x \in Entry : x = Release(n) /\ ~Carrier(x)
    BY EntryTypes, EntryFields
  <1>2. PICK t \in Seq(Entry) : t = <<x>> /\ Len(t) = 1 /\ t[1] = x
    <2>1. <<x>> \in Seq(Entry)
      OBVIOUS
    <2> QED BY <2>1
  <1>3. PICK k \in Nat : k = Len(schedules) /\ DOMAIN schedules = 1 .. k /\ DOMAIN waiting = 1 .. k
    <2>1. Len(schedules) \in Nat /\ DOMAIN schedules = 1 .. Len(schedules)
      BY <1>0
    <2> QED BY <2>1, <1>0
  <1>4. /\ e \in Seq(Entry) /\ Len(e) = k + 1 /\ DOMAIN e = 1 .. k + 1
        /\ \A i \in 1 .. k : e[i] = schedules[i]
        /\ e[k + 1] = x
    <2>1. e = schedules \o t
      BY <1>1, <1>2
    <2>2. /\ e \in Seq(Entry) /\ Len(e) = k + Len(t) /\ DOMAIN e = 1 .. k + Len(t)
          /\ \A i \in 1 .. k : e[i] = schedules[i]
          /\ \A j \in 1 .. Len(t) : e[k + j] = t[j]
      <3>1. schedules \in Seq(Entry) /\ k = Len(schedules)
        BY <1>0, <1>3
      <3>2. /\ schedules \o t \in Seq(Entry) /\ Len(schedules \o t) = k + Len(t)
            /\ DOMAIN (schedules \o t) = 1 .. k + Len(t)
            /\ \A i \in 1 .. k : (schedules \o t)[i] = schedules[i]
            /\ \A j \in 1 .. Len(t) : (schedules \o t)[k + j] = t[j]
        BY <3>1, Concatenation
      <3> QED BY <2>1, <3>2, Zenon
    <2>3. 1 \in 1 .. Len(t)
      BY <1>2
    <2> QED BY <2>2, <2>3, <1>2
  <1>5. \A i \in 1 .. k : e[i] = Schedule(waiting[i]) /\ waiting[i] \in Range(waiting)
    BY <1>0, <1>3, <1>4 DEF Range
  <1>6. \A i \in DOMAIN e : i \in 1 .. k \/ i = k + 1
    <2>1. \A i \in 1 .. k + 1 : i \in 1 .. k \/ i = k + 1
      OBVIOUS
    <2> QED BY <2>1, <1>4, Zenon
  <1>7. Once(e)
    <2> SUFFICES ASSUME NEW i \in DOMAIN e, NEW j \in DOMAIN e, Carrier(e[i]), Carrier(e[j]),
                        e[i].n = e[j].n
                 PROVE  i = j
      BY DEF Once
    <2>1. i \in 1 .. k /\ j \in 1 .. k
      BY <1>1, <1>4, <1>6
    <2>2. e[i].n = waiting[i] /\ e[j].n = waiting[j]
      BY <2>1, <1>5, EntryFields
    <2>3. waiting[i] = waiting[j] /\ i \in DOMAIN waiting /\ j \in DOMAIN waiting
      BY <2>1, <2>2, <1>3
    <2> QED BY <2>3 DEF IsInjective
  <1>8. ASSUME NEW m \in Range(waiting) PROVE \E i \in DOMAIN e : e[i] = Schedule(m)
    <2>1. PICK i \in DOMAIN waiting : m = waiting[i]
      BY DEF Range
    <2> QED BY <2>1, <1>3, <1>4, <1>5
  <1>10. /\ \A i \in DOMAIN e : e[i] = Release(n) \/ \E m \in Range(waiting) : e[i] = Schedule(m)
         /\ Len(e) = Len(waiting) + 1 /\ e[Len(waiting) + 1] = Release(n)
         /\ \A i \in DOMAIN waiting : e[i] = Schedule(waiting[i])
    BY <1>0, <1>1, <1>3, <1>4, <1>5, <1>6
  <1> QED BY <1>4, <1>7, <1>8, <1>10 DEF CompleteList

\* r releases the tasks of drops; e does that and then completes x.
ReleaseList(r, drops) ==
    /\ r \in Seq(Entry) /\ Len(r) = Len(drops) /\ DOMAIN r = DOMAIN drops
    /\ \A i \in DOMAIN r : r[i] = Release(drops[i])
EndList(e, x, drops) ==
    /\ e \in Seq(Entry) /\ Once(e) /\ Len(e) \in Nat \ {0}
    /\ e[Len(e)] = CountDown /\ e # <<>>
    /\ \A i \in DOMAIN e : \/ i < Len(e) /\ e[i] = Complete(x)
                           \/ i < Len(e) /\ i \in DOMAIN drops /\ e[i] = Release(drops[i])
                           \/ i = Len(e) /\ e[i] = CountDown
    /\ \E i \in DOMAIN e : e[i] = Complete(x)
    /\ \A i \in DOMAIN drops : i \in DOMAIN e /\ e[i] = Release(drops[i])

LEMMA AppendCompletion ==
  ASSUME NEW x \in Tasks, NEW drops \in Seq(Tasks), NEW r, ReleaseList(r, drops),
         NEW e, e = r \o <<Complete(x), CountDown>>
  PROVE  EndList(e, x, drops)
  <1>0. r \in Seq(Entry) /\ Len(r) = Len(drops) /\ DOMAIN r = DOMAIN drops
    BY DEF ReleaseList
  <1>1. PICK c \in Entry : c = Complete(x) /\ Carrier(c)
    BY EntryTypes, EntryFields
  <1>2. PICK d \in Entry : d = CountDown /\ ~Carrier(d)
    BY EntryTypes, EntryFields
  <1>3. PICK t \in Seq(Entry) : t = <<c, d>> /\ Len(t) = 2 /\ t[1] = c /\ t[2] = d
    <2>1. <<c, d>> \in Seq(Entry)
      OBVIOUS
    <2> QED BY <2>1
  <1>4. PICK k \in Nat : k = Len(r) /\ DOMAIN r = 1 .. k /\ DOMAIN drops = 1 .. k
    <2>1. Len(r) \in Nat /\ DOMAIN r = 1 .. Len(r)
      BY <1>0
    <2> QED BY <2>1, <1>0
  <1>5. /\ e \in Seq(Entry) /\ Len(e) = k + 2 /\ DOMAIN e = 1 .. k + 2
        /\ \A i \in 1 .. k : e[i] = r[i]
        /\ e[k + 1] = c /\ e[k + 2] = d
    <2>1. e = r \o t
      BY <1>1, <1>2, <1>3
    <2>2. /\ e \in Seq(Entry) /\ Len(e) = k + Len(t) /\ DOMAIN e = 1 .. k + Len(t)
          /\ \A i \in 1 .. k : e[i] = r[i]
          /\ \A j \in 1 .. Len(t) : e[k + j] = t[j]
      <3>1. /\ r \o t \in Seq(Entry) /\ Len(r \o t) = k + Len(t) /\ DOMAIN (r \o t) = 1 .. k + Len(t)
            /\ \A i \in 1 .. k : (r \o t)[i] = r[i]
            /\ \A j \in 1 .. Len(t) : (r \o t)[k + j] = t[j]
        <4>1. r \in Seq(Entry) /\ k = Len(r)
          BY <1>0, <1>4
        <4> QED BY <4>1, Concatenation
      <3> QED BY <2>1, <3>1, Zenon
    <2>3. 1 \in 1 .. Len(t) /\ 2 \in 1 .. Len(t)
      BY <1>3
    <2> QED BY <2>2, <2>3, <1>3
  <1>6. \A i \in DOMAIN e : i \in 1 .. k \/ i = k + 1 \/ i = k + 2
    <2>1. \A i \in 1 .. k + 2 : i \in 1 .. k \/ i = k + 1 \/ i = k + 2
      OBVIOUS
    <2> QED BY <2>1, <1>5, Zenon
  <1>7. \A i \in 1 .. k : e[i] = Release(drops[i]) /\ ~Carrier(e[i]) /\ i < k + 2
    BY <1>4, <1>5, EntryFields DEF ReleaseList
  <1>8. Once(e)
    <2>1. \A i \in DOMAIN e : Carrier(e[i]) => i = k + 1
      BY <1>2, <1>5, <1>6, <1>7, Zenon
    <2> QED BY <2>1, Zenon DEF Once
  <1>9. k + 1 \in DOMAIN e /\ k + 1 < k + 2 /\ 1 .. k \subseteq DOMAIN e /\ k + 2 \in Nat \ {0}
    BY <1>4, <1>5
  <1>10. e # <<>>
    BY <1>5, NoElement, <1>9
  <1> QED BY <1>1, <1>2, <1>4, <1>5, <1>6, <1>7, <1>8, <1>9, <1>10 DEF EndList

\* What a task that does not respawn leaves to its worker.
LEMMA FinishList ==
  ASSUME Types, NEW x \in Tasks, NEW e, e = Releases(futures[x]) \o Completion(x)
  PROVE  \E drops \in Seq(Tasks) :
           /\ IsInjective(drops) /\ Range(drops) = futures[x]
           /\ \A i \in DOMAIN drops : drops[i] \in futures[x]
           /\ EndList(e, x, drops)
  <1>1. PICK r : r = Releases(futures[x])
    OBVIOUS
  <1>2. futures[x] \in SUBSET Tasks
    BY DEF Types, Owners
  <1>3. PICK drops \in Seq(Tasks) :
          /\ IsInjective(drops) /\ Range(drops) = futures[x]
          /\ r \in Seq(Entry) /\ Len(r) = Len(drops) /\ DOMAIN r = DOMAIN drops
          /\ \A i \in DOMAIN r : drops[i] \in futures[x] /\ r[i] = Release(drops[i])
    BY <1>1, <1>2, ReleasesList
  <1>4. ReleaseList(r, drops) /\ \A i \in DOMAIN drops : drops[i] \in futures[x]
    BY <1>3 DEF ReleaseList
  <1>5. e = r \o <<Complete(x), CountDown>>
    BY <1>1 DEF Completion
  <1>6. EndList(e, x, drops)
    BY <1>4, <1>5, AppendCompletion
  <1> QED BY <1>3, <1>4, <1>6

LEMMA RespawnList ==
  ASSUME NEW x \in Tasks, NEW e, e = <<Schedule(x), CountDown>>
  PROVE  /\ e \in Seq(Entry) /\ Once(e) /\ Len(e) = 2 /\ DOMAIN e = {1, 2}
         /\ e[1] = Schedule(x) /\ e[2] = CountDown /\ e # <<>>
  <1>1. PICK c \in Entry : c = Schedule(x) /\ Carrier(c)
    BY EntryTypes, EntryFields
  <1>2. PICK d \in Entry : d = CountDown /\ ~Carrier(d)
    BY EntryTypes, EntryFields
  <1>3. e = <<c, d>>
    BY <1>1, <1>2
  <1>4. e \in Seq(Entry) /\ Len(e) = 2 /\ DOMAIN e = {1, 2} /\ e[1] = c /\ e[2] = d
    BY <1>3
  <1>5. Once(e) /\ e # <<>>
    BY <1>2, <1>4, NoElement DEF Once
  <1> QED BY <1>1, <1>2, <1>4, <1>5

-----------------------------------------------------------------------------
\* A new task: types and numbers.
LEMMA NewNumbered ==
  ASSUME TaskInv, NEW a \in Actors, NEW n \in Tasks, Fresh(n), InUserCode(a),
         node' \in [Tasks -> NodeType],
         \A m \in Tasks : m # n => node'[m].kind = node[m].kind /\ node'[m].deps = node[m].deps,
         \A m \in Tasks : m # n /\ m \notin Created => node'[m] = node[m],
         node'[n].kind # "unused", Range(node'[n].deps) \subseteq futures[Self(a)],
         NEW given, Hands(Self(a), n, given),
         agenda' = [agenda EXCEPT ![a] = <<Schedule(n)>>],
         UNCHANGED <<ready, m_ready_count, running, inside, respawns>>
  PROVE  Types' /\ Numbered' /\ Created' = Created \cup {n}
  <1>1. Types /\ Numbered /\ Shaped
    BY DEF TaskInv
  <1>2. n \notin Created /\ Created = 1 .. n - 1 /\ n + respawns <= MaxWork /\ node[n].kind = "unused"
    BY <1>1, FreshTask
  <1>3. Created' = Created \cup {n}
    BY <1>2 DEF Created
  <1>4. Self(a) \in Owners
    BY <1>1, UserCodeOf
  <1>c. Self(a) \in Created \cup {Host}
    BY CreatorCreated
  <1>5. PICK s \in Seq(Entry) : s = <<Schedule(n)>> /\ DOMAIN s = {1} /\ s[1].n = n
    <2>1. PICK x \in Entry : x = Schedule(n) /\ x.n = n
      BY EntryTypes, EntryFields
    <2>2. <<x>> \in Seq(Entry) /\ DOMAIN <<x>> = {1} /\ <<x>>[1] = x
      OBVIOUS
    <2> QED BY <2>1, <2>2
  <1>6. /\ agenda' \in [Actors -> Seq(Entry)]
        /\ agenda'[a] = s /\ \A b \in Actors : b # a => agenda'[b] = agenda[b]
    BY <1>1, <1>5 DEF Types
  <1>7. /\ futures' \in [Owners -> SUBSET Tasks]
        /\ \A x \in Owners : futures'[x] \subseteq Created \cup {n}
        /\ \A m \in Tasks : m \notin Created /\ m # n => futures'[m] = {}
    <2>1. \A x \in Owners : futures[x] \subseteq Created
      BY <1>1 DEF Numbered
    <2>2. ASSUME NEW m \in Tasks, m \notin Created, m # n PROVE futures'[m] = {}
      <3>1. m # Self(a) /\ m \in Owners
        BY <2>2, <1>4, <1>c, HostAssumption DEF Owners
      <3> QED BY <3>1, <2>2, <1>1 DEF Hands, Numbered
    <2>3. ASSUME NEW x \in Owners PROVE futures'[x] \subseteq Created \cup {n}
      BY <2>1, <1>4 DEF Hands
    <2> QED BY <2>2, <2>3 DEF Hands
  <1>8. Types'
    BY <1>1, <1>6, <1>7 DEF Types
  <1>9. Numbered'
    <2>1. Created' = 1 .. n /\ n \in 0 .. MaxWork /\ n + respawns' <= MaxWork
      BY <1>2, <1>3, MaxWorkAssumption DEF Tasks
    <2>2. \A m \in Tasks \ Created' : node'[m] = Unused /\ futures'[m] = {}
      BY <1>1, <1>3, <1>7 DEF Numbered
    <2>3. \A x \in Owners : futures'[x] \subseteq Created'
      BY <1>3, <1>7
    <2>4. \A m \in Tasks : Range(node'[m].deps) \subseteq Created'
      BY <1>1, <1>3, <1>4 DEF Numbered
    <2>5. ASSUME NEW b \in Actors, NEW i \in DOMAIN agenda'[b], agenda'[b][i].do # "countdown"
          PROVE  agenda'[b][i].n \in Created'
      <3>1. CASE b = a
        BY <3>1, <1>3, <1>5, <1>6
      <3>2. CASE b # a
        <4>1. agenda'[b] = agenda[b]
          BY <3>2, <1>6
        <4> QED BY <4>1, <2>5, <1>1, <1>3 DEF Numbered
      <3> QED BY <3>1, <3>2
    <2> QED BY <2>1, <2>2, <2>3, <2>4, <2>5 DEF Numbered
  <1> QED BY <1>3, <1>8, <1>9

LEMMA StepNumbered == ASSUME TaskInv, [TaskNext]_taskVars PROVE Types' /\ Numbered'
  <1>i. Types /\ Numbered /\ Shaped /\ Placed
    BY DEF TaskInv
  <1>t. /\ node \in [Tasks -> NodeType] /\ ready \in SUBSET Tasks /\ m_ready_count \in Int
        /\ agenda \in [Actors -> Seq(Entry)] /\ running \in [Actors -> 0 .. MaxWork]
        /\ futures \in [Owners -> SUBSET Tasks] /\ inside \in SUBSET Workers /\ respawns \in Nat
    BY <1>i DEF Types
  <1>f. \A m \in Tasks : node[m] \in NodeType
    BY <1>t
  <1>e. \A n \in Tasks : /\ <<>> \in Seq(Entry) /\ <<Enqueue(n)>> \in Seq(Entry)
                         /\ <<Complete(n)>> \in Seq(Entry) /\ <<Release(n)>> \in Seq(Entry)
    BY EntryTypes
  <1>n. DOMAIN <<>> = {}
    BY NoElement
  <1>1. CASE UNCHANGED taskVars
    BY <1>1, <1>i DEF taskVars, Types, Numbered, Created
  <1>2. CASE ExecuteTasks
    <2>1. inside' \in SUBSET Workers /\ UNCHANGED <<node, ready, m_ready_count, agenda, running, futures, respawns>>
      BY <1>2 DEF ExecuteTasks
    <2> QED BY <2>1, <1>i DEF Types, Numbered, Created
  <1>3. ASSUME NEW a \in Actors, Leave(a) PROVE Types' /\ Numbered'
    <2>1. inside' \in SUBSET Workers /\ UNCHANGED <<node, ready, m_ready_count, agenda, running, futures, respawns>>
      BY <1>3, <1>t DEF Leave
    <2> QED BY <2>1, <1>i DEF Types, Numbered, Created
  <1>4. ASSUME NEW a \in Actors, Run(a) PROVE Types' /\ Numbered'
    <2>1. ready' \in SUBSET Tasks /\ running' \in [Actors -> 0 .. MaxWork]
      BY <1>4, <1>t DEF Run, Tasks
    <2>2. UNCHANGED <<node, m_ready_count, agenda, futures, inside, respawns>>
      BY <1>4 DEF Run
    <2> QED BY <2>1, <2>2, <1>i DEF Types, Numbered, Created
  <1>5. ASSUME NEW a \in Actors, DecrementReadyCount(a) PROVE Types' /\ Numbered'
    <2>1. Then(a, <<>>) /\ agenda[a] # <<>>
          /\ m_ready_count' \in Int /\ UNCHANGED <<node, ready, running, futures, inside, respawns>>
      BY <1>5, <1>t DEF DecrementReadyCount, Do
    <2>2. <<>> \in Seq(Entry) /\ \A i \in DOMAIN <<>> : <<>>[i].do # "countdown" => <<>>[i].n \in Created
      BY <1>n
    <2> QED BY <2>1, <2>2, <1>i, <1>t, ThenStep
  <1>6. ASSUME NEW a \in Actors, PushReady(a) PROVE Types' /\ Numbered'
    <2>0. Do(a, "push")
      BY <1>6 DEF PushReady
    <2>1. Then(a, <<>>) /\ agenda[a] # <<>> /\ ready' \in SUBSET Tasks
          /\ UNCHANGED <<node, m_ready_count, running, futures, inside, respawns>>
      BY <1>6, <1>t, <1>i, <2>0, HeadEntry DEF PushReady
    <2>2. <<>> \in Seq(Entry) /\ \A i \in DOMAIN <<>> : <<>>[i].do # "countdown" => <<>>[i].n \in Created
      BY <1>n
    <2> QED BY <2>1, <2>2, <1>i, <1>t, ThenStep
  <1>7. ASSUME NEW a \in Actors, AggregateDone(a) PROVE Types' /\ Numbered'
    <2>0. Do(a, "schedule")
      BY <1>7 DEF AggregateDone
    <2>1. PICK n \in Tasks : n = The(a) /\ n \in Created /\ agenda[a] # <<>>
      BY <2>0, <1>i, HeadEntry
    <2>2. Then(a, <<Complete(n)>>)
          /\ UNCHANGED <<node, ready, m_ready_count, running, futures, inside, respawns>>
      BY <1>7, <2>1 DEF AggregateDone
    <2>3. PICK e \in Seq(Entry) : e = <<Complete(n)>>
      BY <1>e
    <2>4. \A i \in DOMAIN e : e[i].n \in Created
      BY <2>1, <2>3, Fronts, Listed, EntryFields
    <2> QED BY <2>1, <2>2, <2>3, <2>4, <1>i, <1>t, ThenStep
  <1>8. ASSUME NEW a \in Actors, ScheduleReady(a) PROVE Types' /\ Numbered'
    <2>1. PICK n \in Tasks :
            /\ Do(a, "schedule") /\ n \in Created
            /\ node' \in [Tasks -> NodeType]
            /\ \A m \in Tasks : m # n => node'[m] = node[m]
            /\ \A m \in Tasks : node'[m].kind = node[m].kind /\ node'[m].deps = node[m].deps
            /\ m_ready_count' = m_ready_count + 1
            /\ Then(a, <<Enqueue(n)>>)
            /\ UNCHANGED <<ready, running, futures, inside, respawns>>
      BY <1>8, ReadyEffect
    <2>2. PICK e \in Seq(Entry) : e = <<Enqueue(n)>>
      BY <1>e
    <2>3. \A i \in DOMAIN e : e[i].n \in Created
      BY <2>1, <2>2, Fronts, Listed, EntryFields
    <2>4. agenda[a] # <<>> /\ m_ready_count' \in Int
      BY <2>1, <1>t DEF Do
    <2> QED BY <2>1, <2>2, <2>3, <2>4, <1>i, <1>t, ThenStep
  <1>9. ASSUME NEW a \in Actors, Deallocates(a) PROVE Types' /\ Numbered'
    <2>1. PICK n \in Tasks :
            /\ Do(a, "release") /\ n \in Created
            /\ node' \in [Tasks -> NodeType]
            /\ \A m \in Tasks : m # n => node'[m] = node[m]
            /\ node'[n].kind = IF node[n].ref = 1 THEN "freed" ELSE node[n].kind
            /\ node'[n].deps = node[n].deps
            /\ Then(a, <<>>)
            /\ UNCHANGED <<ready, m_ready_count, running, futures, inside, respawns>>
      BY <1>9, ReleaseEffect
    <2>2. <<>> \in Seq(Entry) /\ \A i \in DOMAIN <<>> : <<>>[i].do # "countdown" => <<>>[i].n \in Created
      BY <1>n
    <2>3. \A m \in Tasks : node'[m].kind = "unused" <=> node[m].kind = "unused"
      BY <2>1 DEF Created
    <2>4. \A m \in Tasks : node'[m].deps = node[m].deps
      BY <2>1
    <2>5. agenda[a] # <<>>
      BY <2>1 DEF Do
    <2> QED BY <2>1, <2>2, <2>3, <2>4, <2>5, <1>i, <1>t, ThenStep
  <1>10. ASSUME NEW a \in Actors, CompleteTask(a) PROVE Types' /\ Numbered'
    <2>1. PICK n \in Tasks : \E waiting \in Seq(Tasks) : \E schedules \in Seq(Entry) :
           /\ Do(a, "complete") /\ n = The(a) /\ n \in Created /\ waiting = node[n].wait
           /\ Len(schedules) = Len(waiting) /\ DOMAIN schedules = DOMAIN waiting
           /\ \A i \in DOMAIN waiting : schedules[i] = Schedule(waiting[i])
           /\ node' \in [Tasks -> NodeType]
           /\ \A m \in Tasks : m # n => node'[m] = node[m]
           /\ node'[n].wait = <<>> /\ node'[n].consumed
           /\ node'[n].kind = node[n].kind /\ node'[n].ref = node[n].ref
           /\ node'[n].deps = node[n].deps /\ (node'[n].flag <=> node[n].flag)
           /\ node'[n].after = node[n].after
           /\ Then(a, schedules \o <<Release(n)>>)
           /\ UNCHANGED <<ready, m_ready_count, running, futures, inside, respawns>>
      BY <1>10, CompleteEffect, Zenon
    <2>c. PICK waiting \in Seq(Tasks), schedules \in Seq(Entry) :
           /\ Do(a, "complete") /\ n \in Created /\ waiting = node[n].wait
           /\ ScheduleList(schedules, waiting)
           /\ node' \in [Tasks -> NodeType]
           /\ \A m \in Tasks : m # n => node'[m] = node[m]
           /\ node'[n].kind = node[n].kind /\ node'[n].deps = node[n].deps
           /\ Then(a, schedules \o <<Release(n)>>)
           /\ UNCHANGED <<ready, m_ready_count, running, futures, inside, respawns>>
      BY <2>1 DEF ScheduleList
    <2>2. PICK at, by : PlacedAs(at, by)
      BY <1>i DEF Placed
    <2>3. Range(waiting) \subseteq Created /\ IsInjective(waiting)
      <3>1. \A m \in Range(waiting) : m \in Tasks /\ at[m] = "waits"
        BY <2>c, <2>2 DEF PlacedAs, Stands, Range
      <3> QED BY <3>1, <2>c, <2>2, <1>i DEF PlacedAs, Stands, Placed
    <2>4. PICK e : e = schedules \o <<Release(n)>>
      OBVIOUS
    <2>5. /\ e \in Seq(Entry)
          /\ \A i \in DOMAIN e : e[i] = Release(n) \/ \E m \in Range(waiting) : e[i] = Schedule(m)
      <3>1. CompleteList(e, n, waiting)
        BY <2>c, <2>3, <2>4, CompletionList
      <3> QED BY <3>1 DEF CompleteList
    <2>6. \A i \in DOMAIN e : e[i].n \in Created
      BY <2>c, <2>3, <2>5, EntryFields
    <2>7. agenda[a] # <<>>
      BY <2>c DEF Do
    <2>8. \A m \in Tasks : node'[m].kind = node[m].kind /\ node'[m].deps = node[m].deps
      BY <2>c
    <2> QED BY <2>c, <2>4, <2>5, <2>6, <2>7, <2>8, <1>i, <1>t, ThenStep
  <1>11. ASSUME NEW a \in Actors, ScheduleDependent(a) PROVE Types' /\ Numbered'
    <2>1. PICK n, p \in Tasks :
           /\ Do(a, "schedule") /\ n = The(a) /\ n \in Created /\ p \in Created /\ p # n
           /\ node[n].kind = "runnable" /\ node[n].deps = <<p>> /\ Range(node[n].deps) = {p}
           /\ node' \in [Tasks -> NodeType]
           /\ \A m \in Tasks : m # n => node'[m].deps = node[m].deps /\ (node'[m].flag <=> node[m].flag)
           /\ node'[n].deps = <<>> /\ ~node'[n].flag
           /\ \A m \in Tasks : /\ node'[m].kind = node[m].kind /\ node'[m].ref = node[m].ref
                               /\ node'[m].after = node[m].after
                               /\ node'[m].consumed = node[m].consumed
                               /\ m # p => node'[m].wait = node[m].wait
           /\ node'[p].wait = IF node[p].consumed THEN node[p].wait ELSE <<n>> \o node[p].wait
           /\ node[p].consumed => Then(a, Returned(n, p) \o <<Schedule(n)>>)
           /\ ~node[p].consumed => Then(a, Returned(n, p))
           /\ UNCHANGED <<ready, m_ready_count, running, futures, inside, respawns>>
      BY <1>11, DependentEffect, Zenon
    <2>2. PICK e \in Seq(Entry) : Then(a, e) /\ \A i \in DOMAIN e : e[i].n \in Created
      <3>1. PICK e : Then(a, e) /\ e \in {<<>>, <<Release(p)>>, <<Schedule(n)>>, <<Release(p), Schedule(n)>>}
        BY <2>1, EntryLists DEF Returned
      <3>2. e \in Seq(Entry)
        BY <3>1, EntryTypes, EntryLists
      <3>3. Range(e) \subseteq {Release(p), Schedule(n)}
        BY <3>1, Fronts
      <3>4. \A i \in DOMAIN e : e[i].n \in Created
        BY <3>3, <2>1, Listed, EntryFields
      <3> QED BY <3>1, <3>2, <3>4
    <2>3. \A m \in Tasks \ Created : node'[m] = node[m]
      BY <2>1, <1>f, SameNode
    <2>4. \A m \in Tasks : Range(node'[m].deps) \subseteq Range(node[m].deps)
      BY <2>1, NoElement
    <2>5. agenda[a] # <<>>
      BY <2>1 DEF Do
    <2> QED BY <2>1, <2>2, <2>3, <2>4, <2>5, <1>i, <1>t, ThenStep
  <1>12. ASSUME NEW a \in Actors, ScheduleAggregate(a) PROVE Types' /\ Numbered'
    <2>1. PICK n, p \in Tasks :
           /\ Do(a, "schedule") /\ n = The(a) /\ n \in Created /\ p \in Created /\ p # n
           /\ node[n].kind = "aggregate" /\ node[n].deps # <<>> /\ p = node[n].deps[1]
           /\ p \in Range(node[n].deps) /\ node'[n].deps = Tail(node[n].deps)
           /\ node' \in [Tasks -> NodeType]
           /\ \A m \in Tasks : m # n => node'[m].deps = node[m].deps
           /\ \A m \in Tasks : /\ node'[m].kind = node[m].kind /\ node'[m].ref = node[m].ref
                               /\ node'[m].after = node[m].after
                               /\ node'[m].consumed = node[m].consumed
                               /\ node'[m].flag <=> node[m].flag
                               /\ m # p => node'[m].wait = node[m].wait
           /\ node'[p].wait = IF node[p].consumed THEN node[p].wait ELSE <<n>> \o node[p].wait
           /\ node[p].consumed => Then(a, <<Release(p)>> \o <<Schedule(n)>>)
           /\ ~node[p].consumed => Then(a, <<Release(p)>> \o <<>>)
           /\ UNCHANGED <<ready, m_ready_count, running, futures, inside, respawns>>
      BY <1>12, AggregateEffect, Zenon
    <2>2. PICK e \in Seq(Entry) : Then(a, e) /\ \A i \in DOMAIN e : e[i].n \in Created
      <3>1. PICK e : Then(a, e) /\ e \in {<<Release(p)>>, <<Release(p), Schedule(n)>>}
        BY <2>1, EntryLists
      <3>2. e \in Seq(Entry)
        BY <3>1, EntryTypes, EntryLists
      <3>3. Range(e) \subseteq {Release(p), Schedule(n)}
        BY <3>1, Fronts
      <3>4. \A i \in DOMAIN e : e[i].n \in Created
        BY <3>3, <2>1, Listed, EntryFields
      <3> QED BY <3>1, <3>2, <3>4
    <2>3. \A m \in Tasks \ Created : node'[m] = node[m]
      BY <2>1, <1>f, SameNode
    <2>4. \A m \in Tasks : Range(node'[m].deps) \subseteq Range(node[m].deps)
      <3>1. node[n].deps \in Seq(Tasks)
        BY <1>f, FieldTypes
      <3>2. Range(node'[n].deps) \subseteq Range(node[n].deps)
        <4>1. PICK s \in Seq(Tasks) : s = node[n].deps /\ s # <<>>
          BY <3>1, <2>1
        <4>2. PICK r : r = Tail(s)
          OBVIOUS
        <4>3. Range(s) = Range(r) \cup {s[1]}
          BY <4>1, <4>2, TakeFirst
        <4>4. node'[n].deps = r
          BY <4>1, <4>2, <2>1
        <4> QED BY <4>1, <4>3, <4>4
      <3> QED BY <3>2, <2>1
    <2>5. agenda[a] # <<>>
      BY <2>1 DEF Do
    <2> QED BY <2>1, <2>2, <2>3, <2>4, <2>5, <1>i, <1>t, ThenStep
  <1>13. ASSUME NEW a \in Actors, DropFutures(a) PROVE Types' /\ Numbered'
    <2>1. PICK x \in Owners : x = Self(a)
      BY <1>13, <1>i, UserCodeOf DEF DropFutures
    <2>2. PICK ps \in SUBSET futures[x] :
            futures' = [futures EXCEPT ![x] = @ \ ps] /\ agenda' = [agenda EXCEPT ![a] = Releases(ps)]
      BY <1>13, <2>1 DEF DropFutures
    <2>d. ps \in SUBSET Tasks
      BY <1>i DEF Types
    <2>p. PICK r : r = Releases(ps)
      OBVIOUS
    <2>3. r \in Seq(Entry) /\ \A i \in DOMAIN r : r[i].n \in futures[x]
      BY <2>p, <2>d, ReleasesList, EntryFields
    <2>4. /\ futures' = [futures EXCEPT ![x] = @ \ ps] /\ agenda' = [agenda EXCEPT ![a] = r]
          /\ UNCHANGED <<node, ready, m_ready_count, running, inside, respawns>>
      BY <1>13, <2>2, <2>p DEF DropFutures
    <2>5. Types'
      BY <2>3, <2>4, <1>t DEF Types
    <2>6. futures[x] \subseteq Created
      BY <1>i DEF Numbered
    <2>7. Created' = Created
      BY <2>4 DEF Created
    <2>8. /\ agenda'[a] = r /\ \A b \in Actors : b # a => agenda'[b] = agenda[b]
      BY <2>4, <1>t
    <2>9. \A b \in Actors : \A i \in DOMAIN agenda'[b] :
            agenda'[b][i].do # "countdown" => agenda'[b][i].n \in Created'
      BY <2>3, <2>6, <2>7, <2>8, <1>i DEF Numbered
    <2>10. \A y \in Owners : futures'[y] \subseteq futures[y]
      BY <2>4, <1>t
    <2> QED BY <2>4, <2>5, <2>7, <2>9, <2>10, <1>i, SameNumbered DEF Numbered
  <1>14. ASSUME NEW a \in Actors, Finish(a) PROVE Types' /\ Numbered'
    <2>1. PICK x \in Tasks : x = running[a]
      BY <1>14, <1>t, MaxWorkAssumption DEF Finish, Tasks
    <2>2. x \in Created /\ x \in Owners
      <3>1. PICK at, by : PlacedAs(at, by)
        BY <1>i DEF Placed
      <3>2. at[x] = "runs" /\ (at[x] = "new" <=> x \notin Created)
        BY <1>14, <2>1, <3>1 DEF PlacedAs, Stands, Finish
      <3> QED BY <3>2 DEF Owners
    <2>3. /\ UNCHANGED <<node, ready, m_ready_count, inside, respawns>>
          /\ running' = [running EXCEPT ![a] = 0]
      BY <1>14 DEF Finish
    <2>4. \E e \in Seq(Entry) :
            /\ agenda' = [agenda EXCEPT ![a] = e]
            /\ \A i \in DOMAIN e : e[i].do # "countdown" => e[i].n \in Created
      <3>1. CASE node[x].flag
        <4>1. PICK e : e = <<Schedule(x), CountDown>>
          OBVIOUS
        <4>2. agenda' = [agenda EXCEPT ![a] = e]
          BY <3>1, <4>1, <1>14, <2>1 DEF Finish
        <4>3. e \in Seq(Entry) /\ DOMAIN e = {1, 2} /\ e[1] = Schedule(x) /\ e[2] = CountDown
          BY <4>1, RespawnList
        <4>4. \A i \in DOMAIN e : e[i].do # "countdown" => e[i].n \in Created
          BY <4>3, <2>2, EntryFields
        <4> QED BY <4>2, <4>3, <4>4
      <3>2. CASE ~node[x].flag
        <4>3. PICK e : e = Releases(futures[x]) \o Completion(x)
          OBVIOUS
        <4>4. agenda' = [agenda EXCEPT ![a] = e]
          BY <3>2, <4>3, <1>14, <2>1 DEF Finish
        <4>5. PICK drops \in Seq(Tasks) :
                (\A i \in DOMAIN drops : drops[i] \in futures[x]) /\ EndList(e, x, drops)
          BY <4>3, <1>i, FinishList
        <4>6. \A i \in DOMAIN drops : drops[i] \in Created
          BY <4>5, <1>i, <2>2 DEF Numbered
        <4>7. \A i \in DOMAIN e : e[i].do # "countdown" => e[i].n \in Created
          BY <4>5, <4>6, <2>2, EntryFields DEF EndList
        <4> QED BY <4>4, <4>5, <4>7 DEF EndList
      <3> QED BY <3>1, <3>2
    <2>5. PICK e \in Seq(Entry) :
            /\ agenda' = [agenda EXCEPT ![a] = e]
            /\ \A i \in DOMAIN e : e[i].do # "countdown" => e[i].n \in Created
      BY <2>4
    <2>6. /\ futures' \in [Owners -> SUBSET Tasks]
          /\ \A y \in Owners : futures'[y] \subseteq futures[y]
      BY <1>14, <1>t DEF Finish
    <2>7. Types'
      BY <2>3, <2>5, <2>6, <1>t, MaxWorkAssumption DEF Types
    <2>8. Created' = Created
      BY <2>3 DEF Created
    <2>9. /\ agenda'[a] = e /\ \A b \in Actors : b # a => agenda'[b] = agenda[b]
      BY <2>5, <1>t
    <2>10. \A b \in Actors : \A i \in DOMAIN agenda'[b] :
            agenda'[b][i].do # "countdown" => agenda'[b][i].n \in Created'
      BY <2>5, <2>8, <2>9, <1>i DEF Numbered
    <2> QED BY <2>3, <2>6, <2>7, <2>8, <2>10, <1>i, SameNumbered DEF Numbered
  <1>15. ASSUME NEW a \in Actors, Respawn(a) PROVE Types' /\ Numbered'
    <2>1. PICK x \in Tasks, deps \in Seq(Tasks) :
           /\ x = running[a]
           /\ Range(deps) \subseteq futures[x] /\ Len(deps) <= 1 /\ x \notin Range(deps)
           /\ node' \in [Tasks -> NodeType]
           /\ \A m \in Tasks : m # x =>
                /\ m \notin Range(deps) => node'[m] = node[m]
                /\ m \in Range(deps) => node'[m].ref = node[m].ref + 1
                /\ node'[m].deps = node[m].deps /\ node'[m].flag = node[m].flag
                /\ node'[m].after = node[m].after
           /\ \A m \in Tasks :
                /\ node'[m].kind = node[m].kind /\ node'[m].wait = node[m].wait
                /\ node'[m].consumed = node[m].consumed
           /\ node'[x].ref = node[x].ref /\ node'[x].deps = deps /\ node'[x].flag = TRUE
           /\ node'[x].after = Range(deps)
      BY <1>15, RespawnEffect, Zenon
    <2>2. x \in Created /\ x \in Owners
      <3>1. PICK at, by : PlacedAs(at, by)
        BY <1>i DEF Placed
      <3>2. running[a] # 0
        BY <2>1, MaxWorkAssumption DEF Tasks
      <3>3. at[x] = "runs" /\ (at[x] = "new" <=> x \notin Created)
        BY <3>2, <2>1, <3>1 DEF PlacedAs, Stands
      <3> QED BY <3>3 DEF Owners
    <2>3. /\ MayWork /\ respawns' = respawns + 1
          /\ UNCHANGED <<ready, m_ready_count, agenda, running, futures, inside>>
      BY <1>15 DEF Respawn
    <2>4. Types'
      BY <2>1, <2>3, <1>t DEF Types
    <2>5. Created' = Created
      BY <2>1 DEF Created
    <2>6. PICK k \in 0 .. MaxWork : Created = 1 .. k /\ k + respawns <= MaxWork
      BY <1>i DEF Numbered
    <2>7. k + respawns' <= MaxWork
      <3>1. Cardinality(Created) = k
        BY <2>6, FS_Interval, MaxWorkAssumption
      <3> QED BY <3>1, <2>3, <2>6, <1>t, MaxWorkAssumption DEF MayWork
    <2>8. futures[x] \subseteq Created
      BY <2>2, <1>i DEF Numbered
    <2>9. \A m \in Tasks \ Created : node'[m] = Unused /\ futures'[m] = {}
      BY <2>1, <2>2, <2>3, <2>8, <1>i DEF Numbered
    <2>10. \A m \in Tasks : Range(node'[m].deps) \subseteq Created
      BY <2>1, <2>8, <1>i DEF Numbered
    <2> QED BY <2>3, <2>4, <2>5, <2>6, <2>7, <2>9, <2>10, <1>i DEF Numbered
  <1>16. ASSUME NEW a \in Actors, NEW n \in Tasks, Spawn(a, n) \/ WhenAll(a, n) PROVE Types' /\ Numbered'
    <2>1. /\ InUserCode(a) /\ Fresh(n)
          /\ agenda' = [agenda EXCEPT ![a] = <<Schedule(n)>>]
          /\ UNCHANGED <<ready, m_ready_count, running, inside, respawns>>
      BY <1>16 DEF Spawn, WhenAll
    <2>2. /\ node' \in [Tasks -> NodeType] /\ node'[n].kind # "unused"
          /\ Range(node'[n].deps) \subseteq futures[Self(a)]
          /\ \A m \in Tasks : m # n => node'[m].kind = node[m].kind /\ node'[m].deps = node[m].deps
          /\ \A m \in Tasks : m # n /\ m \notin futures[Self(a)] => node'[m] = node[m]
          /\ \E given : Hands(Self(a), n, given)
      <3>1. CASE Spawn(a, n)
        BY <3>1, SpawnEffect
      <3>2. CASE WhenAll(a, n)
        BY <3>2, WhenAllEffect
      <3> QED BY <3>1, <3>2, <1>16
    <2>3. futures[Self(a)] \subseteq Created
      BY <2>1, <1>i, UserCodeOf DEF Numbered
    <2>4. \A m \in Tasks : m # n /\ m \notin Created => node'[m] = node[m]
      BY <2>2, <2>3
    <2>5. PICK given : Hands(Self(a), n, given)
      BY <2>2
    <2> QED BY <2>1, <2>2, <2>4, <2>5, NewNumbered
  <1> QED BY <1>1, <1>2, <1>3, <1>4, <1>5, <1>6, <1>7, <1>8, <1>9, <1>10, <1>11, <1>12,
             <1>13, <1>14, <1>15, <1>16, NextCases

-----------------------------------------------------------------------------
\* Every task stays at one place.

\* Is the head of a's work the place of n?
AtHead(a, n) == Carrier(agenda[a][1]) /\ n = agenda[a][1].n

\* The places at, by agree with what the actors have to do.
TodoPlaced(at, by) == \A b \in Actors : CarriedBy(agenda[b], b, at, by) /\ Once(agenda[b])

\* e carries tasks that nobody carries, but the head of a's work.
FrontFree(a, e, at) == \A n \in Tasks : Carries(e, n) => at[n] # "todo" \/ AtHead(a, n)

\* The tasks that are carried, except the head of a's work, stay where they are.
OthersStay(a, at, by, at2, by2) ==
    \A n \in Tasks : at[n] = "todo" /\ by[n] \in Actors /\ ~AtHead(a, n) =>
        at2[n] = "todo" /\ by2[n] = by[n]

\* The head of a's work is replaced by e.
LEMMA TodoMoves ==
  ASSUME Types, NEW at, NEW by, PlacedAs(at, by), TodoPlaced(at, by),
         NEW a \in Actors, NEW e \in Seq(Entry), Then(a, e), agenda[a] # <<>>, Once(e),
         NEW at2, NEW by2, CarriedBy(e, a, at2, by2),
         FrontFree(a, e, at), OthersStay(a, at, by, at2, by2)
  PROVE  /\ TodoPlaced(at2, by2)'
         /\ \A n \in Tasks : Carries(e, n) => Carries(agenda'[a], n)
         /\ \A n \in Tasks : at[n] = "todo" /\ ~AtHead(a, n) => Carries(agenda'[by[n]], n)
  <1>1. PICK s \in Seq(Entry) : s = agenda[a] /\ s # <<>> /\ 1 \in DOMAIN s /\ s[1] \in Entry
    BY DEF Types
  <1>2. PICK r : r = e \o Tail(s)
    OBVIOUS
  <1>3. agenda'[a] = r /\ \A b \in Actors : b # a => agenda'[b] = agenda[b]
    BY <1>1, <1>2, ThenTodo
  <1>4. CarriedBy(s, a, at, by) /\ Once(s)
    BY <1>1 DEF TodoPlaced
  <1>5. \A n : AtHead(a, n) <=> Carrier(s[1]) /\ n = s[1].n
    BY <1>1 DEF AtHead
  <1>6. /\ CarriedBy(r, a, at2, by2) /\ Once(r)
        /\ \A n \in Tasks : Carries(e, n) => Carries(r, n)
        /\ \A n \in Tasks : Carries(s, n) /\ ~(Carrier(s[1]) /\ n = s[1].n) => Carries(r, n)
    <2>1. FrontIsNew(s, e, at)
      BY <1>5 DEF FrontIsNew, FrontFree
    <2>2. RestStays(s, a, at, by, at2, by2)
      BY <1>5 DEF RestStays, OthersStay
    <2>3. s # <<>>
      BY <1>1
    <2>4. CarriedBy(r, a, at2, by2) /\ Once(r) /\ Replaced(s, e, r)
      BY <1>2, <1>4, <2>1, <2>2, <2>3, ThenCarries
    <2> QED BY <2>4 DEF Replaced
  <1>7. ASSUME NEW n, AtHead(a, n) PROVE at[n] = "todo" /\ by[n] = a
    BY <1>1, <1>4, <1>5, <1>7 DEF CarriedBy
  <1>8. ASSUME NEW b \in Actors, b # a PROVE CarriedBy(agenda[b], b, at2, by2)
    <2> SUFFICES ASSUME NEW i \in DOMAIN agenda[b], Carrier(agenda[b][i])
                 PROVE  at2[agenda[b][i].n] = "todo" /\ by2[agenda[b][i].n] = b
      BY DEF CarriedBy
    <2>1. PICK m : m = agenda[b][i].n
      OBVIOUS
    <2>2. at[m] = "todo" /\ by[m] = b
      BY <2>1 DEF PlacedAs, Stands, CarriedBy
    <2>3. m \in Tasks
      <3>1. agenda[b] \in Seq(Entry)
        BY DEF Types
      <3>2. agenda[b][i] \in Entry
        BY <3>1
      <3> QED BY <3>2, <2>1 DEF Entry, Carrier, CountDown
    <2>4. ~AtHead(a, m)
      BY <2>2, <1>7, <1>8
    <2> QED BY <2>1, <2>2, <2>3, <2>4 DEF OthersStay
  <1>9. ASSUME NEW n \in Tasks, at[n] = "todo", ~AtHead(a, n) PROVE Carries(agenda'[by[n]], n)
    <2>1. by[n] \in Actors /\ Carries(agenda[by[n]], n)
      BY <1>9 DEF PlacedAs, Stands
    <2>2. CASE by[n] = a
      BY <2>1, <2>2, <1>1, <1>3, <1>5, <1>6, <1>9
    <2>3. CASE by[n] # a
      BY <2>1, <2>3, <1>3
    <2> QED BY <2>2, <2>3
  <1>10. ASSUME NEW b \in Actors PROVE CarriedBy(agenda'[b], b, at2, by2) /\ Once(agenda'[b])
    <2>1. CASE b = a
      BY <2>1, <1>3, <1>6
    <2>2. CASE b # a
      BY <2>2, <1>3, <1>8 DEF TodoPlaced
    <2> QED BY <2>1, <2>2
  <1> QED BY <1>3, <1>6, <1>9, <1>10 DEF TodoPlaced

AllStay(at, by, at2, by2) ==
    \A n \in Tasks : at[n] = "todo" /\ by[n] \in Actors => at2[n] = "todo" /\ by2[n] = by[n]

\* a enters the scheduler's code.
LEMMA TodoStarts ==
  ASSUME Types, NEW at, NEW by, PlacedAs(at, by), TodoPlaced(at, by),
         NEW a \in Actors, NEW e \in Seq(Entry), agenda' = [agenda EXCEPT ![a] = e], agenda[a] = <<>>,
         Once(e), NEW at2, NEW by2, CarriedBy(e, a, at2, by2),
         AllStay(at, by, at2, by2)
  PROVE  /\ TodoPlaced(at2, by2)'
         /\ \A n \in Tasks : Carries(e, n) => Carries(agenda'[a], n)
         /\ \A n \in Tasks : at[n] = "todo" => Carries(agenda'[by[n]], n)
  <1>1. agenda'[a] = e /\ \A b \in Actors : b # a => agenda'[b] = agenda[b]
    BY DEF Types
  <1>2. \A n : ~Carries(agenda[a], n)
    BY NoElement DEF Carries
  <1>8. ASSUME NEW b \in Actors, b # a PROVE CarriedBy(agenda[b], b, at2, by2)
    <2> SUFFICES ASSUME NEW i \in DOMAIN agenda[b], Carrier(agenda[b][i])
                 PROVE  at2[agenda[b][i].n] = "todo" /\ by2[agenda[b][i].n] = b
      BY DEF CarriedBy
    <2>1. PICK m : m = agenda[b][i].n
      OBVIOUS
    <2>2. at[m] = "todo" /\ by[m] = b
      BY <2>1 DEF PlacedAs, Stands, CarriedBy
    <2>3. m \in Tasks
      <3>1. agenda[b] \in Seq(Entry)
        BY DEF Types
      <3>2. agenda[b][i] \in Entry
        BY <3>1
      <3> QED BY <3>2, <2>1 DEF Entry, Carrier, CountDown
    <2> QED BY <2>1, <2>2, <2>3 DEF AllStay
  <1>9. ASSUME NEW n \in Tasks, at[n] = "todo" PROVE Carries(agenda'[by[n]], n)
    <2>1. by[n] \in Actors /\ Carries(agenda[by[n]], n)
      BY <1>9 DEF PlacedAs, Stands
    <2>2. by[n] # a
      BY <2>1, <1>2
    <2> QED BY <2>1, <2>2, <1>1
  <1>10. ASSUME NEW b \in Actors PROVE CarriedBy(agenda'[b], b, at2, by2) /\ Once(agenda'[b])
    <2>1. CASE b = a
      BY <2>1, <1>1
    <2>2. CASE b # a
      BY <2>2, <1>1, <1>8 DEF TodoPlaced
    <2> QED BY <2>1, <2>2
  <1> QED BY <1>1, <1>9, <1>10 DEF TodoPlaced

OthersStand(n, at, by) == \A m \in Tasks : m # n => Stands(m, at[m], by[m])

\* Task n moves, and the others stay where they are.
LEMMA Moves ==
  ASSUME NEW at, NEW by, PlacedAs(at, by), NEW n \in Tasks, NEW st \in Stages,
         NEW who \in Actors \cup Tasks,
         NEW at2, at2 = [at EXCEPT ![n] = st], NEW by2, by2 = [by EXCEPT ![n] = who],
         Stands(n, st, who)', OthersStand(n, at, by)', TodoPlaced(at2, by2)'
  PROVE  PlacedAs(at2, by2)'
  <1>1. /\ at2 \in [Tasks -> Stages] /\ by2 \in [Tasks -> Actors \cup Tasks]
        /\ at2[n] = st /\ by2[n] = who
        /\ \A m \in Tasks : m # n => at2[m] = at[m] /\ by2[m] = by[m]
    BY DEF PlacedAs
  <1>2. ASSUME NEW m \in Tasks PROVE Stands(m, at2[m], by2[m])'
    <2>1. CASE m = n
      BY <2>1, <1>1
    <2>2. CASE m # n
      BY <2>2, <1>1 DEF OthersStand
    <2> QED BY <2>1, <2>2
  <1> QED BY <1>1, <1>2 DEF PlacedAs, TodoPlaced

\* Who stands where he stood.
LEMMA StandsStill ==
  ASSUME NEW m \in Tasks, NEW st, NEW who, Stands(m, st, who),
         m \in Created' <=> m \in Created, node'[m].consumed <=> node[m].consumed,
         m \in ready' <=> m \in ready,
         \A b \in Actors : running'[b] = m <=> running[b] = m,
         \A p \in Tasks : m \in Range(node'[p].wait) <=> m \in Range(node[p].wait),
         st = "todo" => Carries(agenda'[who], m)
  PROVE  Stands(m, st, who)'
  BY DEF Stands

\* All tasks stay where they are.
LEMMA Stays ==
  ASSUME Types, NEW at, NEW by, PlacedAs(at, by),
         Created' = Created, ready' = ready,
         \A m \in Tasks :
            /\ node'[m].consumed <=> node[m].consumed
            /\ \A b \in Actors : running'[b] = m <=> running[b] = m
            /\ \A p \in Tasks : m \in Range(node'[p].wait) <=> m \in Range(node[p].wait),
         TodoPlaced(at, by)',
         \A m \in Tasks : at[m] = "todo" => Carries(agenda'[by[m]], m)
  PROVE  PlacedAs(at, by)'
  BY DEF PlacedAs, Stands, TodoPlaced

\* Entries that carry nothing, or one task.
LEMMA CarryNothing ==
  ASSUME NEW e, \A i \in DOMAIN e : ~Carrier(e[i]), NEW a, NEW at, NEW by
  PROVE  CarriedBy(e, a, at, by) /\ Once(e) /\ \A n : ~Carries(e, n)
  BY DEF CarriedBy, Once, Carries

LEMMA CarryOne ==
  ASSUME NEW e, NEW n, \A i \in DOMAIN e : Carrier(e[i]) => e[i].n = n, NEW a, NEW at, NEW by
  PROVE  /\ at[n] = "todo" /\ by[n] = a => CarriedBy(e, a, at, by)
         /\ \A m : Carries(e, m) => m = n
  BY DEF CarriedBy, Carries

\* The steps in which tasks keep their places.
LEMMA PlacedQuiet ==
  ASSUME TaskInv, Created' = Created, ready' = ready, running' = running,
         \A m \in Tasks : node'[m].wait = node[m].wait /\ (node'[m].consumed <=> node[m].consumed),
         \/ agenda' = agenda
         \/ \E a \in Actors : Then(a, <<>>) /\ agenda[a] # <<>> /\ ~Carrier(agenda[a][1])
         \/ \E a \in Actors : \E e \in Seq(Entry) :
              /\ agenda[a] = <<>> /\ agenda' = [agenda EXCEPT ![a] = e]
              /\ \A i \in DOMAIN e : ~Carrier(e[i])
  PROVE  Placed'
  <1>1. Types /\ Placed
    BY DEF TaskInv
  <1>2. PICK at, by : PlacedAs(at, by)
    BY <1>1 DEF Placed
  <1>p. TodoPlaced(at, by)
    BY <1>1, <1>2 DEF Placed, PlacedAs, Stands, TodoPlaced
  <1>3. /\ TodoPlaced(at, by)'
        /\ \A n \in Tasks : at[n] = "todo" => Carries(agenda'[by[n]], n)
    <2>1. CASE agenda' = agenda
      BY <2>1, <1>p, <1>2 DEF PlacedAs, Stands, TodoPlaced
    <2>2. ASSUME NEW a \in Actors, Then(a, <<>>), agenda[a] # <<>>, ~Carrier(agenda[a][1])
          PROVE  <1>3!:
      <3>1. PICK e \in Seq(Entry) : e = <<>>
        BY EmptySeq
      <3>2. Once(e) /\ CarriedBy(e, a, at, by) /\ \A n : ~Carries(e, n)
        BY <3>1, NoElement, CarryNothing
      <3>3. FrontFree(a, e, at) /\ OthersStay(a, at, by, at, by) /\ \A n : ~AtHead(a, n)
        BY <2>2, <3>2 DEF AtHead, FrontFree, OthersStay
      <3>4. Then(a, e)
        BY <2>2, <3>1
      <3> QED BY <3>2, <3>3, <3>4, <2>2, <1>1, <1>2, <1>p, TodoMoves
    <2>3. ASSUME NEW a \in Actors, NEW e \in Seq(Entry), agenda[a] = <<>>,
                 agenda' = [agenda EXCEPT ![a] = e], \A i \in DOMAIN e : ~Carrier(e[i])
          PROVE  <1>3!:
      <3>1. Once(e) /\ CarriedBy(e, a, at, by) /\ \A n : ~Carries(e, n)
        BY <2>3, CarryNothing
      <3>2. AllStay(at, by, at, by)
        BY DEF AllStay
      <3> QED BY <3>1, <3>2, <2>3, <1>1, <1>2, <1>p, TodoStarts
    <2> QED BY <2>1, <2>2, <2>3
  <1>4. PlacedAs(at, by)'
    BY <1>1, <1>2, <1>3, Stays
  <1>5. \A p \in Tasks : IsInjective(node'[p].wait) /\ (node'[p].consumed => node'[p].wait = <<>>)
    BY <1>1 DEF Placed
  <1> QED BY <1>3, <1>4, <1>5 DEF Placed, TodoPlaced

\* A task that is created, or whose functor returns: a begins to work on it.
LEMMA PlacedStarts ==
  ASSUME TaskInv, NEW a \in Actors, NEW n \in Tasks, NEW e \in Seq(Entry),
         agenda[a] = <<>>, agenda' = [agenda EXCEPT ![a] = e], Once(e), Carries(e, n),
         \A i \in DOMAIN e : Carrier(e[i]) => e[i].n = n,
         n \in Created' /\ ~node'[n].consumed, ready' = ready,
         \A m \in Tasks : m # n =>
            /\ m \in Created' <=> m \in Created
            /\ node'[m].consumed <=> node[m].consumed
            /\ \A b \in Actors : running'[b] = m <=> running[b] = m,
         \A m \in Tasks : node'[m].wait = node[m].wait,
         \A b \in Actors : running'[b] # n,
         \/ n \notin Created
         \/ running[a] = n
  PROVE  Placed'
  <1>1. Types /\ Placed
    BY DEF TaskInv
  <1>2. PICK at, by : PlacedAs(at, by)
    BY <1>1 DEF Placed
  <1>p. TodoPlaced(at, by)
    BY <1>1, <1>2 DEF Placed, PlacedAs, Stands, TodoPlaced
  <1>3. PICK at2 : at2 = [at EXCEPT ![n] = "todo"]
    OBVIOUS
  <1>4. PICK by2 : by2 = [by EXCEPT ![n] = a]
    OBVIOUS
  <1>5. at \in [Tasks -> Stages] /\ by \in [Tasks -> Actors \cup Tasks] /\ at[n] \in {"new", "runs"}
    BY <1>2 DEF PlacedAs, Stands
  <1>6. at2[n] = "todo" /\ by2[n] = a /\ \A m \in Tasks : m # n => at2[m] = at[m] /\ by2[m] = by[m]
    BY <1>3, <1>4, <1>5
  <1>7. CarriedBy(e, a, at2, by2)
    BY <1>6, CarryOne
  <1>8. AllStay(at, by, at2, by2)
    BY <1>5, <1>6 DEF AllStay
  <1>9. /\ TodoPlaced(at2, by2)'
        /\ \A m \in Tasks : Carries(e, m) => Carries(agenda'[a], m)
        /\ \A m \in Tasks : at[m] = "todo" => Carries(agenda'[by[m]], m)
    BY <1>1, <1>2, <1>p, <1>7, <1>8, TodoStarts
  <1>10. n \notin ready /\ \A p \in Tasks : n \notin Range(node[p].wait)
    BY <1>2, <1>5 DEF PlacedAs, Stands
  <1>11. PlacedAs(at2, by2)'
    <2>1. "todo" \in Stages /\ a \in Actors \cup Tasks
      BY DEF Stages
    <2>2. Stands(n, "todo", a)'
      BY <1>9, <1>10 DEF Stands
    <2>3. OthersStand(n, at, by)'
      <3> SUFFICES ASSUME NEW m \in Tasks, m # n PROVE Stands(m, at[m], by[m])'
        BY DEF OthersStand
      <3>1. Stands(m, at[m], by[m])
        BY <1>2 DEF PlacedAs
      <3> QED BY <3>1, <1>9, StandsStill
    <2> QED BY <2>1, <2>2, <2>3, <1>2, <1>3, <1>4, <1>9, Moves
  <1>12. \A p \in Tasks : IsInjective(node'[p].wait) /\ (node'[p].consumed => node'[p].wait = <<>>)
    BY <1>1 DEF Placed
  <1> QED BY <1>9, <1>11, <1>12 DEF Placed, TodoPlaced

\* A ready task begins to run.
LEMMA PlacedRuns ==
  ASSUME TaskInv, NEW a \in Actors, NEW n \in Tasks, n \in ready, running[a] = 0,
         ready' = ready \ {n}, running' = [running EXCEPT ![a] = n], UNCHANGED <<node, agenda>>
  PROVE  Placed'
  <1>1. Types /\ Placed
    BY DEF TaskInv
  <1>2. PICK at, by : PlacedAs(at, by)
    BY <1>1 DEF Placed
  <1>p. TodoPlaced(at, by)
    BY <1>1, <1>2 DEF Placed, PlacedAs, Stands, TodoPlaced
  <1>3. PICK at2 : at2 = [at EXCEPT ![n] = "runs"]
    OBVIOUS
  <1>4. PICK by2 : by2 = [by EXCEPT ![n] = a]
    OBVIOUS
  <1>5. at \in [Tasks -> Stages] /\ by \in [Tasks -> Actors \cup Tasks] /\ at[n] = "ready"
    BY <1>2 DEF PlacedAs, Stands
  <1>6. at2[n] = "runs" /\ by2[n] = a /\ \A m \in Tasks : m # n => at2[m] = at[m] /\ by2[m] = by[m]
    BY <1>3, <1>4, <1>5
  <1>7. TodoPlaced(at2, by2)'
    <2>1. ASSUME NEW b \in Actors PROVE CarriedBy(agenda[b], b, at2, by2)
      <3> SUFFICES ASSUME NEW i \in DOMAIN agenda[b], Carrier(agenda[b][i])
                   PROVE  at2[agenda[b][i].n] = "todo" /\ by2[agenda[b][i].n] = b
        BY DEF CarriedBy
      <3>1. agenda[b] \in Seq(Entry)
        BY <1>1 DEF Types
      <3>2. agenda[b][i] \in Entry
        BY <3>1
      <3>3. agenda[b][i].n \in Tasks
        BY <3>2 DEF Entry, Carrier, CountDown
      <3>4. at[agenda[b][i].n] = "todo" /\ by[agenda[b][i].n] = b
        BY <1>p DEF TodoPlaced, CarriedBy
      <3> QED BY <3>3, <3>4, <1>5, <1>6
    <2> QED BY <2>1, <1>p DEF TodoPlaced
  <1>8. \A m \in Tasks : at[m] = "todo" => Carries(agenda'[by[m]], m)
    BY <1>2 DEF PlacedAs, Stands
  <1>9. Created' = Created /\ n \in Created /\ ~node[n].consumed
        /\ \A p \in Tasks : n \notin Range(node[p].wait)
    BY <1>2, <1>5 DEF PlacedAs, Stands, Created
  <1>10. \A b \in Actors : running[b] # n
    BY <1>2, <1>5 DEF PlacedAs, Stands
  <1>11. /\ \A m \in Tasks : m # n => \A b \in Actors : running'[b] = m <=> running[b] = m
         /\ \A b \in Actors : running'[b] = n <=> a = b
    <2>1. running'[a] = n /\ \A b \in Actors : b # a => running'[b] = running[b]
      BY <1>1 DEF Types
    <2>2. \A m \in Tasks : m # 0
      BY MaxWorkAssumption DEF Tasks
    <2> QED BY <2>1, <2>2, <1>10
  <1>12. PlacedAs(at2, by2)'
    <2>1. "runs" \in Stages /\ a \in Actors \cup Tasks
      BY DEF Stages
    <2>2. Stands(n, "runs", a)'
      BY <1>9, <1>11 DEF Stands
    <2>3. OthersStand(n, at, by)'
      <3> SUFFICES ASSUME NEW m \in Tasks, m # n PROVE Stands(m, at[m], by[m])'
        BY DEF OthersStand
      <3>1. Stands(m, at[m], by[m])
        BY <1>2 DEF PlacedAs
      <3> QED BY <3>1, <1>8, <1>9, <1>11, StandsStill
    <2> QED BY <2>1, <2>2, <2>3, <1>2, <1>3, <1>4, <1>7, Moves
  <1>13. \A p \in Tasks : IsInjective(node'[p].wait) /\ (node'[p].consumed => node'[p].wait = <<>>)
    BY <1>1 DEF Placed
  <1> QED BY <1>7, <1>12, <1>13 DEF Placed, TodoPlaced

\* a carries task n one step further.
LEMMA PlacedSteps ==
  ASSUME TaskInv, NEW a \in Actors, NEW n \in Tasks, NEW e \in Seq(Entry), Then(a, e),
         agenda[a] # <<>>, AtHead(a, n), Once(e), \A i \in DOMAIN e : Carrier(e[i]) => e[i].n = n,
         NEW st \in {"todo", "waits", "ready"}, NEW who \in Actors \cup Tasks,
         st = "todo" => who = a, st = "todo" <=> Carries(e, n), st = "waits" => who \in Tasks,
         Created' = Created, running' = running,
         \A m \in Tasks : node'[m].consumed <=> node[m].consumed,
         \A m \in Tasks : m # n => (m \in ready' <=> m \in ready),
         n \in ready' <=> st = "ready",
         \A m, p \in Tasks : m # n => (m \in Range(node'[p].wait) <=> m \in Range(node[p].wait)),
         \A p \in Tasks : n \in Range(node'[p].wait) <=> st = "waits" /\ who = p,
         \A p \in Tasks : IsInjective(node'[p].wait) /\ (node'[p].consumed => node'[p].wait = <<>>)
  PROVE  Placed'
  <1>1. Types /\ Placed
    BY DEF TaskInv
  <1>2. PICK at, by : PlacedAs(at, by)
    BY <1>1 DEF Placed
  <1>p. TodoPlaced(at, by)
    BY <1>1, <1>2 DEF Placed, PlacedAs, TodoPlaced
  <1>3. PICK at2 : at2 = [at EXCEPT ![n] = st]
    OBVIOUS
  <1>4. PICK by2 : by2 = [by EXCEPT ![n] = who]
    OBVIOUS
  <1>5. at \in [Tasks -> Stages] /\ by \in [Tasks -> Actors \cup Tasks]
        /\ at[n] = "todo" /\ by[n] = a
    <2>1. agenda[a] \in Seq(Entry)
      BY <1>1 DEF Types
    <2>2. 1 \in DOMAIN agenda[a]
      BY <2>1
    <2> QED BY <2>2, <1>2 DEF PlacedAs, CarriedBy, AtHead
  <1>6. at2[n] = st /\ by2[n] = who /\ \A m \in Tasks : m # n => at2[m] = at[m] /\ by2[m] = by[m]
    BY <1>3, <1>4, <1>5
  <1>7. CarriedBy(e, a, at2, by2)
    <2>1. CASE Carries(e, n)
      BY <2>1, <1>6, CarryOne
    <2>2. CASE ~Carries(e, n)
      <3>1. \A i \in DOMAIN e : ~Carrier(e[i])
        BY <2>2 DEF Carries
      <3> QED BY <3>1, CarryNothing
    <2> QED BY <2>1, <2>2
  <1>8. FrontFree(a, e, at)
    BY CarryOne DEF FrontFree
  <1>9. OthersStay(a, at, by, at2, by2)
    BY <1>6 DEF OthersStay
  <1>10. /\ TodoPlaced(at2, by2)'
         /\ \A m \in Tasks : Carries(e, m) => Carries(agenda'[a], m)
         /\ \A m \in Tasks : at[m] = "todo" /\ ~AtHead(a, m) => Carries(agenda'[by[m]], m)
    BY <1>1, <1>2, <1>p, <1>7, <1>8, <1>9, TodoMoves
  <1>11. /\ n \in Created /\ ~node[n].consumed /\ \A b \in Actors : running[b] # n
    BY <1>2, <1>5 DEF PlacedAs, Stands
  <1>12. \A m : AtHead(a, m) => m = n
    BY DEF AtHead
  <1>13. PlacedAs(at2, by2)'
    <2>1. st \in Stages
      BY DEF Stages
    <2>2. Stands(n, st, who)'
      BY <1>10, <1>11 DEF Stands
    <2>3. OthersStand(n, at, by)'
      <3> SUFFICES ASSUME NEW m \in Tasks, m # n PROVE Stands(m, at[m], by[m])'
        BY DEF OthersStand
      <3>1. Stands(m, at[m], by[m])
        BY <1>2 DEF PlacedAs
      <3>2. at[m] = "todo" => Carries(agenda'[by[m]], m)
        BY <1>10, <1>12
      <3> QED BY <3>1, <3>2, StandsStill
    <2> QED BY <2>1, <2>2, <2>3, <1>2, <1>3, <1>4, <1>10, Moves
  <1> QED BY <1>10, <1>13 DEF Placed, TodoPlaced

\* A task is complete, and a goes on with those that wait for it.
LEMMA PlacedCompletes ==
  ASSUME TaskInv, NEW a \in Actors, CompleteTask(a)
  PROVE  Placed'
  <1>1. Types /\ Placed /\ Numbered
    BY DEF TaskInv
  <1>2. PICK n \in Tasks, waiting \in Seq(Tasks), schedules \in Seq(Entry) :
           /\ Do(a, "complete") /\ n = The(a) /\ n \in Created /\ waiting = node[n].wait
           /\ Len(schedules) = Len(waiting) /\ DOMAIN schedules = DOMAIN waiting
           /\ \A i \in DOMAIN waiting : schedules[i] = Schedule(waiting[i])
           /\ node' \in [Tasks -> NodeType]
           /\ \A m \in Tasks : m # n => node'[m] = node[m]
           /\ node'[n].wait = <<>> /\ node'[n].consumed
           /\ node'[n].kind = node[n].kind
           /\ Then(a, schedules \o <<Release(n)>>)
           /\ UNCHANGED <<ready, m_ready_count, running, futures, inside, respawns>>
    BY CompleteEffect
  <1>3. PICK at, by : PlacedAs(at, by)
    BY <1>1 DEF Placed
  <1>p. TodoPlaced(at, by)
    BY <1>1, <1>3 DEF Placed, PlacedAs, TodoPlaced
  <1>4. IsInjective(waiting) /\ Range(waiting) \subseteq Tasks
        /\ \A m \in Tasks : m \in Range(waiting) <=> at[m] = "waits" /\ by[m] = n
    BY <1>1, <1>2, <1>3 DEF Placed, PlacedAs, Stands, Range
  <1>5. PICK e : e = schedules \o <<Release(n)>>
    OBVIOUS
  <1>6. /\ e \in Seq(Entry) /\ Once(e)
        /\ \A i \in DOMAIN e : e[i] = Release(n) \/ \E m \in Range(waiting) : e[i] = Schedule(m)
        /\ \A m \in Range(waiting) : \E i \in DOMAIN e : e[i] = Schedule(m)
    <2>1. ScheduleList(schedules, waiting)
      BY <1>2 DEF ScheduleList
    <2>2. CompleteList(e, n, waiting)
      BY <2>1, <1>4, <1>5, CompletionList
    <2> QED BY <2>2 DEF CompleteList
  <1>7. \A m \in Tasks : Carries(e, m) <=> m \in Range(waiting)
    <2>1. ASSUME NEW m \in Tasks, Carries(e, m) PROVE m \in Range(waiting)
      <3>1. PICK i \in DOMAIN e : Carrier(e[i]) /\ e[i].n = m
        BY <2>1 DEF Carries
      <3> QED BY <3>1, <1>6, EntryFields
    <2>2. ASSUME NEW m \in Range(waiting) PROVE Carries(e, m)
      <3>1. PICK i \in DOMAIN e : e[i] = Schedule(m)
        BY <1>6
      <3> QED BY <3>1, EntryFields DEF Carries
    <2> QED BY <2>1, <2>2
  <1>8. at \in [Tasks -> Stages] /\ by \in [Tasks -> Actors \cup Tasks]
        /\ at[n] = "todo" /\ by[n] = a /\ AtHead(a, n) /\ agenda[a] # <<>>
    <2>1. agenda[a] \in Seq(Entry) /\ agenda[a] # <<>> /\ 1 \in DOMAIN agenda[a] /\ agenda[a][1].do = "complete"
          /\ agenda[a][1].n = n
      BY <1>1, <1>2, HeadEntry
    <2>2. AtHead(a, n)
      BY <2>1 DEF AtHead, Carrier
    <2> QED BY <2>1, <2>2, <1>3 DEF PlacedAs, CarriedBy, AtHead
  <1>9. PICK at2 : at2 = [m \in Tasks |-> IF m = n THEN "done" ELSE IF m \in Range(waiting) THEN "todo" ELSE at[m]]
    OBVIOUS
  <1>10. PICK by2 : by2 = [m \in Tasks |-> IF m \in Range(waiting) THEN a ELSE by[m]]
    OBVIOUS
  <1>11. n \notin Range(waiting) /\ \A m : AtHead(a, m) => m = n
    BY <1>4, <1>8 DEF AtHead
  <1>12. CarriedBy(e, a, at2, by2)
    <2> SUFFICES ASSUME NEW i \in DOMAIN e, Carrier(e[i])
                 PROVE  at2[e[i].n] = "todo" /\ by2[e[i].n] = a
      BY DEF CarriedBy
    <2>1. PICK m \in Range(waiting) : e[i] = Schedule(m)
      BY <1>6, EntryFields
    <2>2. e[i].n = m /\ m \in Tasks /\ m # n
      BY <2>1, <1>4, <1>11, EntryFields
    <2> QED BY <2>2, <1>9, <1>10
  <1>13. FrontFree(a, e, at)
    BY <1>4, <1>7 DEF FrontFree
  <1>14. OthersStay(a, at, by, at2, by2)
    BY <1>4, <1>8, <1>9, <1>10 DEF OthersStay
  <1>15. /\ TodoPlaced(at2, by2)'
         /\ \A m \in Tasks : Carries(e, m) => Carries(agenda'[a], m)
         /\ \A m \in Tasks : at[m] = "todo" /\ ~AtHead(a, m) => Carries(agenda'[by[m]], m)
    <2>1. Then(a, e) /\ e \in Seq(Entry) /\ Once(e)
      BY <1>2, <1>5, <1>6
    <2> QED BY <2>1, <1>1, <1>3, <1>p, <1>8, <1>12, <1>13, <1>14, TodoMoves
  <1>16. Created' = Created
    <2>1. \A m \in Tasks : node'[m].kind = node[m].kind
      BY <1>2
    <2> QED BY <2>1 DEF Created
  <1>17. ASSUME NEW m \in Tasks PROVE Stands(m, at2[m], by2[m])'
    <2>1. Stands(m, at[m], by[m])
      BY <1>3 DEF PlacedAs
    <2>2. \A p \in Tasks : Range(node'[p].wait) = IF p = n THEN {} ELSE Range(node[p].wait)
      BY <1>2, NoElement
    <2>3. CASE m = n
      <3>1. at2[m] = "done" /\ at[m] = "todo"
        BY <2>3, <1>8, <1>9
      <3> QED BY <2>1, <2>2, <2>3, <3>1, <1>2, <1>16 DEF Stands
    <2>4. CASE m \in Range(waiting)
      <3>1. at2[m] = "todo" /\ by2[m] = a /\ at[m] = "waits" /\ by[m] = n /\ Carries(agenda'[a], m) /\ m # n
        BY <2>4, <1>4, <1>7, <1>9, <1>10, <1>11, <1>15
      <3> QED BY <2>1, <2>2, <3>1, <1>2, <1>16 DEF Stands
    <2>5. CASE m # n /\ m \notin Range(waiting)
      <3>1. at2[m] = at[m] /\ by2[m] = by[m] /\ (at[m] = "todo" => Carries(agenda'[by[m]], m))
        BY <2>5, <1>9, <1>10, <1>11, <1>15
      <3>2. ~(at[m] = "waits" /\ by[m] = n)
        BY <2>5, <1>4
      <3>3. \A p \in Tasks : m \in Range(node'[p].wait) <=> m \in Range(node[p].wait)
        BY <2>1, <2>2, <3>2 DEF Stands
      <3>4. /\ m \in Created' <=> m \in Created
            /\ node'[m].consumed <=> node[m].consumed
            /\ m \in ready' <=> m \in ready
            /\ \A b \in Actors : running'[b] = m <=> running[b] = m
        BY <2>5, <1>2, <1>16
      <3> QED BY <2>1, <3>1, <3>3, <3>4, StandsStill
    <2> QED BY <2>3, <2>4, <2>5
  <1>18. PlacedAs(at2, by2)'
    <2>1. at2 \in [Tasks -> Stages] /\ by2 \in [Tasks -> Actors \cup Tasks]
      BY <1>8, <1>9, <1>10 DEF Stages
    <2> QED BY <2>1, <1>15, <1>17 DEF PlacedAs, TodoPlaced
  <1>19. \A p \in Tasks : IsInjective(node'[p].wait) /\ (node'[p].consumed => node'[p].wait = <<>>)
    <2>1. IsInjective(<<>>)
      BY NoElement DEF IsInjective
    <2> QED BY <2>1, <1>1, <1>2 DEF Placed
  <1> QED BY <1>15, <1>18, <1>19 DEF Placed, TodoPlaced

LEMMA WaitsAreInjective ==
  ASSUME Types, Placed, NEW n \in Tasks, NEW p \in Tasks,
         n \notin Range(node[p].wait), ~node[p].consumed,
         \A m \in Tasks : node'[m].consumed = node[m].consumed,
         \A m \in Tasks : m # p => node'[m].wait = node[m].wait,
         node'[p].wait = <<n>> \o node[p].wait
  PROVE  /\ \A q \in Tasks : IsInjective(node'[q].wait) /\ (node'[q].consumed => node'[q].wait = <<>>)
         /\ \A q \in Tasks : Range(node'[q].wait) = IF q = p THEN Range(node[q].wait) \cup {n}
                                                             ELSE Range(node[q].wait)
  <1>1. PICK s \in Seq(Tasks) : s = node[p].wait /\ IsInjective(s) /\ n \notin Range(s)
    BY FieldTypes DEF Types, Placed
  <1>2. PICK r : r = <<n>> \o s
    OBVIOUS
  <1>3. Range(r) = Range(s) \cup {n} /\ IsInjective(r)
    BY <1>1, <1>2, Prepend
  <1>4. node'[p].wait = r
    BY <1>1, <1>2
  <1> QED BY <1>1, <1>3, <1>4 DEF Placed

\* A head entry that carries a task.
LEMMA HeadCarries ==
  ASSUME Types, Numbered, NEW a \in Actors, NEW what \in {"schedule", "push", "complete"}, Do(a, what)
  PROVE  /\ The(a) \in Tasks /\ The(a) \in Created /\ agenda[a] # <<>> /\ AtHead(a, The(a))
         /\ \A at, by : PlacedAs(at, by) => at[The(a)] = "todo" /\ by[The(a)] = a
  <1>1. /\ agenda[a] # <<>> /\ 1 \in DOMAIN agenda[a] /\ agenda[a][1].do = what /\ The(a) = agenda[a][1].n
        /\ The(a) \in Tasks /\ The(a) \in Created
    BY HeadEntry
  <1> QED BY <1>1 DEF AtHead, Carrier, PlacedAs, CarriedBy

\* A carried task is nowhere else.
LEMMA CarriedOnly ==
  ASSUME Types, Numbered, Placed, NEW a \in Actors, NEW what \in {"schedule", "push", "complete"},
         Do(a, what), NEW n, n = The(a)
  PROVE  /\ n \notin ready /\ ~node[n].consumed /\ \A b \in Actors : running[b] # n
         /\ \A p \in Tasks : n \notin Range(node[p].wait)
  <1>1. PICK at, by : PlacedAs(at, by)
    BY DEF Placed
  <1>2. n \in Tasks /\ at[n] = "todo" /\ by[n] = a
    BY <1>1, HeadCarries
  <1> QED BY <1>1, <1>2 DEF PlacedAs, Stands

LEMMA StepPlaced == ASSUME TaskInv, [TaskNext]_taskVars PROVE Placed'
  <1>i. Types /\ Numbered /\ Shaped /\ Placed
    BY DEF TaskInv
  <1>t. /\ node \in [Tasks -> NodeType] /\ ready \in SUBSET Tasks
        /\ agenda \in [Actors -> Seq(Entry)] /\ running \in [Actors -> 0 .. MaxWork]
    BY <1>i DEF Types
  <1>n. \A m \in Tasks : m # 0
    BY MaxWorkAssumption DEF Tasks
  <1>w. \A p \in Tasks : IsInjective(node[p].wait) /\ (node[p].consumed => node[p].wait = <<>>)
    BY <1>i DEF Placed
  <1>1. CASE UNCHANGED taskVars
    <2>1. Created' = Created /\ UNCHANGED <<ready, running, agenda, node>>
      BY <1>1 DEF taskVars, Created
    <2> QED BY <2>1, PlacedQuiet
  <1>2. CASE ExecuteTasks
    <2>1. Created' = Created /\ UNCHANGED <<ready, running, agenda, node>>
      BY <1>2 DEF ExecuteTasks, Created
    <2> QED BY <2>1, PlacedQuiet
  <1>3. ASSUME NEW a \in Actors, Leave(a) PROVE Placed'
    <2>1. Created' = Created /\ UNCHANGED <<ready, running, agenda, node>>
      BY <1>3 DEF Leave, Created
    <2> QED BY <2>1, PlacedQuiet
  <1>4. ASSUME NEW a \in Actors, Run(a) PROVE Placed'
    <2>1. PICK n \in ready : ready' = ready \ {n} /\ running' = [running EXCEPT ![a] = n]
      BY <1>4 DEF Run
    <2>2. running[a] = 0 /\ UNCHANGED <<node, agenda>> /\ n \in Tasks
      BY <1>4, <1>t DEF Run, Resting
    <2> QED BY <2>1, <2>2, PlacedRuns
  <1>5. ASSUME NEW a \in Actors, DecrementReadyCount(a) PROVE Placed'
    <2>1. Then(a, <<>>) /\ agenda[a] # <<>> /\ agenda[a][1].do = "countdown" /\ UNCHANGED <<node, ready, running>>
      BY <1>5 DEF DecrementReadyCount, Do
    <2>2. Created' = Created /\ ~Carrier(agenda[a][1])
      BY <2>1 DEF Created, Carrier
    <2> QED BY <2>1, <2>2, PlacedQuiet
  <1>6. ASSUME NEW a \in Actors, PushReady(a) PROVE Placed'
    <2>1. Do(a, "push") /\ Then(a, <<>>) /\ ready' = ready \cup {The(a)} /\ UNCHANGED <<node, running>>
      BY <1>6 DEF PushReady
    <2>2. PICK n \in Tasks : n = The(a) /\ agenda[a] # <<>> /\ AtHead(a, n)
      BY <2>1, <1>i, HeadCarries
    <2>3. \A p \in Tasks : n \notin Range(node[p].wait)
      BY <2>1, <2>2, <1>i, CarriedOnly
    <2>4. PICK e \in Seq(Entry) : e = <<>>
      BY EmptySeq
    <2>5. Once(e) /\ (\A i \in DOMAIN e : Carrier(e[i]) => e[i].n = n) /\ ~Carries(e, n) /\ Then(a, e)
      BY <2>1, <2>4, NoElement DEF Once, Carries
    <2>6. PICK st \in {"todo", "waits", "ready"} : st = "ready"
      OBVIOUS
    <2>7. Created' = Created
      BY <2>1 DEF Created
    <2>8. n \in ready' /\ \A m \in Tasks : m # n => (m \in ready' <=> m \in ready)
      BY <2>1, <2>2
    <2>9. \A p \in Tasks : n \in Range(node'[p].wait) <=> st = "waits" /\ a = p
      BY <2>1, <2>3, <2>6
    <2> QED BY <2>1, <2>2, <2>5, <2>6, <2>7, <2>8, <2>9, <1>w, PlacedSteps
  <1>7. ASSUME NEW a \in Actors, AggregateDone(a) PROVE Placed'
    <2>1. Do(a, "schedule") /\ Then(a, <<Complete(The(a))>>) /\ UNCHANGED <<node, ready, running>>
      BY <1>7 DEF AggregateDone
    <2>2. PICK n \in Tasks : n = The(a) /\ agenda[a] # <<>> /\ AtHead(a, n)
      BY <2>1, <1>i, HeadCarries
    <2>3. n \notin ready /\ \A p \in Tasks : n \notin Range(node[p].wait)
      BY <2>1, <2>2, <1>i, CarriedOnly
    <2>4. PICK e \in Seq(Entry) : e = <<Complete(n)>>
      BY EntryTypes
    <2>5. Once(e) /\ (\A i \in DOMAIN e : e[i] = Complete(n)) /\ Then(a, e) /\ DOMAIN e = {1}
      <3>1. DOMAIN <<Complete(n)>> = {1}
        BY OneElement
      <3> QED BY <3>1, <2>1, <2>2, <2>4, Fronts, Listed
    <2>6. (\A i \in DOMAIN e : Carrier(e[i]) => e[i].n = n) /\ Carries(e, n)
      BY <2>5, EntryFields DEF Carries
    <2>7. PICK st \in {"todo", "waits", "ready"} : st = "todo"
      OBVIOUS
    <2>8. Created' = Created
      BY <2>1 DEF Created
    <2>9. \A p \in Tasks : n \in Range(node'[p].wait) <=> st = "waits" /\ a = p
      BY <2>1, <2>3, <2>7
    <2> QED BY <2>1, <2>2, <2>3, <2>5, <2>6, <2>7, <2>8, <2>9, <1>w, PlacedSteps
  <1>8. ASSUME NEW a \in Actors, ScheduleReady(a) PROVE Placed'
    <2>1. PICK n \in Tasks :
            /\ Do(a, "schedule") /\ n = The(a)
            /\ \A m \in Tasks : /\ node'[m].kind = node[m].kind
                                /\ node'[m].consumed = node[m].consumed
                                /\ node'[m].wait = node[m].wait
            /\ Then(a, <<Enqueue(n)>>)
            /\ UNCHANGED <<ready, running>>
      BY <1>8, ReadyEffect
    <2>2. agenda[a] # <<>> /\ AtHead(a, n)
      BY <2>1, <1>i, HeadCarries
    <2>3. n \notin ready /\ \A p \in Tasks : n \notin Range(node[p].wait)
      BY <2>1, <2>2, <1>i, CarriedOnly
    <2>4. PICK e \in Seq(Entry) : e = <<Enqueue(n)>>
      BY EntryTypes
    <2>5. Once(e) /\ (\A i \in DOMAIN e : e[i] = Enqueue(n)) /\ Then(a, e) /\ DOMAIN e = {1}
      <3>1. DOMAIN <<Enqueue(n)>> = {1}
        BY OneElement
      <3> QED BY <3>1, <2>1, <2>2, <2>4, Fronts, Listed
    <2>6. (\A i \in DOMAIN e : Carrier(e[i]) => e[i].n = n) /\ Carries(e, n)
      BY <2>5, EntryFields DEF Carries
    <2>7. PICK st \in {"todo", "waits", "ready"} : st = "todo"
      OBVIOUS
    <2>8. Created' = Created
      BY <2>1 DEF Created
    <2>9. \A p \in Tasks : n \in Range(node'[p].wait) <=> st = "waits" /\ a = p
      BY <2>1, <2>3, <2>7
    <2>10. \A p \in Tasks : IsInjective(node'[p].wait) /\ (node'[p].consumed => node'[p].wait = <<>>)
      BY <2>1, <1>w
    <2> QED BY <2>1, <2>2, <2>3, <2>5, <2>6, <2>7, <2>8, <2>9, <2>10, PlacedSteps
  <1>9. ASSUME NEW a \in Actors, Deallocates(a) PROVE Placed'
    <2>1. PICK n \in Tasks :
            /\ Do(a, "release") /\ n \in Created
            /\ \A m \in Tasks : m # n => node'[m] = node[m]
            /\ node'[n].kind = IF node[n].ref = 1 THEN "freed" ELSE node[n].kind
            /\ node'[n].wait = node[n].wait /\ (node'[n].consumed <=> node[n].consumed)
            /\ Then(a, <<>>)
            /\ UNCHANGED <<ready, running>>
      BY <1>9, ReleaseEffect
    <2>2. Created' = Created /\ agenda[a] # <<>> /\ ~Carrier(agenda[a][1])
      BY <2>1 DEF Created, Carrier, Do
    <2>3. \A m \in Tasks : node'[m].wait = node[m].wait /\ (node'[m].consumed <=> node[m].consumed)
      BY <2>1
    <2> QED BY <2>1, <2>2, <2>3, PlacedQuiet
  <1>10. ASSUME NEW a \in Actors, CompleteTask(a) PROVE Placed'
    BY <1>10, PlacedCompletes
  <1>11. ASSUME NEW a \in Actors, ScheduleDependent(a) PROVE Placed'
    <2>1. PICK n, p \in Tasks :
           /\ Do(a, "schedule") /\ n = The(a) /\ n \in Created /\ p \in Created /\ p # n
           /\ node[n].kind = "runnable" /\ node[n].deps = <<p>> /\ Range(node[n].deps) = {p}
           /\ node' \in [Tasks -> NodeType]
           /\ \A m \in Tasks : m # n => node'[m].deps = node[m].deps /\ (node'[m].flag <=> node[m].flag)
           /\ node'[n].deps = <<>> /\ ~node'[n].flag
           /\ \A m \in Tasks : /\ node'[m].kind = node[m].kind /\ node'[m].ref = node[m].ref
                               /\ node'[m].after = node[m].after
                               /\ node'[m].consumed = node[m].consumed
                               /\ m # p => node'[m].wait = node[m].wait
           /\ node'[p].wait = IF node[p].consumed THEN node[p].wait ELSE <<n>> \o node[p].wait
           /\ node[p].consumed => Then(a, Returned(n, p) \o <<Schedule(n)>>)
           /\ ~node[p].consumed => Then(a, Returned(n, p))
           /\ UNCHANGED <<ready, m_ready_count, running, futures, inside, respawns>>
      BY <1>11, DependentEffect, Zenon
    <2>2. agenda[a] # <<>> /\ AtHead(a, n)
      BY <2>1, <1>i, HeadCarries
    <2>3. n \notin ready /\ \A q \in Tasks : n \notin Range(node[q].wait)
      BY <2>1, <2>2, <1>i, CarriedOnly
    <2>4. Created' = Created
      BY <2>1 DEF Created
    <2>5. CASE node[p].consumed
      <3>1. PICK e : Then(a, e) /\ e \in {<<Schedule(n)>>, <<Release(p), Schedule(n)>>}
        BY <2>1, <2>5, EntryLists DEF Returned
      <3>2. e \in Seq(Entry) /\ Once(e) /\ Range(e) \subseteq {Release(p), Schedule(n)} /\ Schedule(n) \in Range(e)
        <4>1. e \in Seq(Entry)
          BY <3>1, EntryTypes, EntryLists
        <4>2. CASE e = <<Release(p), Schedule(n)>>
          BY <4>1, <4>2, Fronts, Zenon
        <4>3. CASE e = <<Schedule(n)>>
          BY <4>1, <4>3, Fronts, Zenon
        <4> QED BY <3>1, <4>2, <4>3
      <3>3. \A i \in DOMAIN e : Carrier(e[i]) => e[i].n = n
        BY <3>2, Listed, EntryFields
      <3>4. Carries(e, n)
        <4>1. PICK i \in DOMAIN e : e[i] = Schedule(n)
          BY <3>2 DEF Range
        <4> QED BY <4>1, EntryFields DEF Carries
      <3>5. PICK st \in {"todo", "waits", "ready"} : st = "todo"
        OBVIOUS
      <3>6. \A m \in Tasks : node'[m].wait = node[m].wait
        BY <2>1, <2>5
      <3>7. \A q \in Tasks : n \in Range(node'[q].wait) <=> st = "waits" /\ a = q
        BY <2>3, <3>5, <3>6
      <3>8. \A q \in Tasks : IsInjective(node'[q].wait) /\ (node'[q].consumed => node'[q].wait = <<>>)
        BY <2>1, <3>6, <1>w
      <3>9. ready' = ready /\ running' = running /\ \A m \in Tasks : node'[m].consumed <=> node[m].consumed
        BY <2>1
      <3> QED BY <2>2, <2>3, <2>4, <3>1, <3>2, <3>3, <3>4, <3>5, <3>6, <3>7, <3>8, <3>9, PlacedSteps
    <2>6. CASE ~node[p].consumed
      <3>1. PICK e : Then(a, e) /\ e \in {<<>>, <<Release(p)>>}
        BY <2>1, <2>6, EntryLists DEF Returned
      <3>2. e \in Seq(Entry) /\ Once(e) /\ Range(e) \subseteq {Release(p)}
        BY <3>1, EntryTypes, EntryLists, Fronts
      <3>3. \A i \in DOMAIN e : ~Carrier(e[i])
        BY <3>2, Listed, EntryFields
      <3>4. ~Carries(e, n)
        BY <3>3 DEF Carries
      <3>5. PICK st \in {"todo", "waits", "ready"} : st = "waits"
        OBVIOUS
      <3>6. /\ \A q \in Tasks : IsInjective(node'[q].wait) /\ (node'[q].consumed => node'[q].wait = <<>>)
            /\ \A q \in Tasks : Range(node'[q].wait) = IF q = p THEN Range(node[q].wait) \cup {n}
                                                                ELSE Range(node[q].wait)
        <4>1. node'[p].wait = <<n>> \o node[p].wait
          BY <2>1, <2>6
        <4>2. n \notin Range(node[p].wait)
          BY <2>3
        <4>3. \A m \in Tasks : node'[m].consumed = node[m].consumed
          BY <2>1
        <4>4. \A m \in Tasks : m # p => node'[m].wait = node[m].wait
          BY <2>1
        <4> QED BY <4>1, <4>2, <4>3, <4>4, <2>6, <1>i, WaitsAreInjective
      <3>7. \A q \in Tasks : n \in Range(node'[q].wait) <=> st = "waits" /\ p = q
        BY <2>3, <3>5, <3>6
      <3>8. \A m, q \in Tasks : m # n => (m \in Range(node'[q].wait) <=> m \in Range(node[q].wait))
        BY <3>6
      <3>9. ready' = ready /\ running' = running /\ \A m \in Tasks : node'[m].consumed <=> node[m].consumed
        BY <2>1
      <3> QED BY <2>2, <2>3, <2>4, <3>1, <3>2, <3>3, <3>4, <3>5, <3>6, <3>7, <3>8, <3>9, PlacedSteps
    <2> QED BY <2>5, <2>6
  <1>12. ASSUME NEW a \in Actors, ScheduleAggregate(a) PROVE Placed'
    <2>1. PICK n, p \in Tasks :
           /\ Do(a, "schedule") /\ n = The(a) /\ n \in Created /\ p \in Created /\ p # n
           /\ node[n].kind = "aggregate" /\ node[n].deps # <<>> /\ p = node[n].deps[1]
           /\ p \in Range(node[n].deps) /\ node'[n].deps = Tail(node[n].deps)
           /\ node' \in [Tasks -> NodeType]
           /\ \A m \in Tasks : m # n => node'[m].deps = node[m].deps
           /\ \A m \in Tasks : /\ node'[m].kind = node[m].kind /\ node'[m].ref = node[m].ref
                               /\ node'[m].after = node[m].after
                               /\ node'[m].consumed = node[m].consumed
                               /\ node'[m].flag <=> node[m].flag
                               /\ m # p => node'[m].wait = node[m].wait
           /\ node'[p].wait = IF node[p].consumed THEN node[p].wait ELSE <<n>> \o node[p].wait
           /\ node[p].consumed => Then(a, <<Release(p)>> \o <<Schedule(n)>>)
           /\ ~node[p].consumed => Then(a, <<Release(p)>> \o <<>>)
           /\ UNCHANGED <<ready, m_ready_count, running, futures, inside, respawns>>
      BY <1>12, AggregateEffect, Zenon
    <2>2. agenda[a] # <<>> /\ AtHead(a, n)
      BY <2>1, <1>i, HeadCarries
    <2>3. n \notin ready /\ \A q \in Tasks : n \notin Range(node[q].wait)
      BY <2>1, <2>2, <1>i, CarriedOnly
    <2>4. Created' = Created
      BY <2>1 DEF Created
    <2>5. CASE node[p].consumed
      <3>1. PICK e : Then(a, e) /\ e \in {<<Release(p), Schedule(n)>>}
        BY <2>1, <2>5, EntryLists
      <3>2. e \in Seq(Entry) /\ Once(e) /\ Range(e) \subseteq {Release(p), Schedule(n)} /\ Schedule(n) \in Range(e)
        <4>1. e \in Seq(Entry)
          BY <3>1, EntryTypes, EntryLists
        <4>2. CASE e = <<Release(p), Schedule(n)>>
          BY <4>1, <4>2, Fronts, Zenon
        <4>3. CASE e = <<Schedule(n)>>
          BY <4>1, <4>3, Fronts, Zenon
        <4> QED BY <3>1, <4>2, <4>3
      <3>3. \A i \in DOMAIN e : Carrier(e[i]) => e[i].n = n
        BY <3>2, Listed, EntryFields
      <3>4. Carries(e, n)
        <4>1. PICK i \in DOMAIN e : e[i] = Schedule(n)
          BY <3>2 DEF Range
        <4> QED BY <4>1, EntryFields DEF Carries
      <3>5. PICK st \in {"todo", "waits", "ready"} : st = "todo"
        OBVIOUS
      <3>6. \A m \in Tasks : node'[m].wait = node[m].wait
        BY <2>1, <2>5
      <3>7. \A q \in Tasks : n \in Range(node'[q].wait) <=> st = "waits" /\ a = q
        BY <2>3, <3>5, <3>6
      <3>8. \A q \in Tasks : IsInjective(node'[q].wait) /\ (node'[q].consumed => node'[q].wait = <<>>)
        BY <2>1, <3>6, <1>w
      <3>9. ready' = ready /\ running' = running /\ \A m \in Tasks : node'[m].consumed <=> node[m].consumed
        BY <2>1
      <3> QED BY <2>2, <2>3, <2>4, <3>1, <3>2, <3>3, <3>4, <3>5, <3>6, <3>7, <3>8, <3>9, PlacedSteps
    <2>6. CASE ~node[p].consumed
      <3>1. PICK e : Then(a, e) /\ e \in {<<Release(p)>>}
        BY <2>1, <2>6, EntryLists
      <3>2. e \in Seq(Entry) /\ Once(e) /\ Range(e) \subseteq {Release(p)}
        BY <3>1, EntryTypes, EntryLists, Fronts
      <3>3. \A i \in DOMAIN e : ~Carrier(e[i])
        BY <3>2, Listed, EntryFields
      <3>4. ~Carries(e, n)
        BY <3>3 DEF Carries
      <3>5. PICK st \in {"todo", "waits", "ready"} : st = "waits"
        OBVIOUS
      <3>6. /\ \A q \in Tasks : IsInjective(node'[q].wait) /\ (node'[q].consumed => node'[q].wait = <<>>)
            /\ \A q \in Tasks : Range(node'[q].wait) = IF q = p THEN Range(node[q].wait) \cup {n}
                                                                ELSE Range(node[q].wait)
        <4>1. node'[p].wait = <<n>> \o node[p].wait
          BY <2>1, <2>6
        <4>2. n \notin Range(node[p].wait)
          BY <2>3
        <4>3. \A m \in Tasks : node'[m].consumed = node[m].consumed
          BY <2>1
        <4>4. \A m \in Tasks : m # p => node'[m].wait = node[m].wait
          BY <2>1
        <4> QED BY <4>1, <4>2, <4>3, <4>4, <2>6, <1>i, WaitsAreInjective
      <3>7. \A q \in Tasks : n \in Range(node'[q].wait) <=> st = "waits" /\ p = q
        BY <2>3, <3>5, <3>6
      <3>8. \A m, q \in Tasks : m # n => (m \in Range(node'[q].wait) <=> m \in Range(node[q].wait))
        BY <3>6
      <3>9. ready' = ready /\ running' = running /\ \A m \in Tasks : node'[m].consumed <=> node[m].consumed
        BY <2>1
      <3> QED BY <2>2, <2>3, <2>4, <3>1, <3>2, <3>3, <3>4, <3>5, <3>6, <3>7, <3>8, <3>9, PlacedSteps
    <2> QED BY <2>5, <2>6
  <1>13. ASSUME NEW a \in Actors, DropFutures(a) PROVE Placed'
    <2>1. PICK x \in Owners : x = Self(a)
      BY <1>13, <1>i, UserCodeOf DEF DropFutures
    <2>2. PICK ps \in SUBSET futures[x] :
            futures' = [futures EXCEPT ![x] = @ \ ps] /\ agenda' = [agenda EXCEPT ![a] = Releases(ps)]
      BY <1>13, <2>1 DEF DropFutures
    <2>d. ps \in SUBSET Tasks
      BY <1>i DEF Types
    <2>p. PICK r : r = Releases(ps)
      OBVIOUS
    <2>3. r \in Seq(Entry) /\ \A i \in DOMAIN r : ~Carrier(r[i])
      BY <2>p, <2>d, ReleasesList, EntryFields
    <2>4. /\ agenda[a] = <<>> /\ agenda' = [agenda EXCEPT ![a] = r]
          /\ UNCHANGED <<node, ready, running>>
      BY <1>13, <2>2, <2>p DEF DropFutures, InUserCode
    <2>5. Created' = Created
      BY <2>4 DEF Created
    <2> QED BY <2>3, <2>4, <2>5, PlacedQuiet
  <1>14. ASSUME NEW a \in Actors, Finish(a) PROVE Placed'
    <2>1. PICK x \in Tasks : x = running[a]
      BY <1>14, <1>t, MaxWorkAssumption DEF Finish, Tasks
    <2>2. x \in Created /\ ~node[x].consumed /\ \A b \in Actors : b # a => running[b] # x
      <3>1. PICK at, by : PlacedAs(at, by)
        BY <1>i DEF Placed
      <3> QED BY <2>1, <3>1 DEF PlacedAs, Stands
    <2>3. /\ UNCHANGED <<node, ready>> /\ agenda[a] = <<>>
          /\ running' = [running EXCEPT ![a] = 0]
      BY <1>14 DEF Finish
    <2>4. PICK e \in Seq(Entry) :
            /\ agenda' = [agenda EXCEPT ![a] = e]
            /\ Once(e) /\ Carries(e, x) /\ \A i \in DOMAIN e : Carrier(e[i]) => e[i].n = x
      <3>1. CASE node[x].flag
        <4>1. PICK e : e = <<Schedule(x), CountDown>>
          OBVIOUS
        <4>2. agenda' = [agenda EXCEPT ![a] = e]
          BY <3>1, <4>1, <1>14, <2>1 DEF Finish
        <4>3. e \in Seq(Entry) /\ Once(e) /\ DOMAIN e = {1, 2} /\ e[1] = Schedule(x) /\ e[2] = CountDown
          BY <4>1, RespawnList
        <4>4. Carries(e, x) /\ \A i \in DOMAIN e : Carrier(e[i]) => e[i].n = x
          BY <4>3, EntryFields DEF Carries
        <4> QED BY <4>2, <4>3, <4>4
      <3>2. CASE ~node[x].flag
        <4>1. PICK e : e = Releases(futures[x]) \o Completion(x)
          OBVIOUS
        <4>2. agenda' = [agenda EXCEPT ![a] = e]
          BY <3>2, <4>1, <1>14, <2>1 DEF Finish
        <4>3. PICK drops \in Seq(Tasks) : EndList(e, x, drops)
          BY <4>1, <1>i, FinishList
        <4>4. Carries(e, x)
          <5>1. PICK i \in DOMAIN e : e[i] = Complete(x)
            BY <4>3 DEF EndList
          <5> QED BY <5>1, EntryFields DEF Carries
        <4>5. ASSUME NEW i \in DOMAIN e, Carrier(e[i]) PROVE e[i].n = x
          <5>1. \/ e[i] = Complete(x) \/ e[i] = Release(drops[i]) \/ e[i] = CountDown
            BY <4>3 DEF EndList
          <5> QED BY <5>1, <4>5, EntryFields
        <4> QED BY <4>2, <4>3, <4>4, <4>5 DEF EndList
      <3> QED BY <3>1, <3>2
    <2>5. Created' = Created
      BY <2>3 DEF Created
    <2>6. /\ \A m \in Tasks : m # x => \A b \in Actors : running'[b] = m <=> running[b] = m
          /\ \A b \in Actors : running'[b] # x
      BY <2>1, <2>2, <2>3, <1>t, <1>n
    <2>7. x \in Created' /\ ~node'[x].consumed /\ ready' = ready
          /\ (\A m \in Tasks : node'[m].wait = node[m].wait)
      BY <2>2, <2>3, <2>5
    <2>8. \A m \in Tasks : m # x =>
            /\ m \in Created' <=> m \in Created
            /\ node'[m].consumed <=> node[m].consumed
            /\ \A b \in Actors : running'[b] = m <=> running[b] = m
      BY <2>3, <2>5, <2>6
    <2>9. (\A b \in Actors : running'[b] # x) /\ agenda[a] = <<>> /\ running[a] = x
      BY <2>1, <2>3, <2>6
    <2> QED BY <2>4, <2>7, <2>8, <2>9, PlacedStarts
  <1>15. ASSUME NEW a \in Actors, Respawn(a) PROVE Placed'
    <2>1. \A m \in Tasks : node'[m].kind = node[m].kind /\ node'[m].wait = node[m].wait
                           /\ node'[m].consumed = node[m].consumed
      BY <1>15, RespawnEffect
    <2>2. UNCHANGED <<ready, agenda, running>>
      BY <1>15 DEF Respawn
    <2>3. Created' = Created
      BY <2>1 DEF Created
    <2> QED BY <2>1, <2>2, <2>3, PlacedQuiet
  <1>16. ASSUME NEW a \in Actors, NEW n \in Tasks, Spawn(a, n) \/ WhenAll(a, n) PROVE Placed'
    <2>1. /\ InUserCode(a) /\ Fresh(n)
          /\ agenda' = [agenda EXCEPT ![a] = <<Schedule(n)>>]
          /\ UNCHANGED <<ready, running>>
      BY <1>16 DEF Spawn, WhenAll
    <2>2. /\ \A m \in Tasks : m # n => /\ node'[m].kind = node[m].kind
                                       /\ node'[m].consumed = node[m].consumed
                                       /\ node'[m].wait = node[m].wait
          /\ node'[n].kind # "unused" /\ node'[n].wait = <<>> /\ ~node'[n].consumed
      <3>1. CASE Spawn(a, n)
        BY <3>1, SpawnEffect
      <3>2. CASE WhenAll(a, n)
        BY <3>2, WhenAllEffect
      <3> QED BY <3>1, <3>2, <1>16
    <2>3. n \notin Created /\ node[n].wait = <<>>
      BY <2>1, <1>i, FreshTask
    <2>4. n \in Created' /\ \A m \in Tasks : m # n => (m \in Created' <=> m \in Created)
      BY <2>2 DEF Created
    <2>5. \A b \in Actors : running[b] # n
      <3>1. PICK at, by : PlacedAs(at, by)
        BY <1>i DEF Placed
      <3> QED BY <2>3, <3>1 DEF PlacedAs, Stands
    <2>6. PICK e \in Seq(Entry) : e = <<Schedule(n)>>
      BY EntryTypes
    <2>7. Once(e) /\ (\A i \in DOMAIN e : e[i] = Schedule(n)) /\ DOMAIN e = {1}
      <3>1. DOMAIN <<Schedule(n)>> = {1}
        BY OneElement
      <3> QED BY <3>1, <2>6, Fronts, Listed
    <2>8. (\A i \in DOMAIN e : Carrier(e[i]) => e[i].n = n) /\ Carries(e, n)
      BY <2>7, EntryFields DEF Carries
    <2>9. \A m \in Tasks : node'[m].wait = node[m].wait
      BY <2>2, <2>3
    <2>10. agenda[a] = <<>>
      BY <2>1 DEF InUserCode
    <2> QED BY <2>1, <2>2, <2>3, <2>4, <2>5, <2>6, <2>7, <2>8, <2>9, <2>10, PlacedStarts
  <1> QED BY <1>1, <1>2, <1>3, <1>4, <1>5, <1>6, <1>7, <1>8, <1>9, <1>10, <1>11, <1>12,
             <1>13, <1>14, <1>15, <1>16, NextCases

-----------------------------------------------------------------------------
\* The shape of the actors' code, and the count.

\* Code that the scheduler puts in front of what an actor has to do.
FrontShaped(e) ==
    \A i \in DOMAIN e : e[i].do # "countdown" /\ (e[i].do = "push" => i = 1)

\* The head of s is replaced by e.
LEMMA ListShape ==
  ASSUME NEW s \in Seq(Entry), s # <<>>, ShapedList(s), NEW e \in Seq(Entry), FrontShaped(e)
  PROVE  /\ ShapedList(e \o Tail(s))
         /\ PushesIn(e \o Tail(s)) <=> PushesIn(e)
         /\ s[1].do # "countdown" => (EndsIn(e \o Tail(s)) <=> EndsIn(s))
         /\ s[1].do = "countdown" => EndsIn(s)
         /\ s[1].do = "countdown" /\ e = <<>> => e \o Tail(s) = <<>>
  <1>r. PICK r : r = e \o Tail(s)
    OBVIOUS
  <1>1. /\ r \in Seq(Entry) /\ Len(r) = Len(e) + Len(s) - 1 /\ DOMAIN r = 1 .. Len(r)
        /\ DOMAIN s = 1 .. Len(s) /\ 1 \in DOMAIN s
        /\ DOMAIN e = 1 .. Len(e)
        /\ \A i \in DOMAIN r : \/ i \in DOMAIN e /\ r[i] = e[i]
                               \/ /\ i > Len(e) /\ i - Len(e) + 1 \in 2 .. Len(s)
                                  /\ r[i] = s[i - Len(e) + 1]
        /\ \A i \in DOMAIN e : i \in DOMAIN r /\ r[i] = e[i]
        /\ \A j \in 2 .. Len(s) : j + Len(e) - 1 \in DOMAIN r /\ r[j + Len(e) - 1] = s[j]
    BY <1>r, ThenSequence
  <1>2. Len(e) \in Nat /\ Len(s) \in Nat \ {0} /\ Len(r) \in Nat
    BY <1>1
  <1>3. (r = <<>> <=> Len(r) = 0) /\ (e = <<>> <=> Len(e) = 0)
    BY <1>1
  <1>4. ShapedList(r)
    <2> SUFFICES ASSUME NEW i \in DOMAIN r
                 PROVE  /\ r[i].do = "countdown" => i = Len(r)
                        /\ r[i].do = "push" => i = 1
      BY DEF ShapedList
    <2>1. CASE i \in DOMAIN e /\ r[i] = e[i]
      BY <2>1 DEF FrontShaped
    <2>2. CASE i > Len(e) /\ i - Len(e) + 1 \in 2 .. Len(s) /\ r[i] = s[i - Len(e) + 1]
      <3>1. PICK j \in 2 .. Len(s) : j = i - Len(e) + 1
        BY <2>2
      <3>2. j \in DOMAIN s /\ j # 1 /\ r[i] = s[j]
        BY <3>1, <2>2, <1>1, <1>2
      <3>3. r[i].do # "push" /\ (r[i].do = "countdown" => j = Len(s))
        BY <3>2 DEF ShapedList
      <3> QED BY <3>1, <3>3, <1>1, <1>2
    <2> QED BY <2>1, <2>2, <1>1
  <1>5. PushesIn(r) <=> PushesIn(e)
    <2>1. CASE Len(e) = 0
      <3>1. ~PushesIn(e)
        BY <2>1, <1>3 DEF PushesIn
      <3>2. ASSUME PushesIn(r) PROVE FALSE
        <4>1. Len(r) > 0 /\ r[1].do = "push"
          BY <3>2, <1>2, <1>3 DEF PushesIn
        <4>2. 2 \in 2 .. Len(s) /\ 2 \in DOMAIN s
          BY <4>1, <2>1, <1>1, <1>2
        <4>3. r[2 + Len(e) - 1] = s[2]
          BY <4>2, <1>1
        <4>4. r[1] = s[2]
          BY <4>3, <2>1
        <4> QED BY <4>1, <4>2, <4>4 DEF ShapedList
      <3> QED BY <3>1, <3>2
    <2>2. CASE Len(e) # 0
      <3>1. 1 \in DOMAIN e
        BY <2>2, <1>1, <1>2
      <3>2. r[1] = e[1] /\ Len(r) # 0
        BY <3>1, <2>2, <1>1, <1>2
      <3> QED BY <3>2, <2>2, <1>3 DEF PushesIn
    <2> QED BY <2>1, <2>2
  <1>6. CASE Len(s) = 1
    <2>1. r = e
      <3>1. Len(r) = Len(e) /\ \A i \in DOMAIN e : r[i] = e[i]
        BY <1>6, <1>1, <1>2
      <3> QED BY <3>1, <1>1, SeqEqual
    <2>2. ~EndsIn(r)
      <3>1. CASE r = <<>>
        BY <3>1 DEF EndsIn
      <3>2. CASE r # <<>>
        <4>1. Len(e) \in DOMAIN e
          BY <3>2, <2>1, <1>1, <1>2, <1>3
        <4> QED BY <4>1, <2>1 DEF EndsIn, FrontShaped
      <3> QED BY <3>1, <3>2
    <2>3. EndsIn(s) <=> s[1].do = "countdown"
      BY <1>6 DEF EndsIn
    <2> QED BY <1>r, <1>4, <1>5, <2>1, <2>2, <2>3
  <1>7. CASE Len(s) # 1
    <2>1. Len(s) \in 2 .. Len(s) /\ Len(r) # 0
      BY <1>7, <1>1, <1>2
    <2>2. r[Len(s) + Len(e) - 1] = s[Len(s)]
      BY <2>1, <1>1
    <2>3. Len(s) + Len(e) - 1 = Len(r)
      BY <1>1, <1>2
    <2>4. EndsIn(r) <=> EndsIn(s)
      BY <2>1, <2>2, <2>3, <1>3 DEF EndsIn
    <2>5. s[1].do # "countdown"
      BY <1>7, <1>1 DEF ShapedList
    <2> QED BY <1>r, <1>4, <1>5, <2>4, <2>5
  <1> QED BY <1>6, <1>7

\* One actor joins a set, or leaves it, or nothing happens.
LEMMA CountChange ==
  ASSUME NEW S, NEW T, NEW x, IsFiniteSet(S), S \ {x} = T \ {x}
  PROVE  /\ IsFiniteSet(T) /\ Cardinality(S) \in Nat /\ Cardinality(T) \in Nat
         /\ (x \in S <=> x \in T) => T = S
         /\ x \notin S /\ x \in T => Cardinality(T) = Cardinality(S) + 1
         /\ x \in S /\ x \notin T => Cardinality(T) = Cardinality(S) - 1
  <1>1. Cardinality(S) \in Nat
    BY FS_CardinalityType
  <1>2. /\ (x \in S <=> x \in T) => T = S
        /\ x \notin S /\ x \in T => T = S \cup {x}
        /\ x \in S /\ x \notin T => T = S \ {x}
    OBVIOUS
  <1>3. IsFiniteSet(S \cup {x}) /\ (x \notin S => Cardinality(S \cup {x}) = Cardinality(S) + 1)
    BY FS_AddElement
  <1>4. IsFiniteSet(S \ {x}) /\ (x \in S => Cardinality(S \ {x}) = Cardinality(S) - 1)
    BY FS_RemoveElement
  <1>5. IsFiniteSet(T)
    BY <1>2, <1>3, <1>4
  <1> QED BY <1>1, <1>2, <1>3, <1>4, <1>5, FS_CardinalityType

LEMMA FiniteActors ==
  ASSUME Types
  PROVE  /\ IsFiniteSet(Actors) /\ IsFiniteSet(ready)
         /\ IsFiniteSet(Runners) /\ IsFiniteSet(Enders) /\ IsFiniteSet(Pushers)
  <1>1. IsFiniteSet(Actors)
    BY WorkersAssumption, FS_AddElement DEF Actors
  <1>2. IsFiniteSet(Tasks)
    BY MaxWorkAssumption, FS_Interval DEF Tasks
  <1>3. Runners \subseteq Actors /\ Enders \subseteq Actors /\ Pushers \subseteq Actors /\ ready \subseteq Tasks
    BY DEF Runners, Enders, Pushers, Types
  <1> QED BY <1>1, <1>2, <1>3, FS_Subset

\* What a step of one actor does to the numbers that are counted.
Change(before, after, now, then) ==
    /\ (now <=> then) => after = before
    /\ ~now /\ then => after = before + 1
    /\ now /\ ~then => after = before - 1

LEMMA NumbersChange ==
  ASSUME Types, Types', NEW a \in Actors,
         \A b \in Actors : b # a => agenda'[b] = agenda[b] /\ running'[b] = running[b]
  PROVE  /\ Cardinality(ready) \in Nat
         /\ Cardinality(Runners) \in Nat /\ Cardinality(Enders) \in Nat /\ Cardinality(Pushers) \in Nat
         /\ Change(Cardinality(Runners), Cardinality(Runners)', running[a] # 0, running'[a] # 0)
         /\ Change(Cardinality(Enders), Cardinality(Enders)', EndsIn(agenda[a]), EndsIn(agenda'[a]))
         /\ Change(Cardinality(Pushers), Cardinality(Pushers)', PushesIn(agenda[a]), PushesIn(agenda'[a]))
  <1>1. /\ IsFiniteSet(ready)
        /\ IsFiniteSet(Runners) /\ IsFiniteSet(Enders) /\ IsFiniteSet(Pushers)
    BY FiniteActors
  <1>2. /\ a \in Runners <=> running[a] # 0
        /\ a \in Runners' <=> running'[a] # 0
        /\ Runners \ {a} = Runners' \ {a}
    BY DEF Runners
  <1>3. /\ a \in Enders <=> EndsIn(agenda[a])
        /\ a \in Enders' <=> EndsIn(agenda'[a])
        /\ Enders \ {a} = Enders' \ {a}
    BY DEF Enders
  <1>4. /\ a \in Pushers <=> PushesIn(agenda[a])
        /\ a \in Pushers' <=> PushesIn(agenda'[a])
        /\ Pushers \ {a} = Pushers' \ {a}
    BY DEF Pushers
  <1>5. Change(Cardinality(Runners), Cardinality(Runners)', running[a] # 0, running'[a] # 0)
    BY <1>1, <1>2, CountChange DEF Change
  <1>6. Change(Cardinality(Enders), Cardinality(Enders)', EndsIn(agenda[a]), EndsIn(agenda'[a]))
    BY <1>1, <1>3, CountChange DEF Change
  <1>7. Change(Cardinality(Pushers), Cardinality(Pushers)', PushesIn(agenda[a]), PushesIn(agenda'[a]))
    BY <1>1, <1>4, CountChange DEF Change
  <1> QED BY <1>1, <1>5, <1>6, <1>7, FS_CardinalityType

\* The steps of the scheduler: what they put in front, and what they count.
SchedulerCounts(a, e) ==
    \/ /\ agenda[a][1].do \in {"schedule", "complete", "release"} /\ ~PushesIn(e)
       /\ UNCHANGED <<ready, m_ready_count>>
    \/ /\ agenda[a][1].do = "schedule" /\ PushesIn(e)
       /\ ready' = ready /\ m_ready_count' = m_ready_count + 1
    \/ /\ agenda[a][1].do = "push" /\ e = <<>>
       /\ \E n \in Tasks \ ready : ready' = ready \cup {n}
       /\ m_ready_count' = m_ready_count
    \/ /\ agenda[a][1].do = "countdown" /\ e = <<>>
       /\ ready' = ready /\ m_ready_count' = m_ready_count - 1

LEMMA FrontOf ==
  ASSUME NEW e, \A i \in DOMAIN e : e[i].do \in {"schedule", "complete", "release"}, e \in Seq(Entry)
  PROVE  FrontShaped(e) /\ ~PushesIn(e)
  <1>1. e # <<>> => 1 \in DOMAIN e
    OBVIOUS
  <1> QED BY <1>1 DEF FrontShaped, PushesIn

LEMMA SchedulerSteps ==
  ASSUME TaskInv, NEW a \in Actors, Scheduler(a)
  PROVE  \E e \in Seq(Entry) :
           /\ agenda[a] # <<>> /\ Then(a, e) /\ FrontShaped(e) /\ SchedulerCounts(a, e)
           /\ UNCHANGED <<running, futures, inside, respawns>>
  <1>i. Types /\ Numbered /\ Placed
    BY DEF TaskInv
  <1>0. PICK nothing \in Seq(Entry) : nothing = <<>>
    BY EmptySeq
  <1>e. FrontShaped(nothing) /\ ~PushesIn(nothing)
    BY <1>0, NoElement DEF FrontShaped, PushesIn
  <1>1. CASE ScheduleDependent(a)
    <2>1. PICK n, p \in Tasks :
            /\ Do(a, "schedule")
            /\ node[p].consumed => Then(a, Returned(n, p) \o <<Schedule(n)>>)
            /\ ~node[p].consumed => Then(a, Returned(n, p))
            /\ UNCHANGED <<ready, m_ready_count, running, futures, inside, respawns>>
      BY <1>1, DependentEffect
    <2>2. PICK e : Then(a, e) /\ e \in {<<>>, <<Release(p)>>, <<Schedule(n)>>, <<Release(p), Schedule(n)>>}
      BY <2>1, EntryLists DEF Returned
    <2>3. e \in Seq(Entry) /\ Range(e) \subseteq {Release(p), Schedule(n)}
      <3>1. e \in Seq(Entry)
        BY <2>2, EntryTypes, EntryLists
      <3>2. Range(e) \subseteq {Release(p), Schedule(n)}
        BY <2>2, Fronts, Zenon
      <3> QED BY <3>1, <3>2
    <2>4. \A i \in DOMAIN e : e[i].do \in {"schedule", "complete", "release"}
      BY <2>3, Listed, EntryFields
    <2>5. FrontShaped(e) /\ ~PushesIn(e)
      BY <2>3, <2>4, FrontOf
    <2> QED BY <2>1, <2>2, <2>3, <2>5 DEF SchedulerCounts, Do
  <1>2. CASE ScheduleReady(a)
    <2>1. PICK n \in Tasks :
            /\ Do(a, "schedule")
            /\ m_ready_count' = m_ready_count + 1
            /\ Then(a, <<Enqueue(n)>>)
            /\ UNCHANGED <<ready, running, futures, inside, respawns>>
      BY <1>2, ReadyEffect
    <2>2. PICK e \in Seq(Entry) : e = <<Enqueue(n)>>
      BY EntryTypes
    <2>3. DOMAIN e = {1} /\ e[1].do = "push" /\ e # <<>>
      BY <2>2, EntryFields
    <2>4. FrontShaped(e) /\ PushesIn(e)
      BY <2>3 DEF FrontShaped, PushesIn
    <2> QED BY <2>1, <2>2, <2>4 DEF SchedulerCounts, Do
  <1>3. CASE PushReady(a)
    <2>1. /\ Do(a, "push") /\ Then(a, <<>>) /\ ready' = ready \cup {The(a)}
          /\ UNCHANGED <<m_ready_count, running, futures, inside, respawns>>
      BY <1>3 DEF PushReady
    <2>2. The(a) \in Tasks
      BY <2>1, <1>i, HeadCarries
    <2>3. The(a) \notin ready
      BY <2>1, <1>i, CarriedOnly
    <2> QED BY <2>1, <2>2, <2>3, <1>0, <1>e DEF SchedulerCounts, Do
  <1>4. CASE ScheduleAggregate(a)
    <2>1. PICK n, p \in Tasks :
            /\ Do(a, "schedule")
            /\ node[p].consumed => Then(a, <<Release(p)>> \o <<Schedule(n)>>)
            /\ ~node[p].consumed => Then(a, <<Release(p)>> \o <<>>)
            /\ UNCHANGED <<ready, m_ready_count, running, futures, inside, respawns>>
      BY <1>4, AggregateEffect
    <2>2. PICK e : Then(a, e) /\ e \in {<<Release(p)>>, <<Release(p), Schedule(n)>>}
      BY <2>1, EntryLists
    <2>3. e \in Seq(Entry) /\ Range(e) \subseteq {Release(p), Schedule(n)}
      <3>1. e \in Seq(Entry)
        BY <2>2, EntryTypes, EntryLists
      <3>2. Range(e) \subseteq {Release(p), Schedule(n)}
        BY <2>2, Fronts, Zenon
      <3> QED BY <3>1, <3>2
    <2>4. \A i \in DOMAIN e : e[i].do \in {"schedule", "complete", "release"}
      BY <2>3, Listed, EntryFields
    <2>5. FrontShaped(e) /\ ~PushesIn(e)
      BY <2>3, <2>4, FrontOf
    <2> QED BY <2>1, <2>2, <2>3, <2>5 DEF SchedulerCounts, Do
  <1>5. CASE AggregateDone(a)
    <2>1. /\ Do(a, "schedule") /\ Then(a, <<Complete(The(a))>>)
          /\ UNCHANGED <<ready, m_ready_count, running, futures, inside, respawns>>
      BY <1>5 DEF AggregateDone
    <2>2. PICK n \in Tasks : n = The(a)
      BY <2>1, <1>i, HeadCarries
    <2>3. PICK e \in Seq(Entry) : e = <<Complete(n)>>
      BY EntryTypes
    <2>4. \A i \in DOMAIN e : e[i].do \in {"schedule", "complete", "release"}
      BY <2>3, EntryFields
    <2>5. FrontShaped(e) /\ ~PushesIn(e)
      BY <2>3, <2>4, FrontOf
    <2> QED BY <2>1, <2>2, <2>3, <2>5 DEF SchedulerCounts, Do
  <1>6. CASE CompleteTask(a)
    <2>1. PICK n \in Tasks, waiting \in Seq(Tasks), schedules \in Seq(Entry) :
            /\ Do(a, "complete") /\ n = The(a) /\ waiting = node[n].wait
            /\ ScheduleList(schedules, waiting)
            /\ Then(a, schedules \o <<Release(n)>>)
            /\ UNCHANGED <<ready, m_ready_count, running, futures, inside, respawns>>
      BY <1>6, CompleteEffect DEF ScheduleList
    <2>2. PICK e : e = schedules \o <<Release(n)>>
      OBVIOUS
    <2>3. IsInjective(waiting)
      BY <2>1, <1>i DEF Placed
    <2>4. CompleteList(e, n, waiting)
      BY <2>1, <2>2, <2>3, CompletionList
    <2>5. e \in Seq(Entry) /\ \A i \in DOMAIN e : e[i] = Release(n) \/ \E m \in Range(waiting) : e[i] = Schedule(m)
      BY <2>4 DEF CompleteList
    <2>6. \A i \in DOMAIN e : e[i].do \in {"schedule", "complete", "release"}
      BY <2>5, EntryFields
    <2>7. FrontShaped(e) /\ ~PushesIn(e)
      BY <2>5, <2>6, FrontOf
    <2> QED BY <2>1, <2>2, <2>5, <2>7 DEF SchedulerCounts, Do
  <1>7. CASE Deallocates(a)
    <2>1. /\ Do(a, "release") /\ Then(a, <<>>)
          /\ UNCHANGED <<ready, m_ready_count, running, futures, inside, respawns>>
      BY <1>7 DEF Deallocates
    <2> QED BY <2>1, <1>0, <1>e DEF SchedulerCounts, Do
  <1>8. CASE DecrementReadyCount(a)
    <2>1. /\ Do(a, "countdown") /\ Then(a, <<>>) /\ m_ready_count' = m_ready_count - 1
          /\ UNCHANGED <<ready, running, futures, inside, respawns>>
      BY <1>8 DEF DecrementReadyCount
    <2> QED BY <2>1, <1>0, <1>e DEF SchedulerCounts, Do
  <1> QED BY <1>1, <1>2, <1>3, <1>4, <1>5, <1>6, <1>7, <1>8 DEF Scheduler

\* The actors' code after a step of the scheduler.
LEMMA ShapedScheduler ==
  ASSUME TaskInv, [TaskNext]_taskVars, NEW a \in Actors, Scheduler(a)
  PROVE  Shaped' /\ Counted'
  <1>i. Types /\ Shaped /\ Counted /\ Types'
    BY StepNumbered DEF TaskInv
  <1>1. PICK e \in Seq(Entry) :
           /\ agenda[a] # <<>> /\ Then(a, e) /\ FrontShaped(e) /\ SchedulerCounts(a, e)
           /\ UNCHANGED <<running, futures, inside, respawns>>
    BY SchedulerSteps
  <1>2. PICK s \in Seq(Entry) : s = agenda[a] /\ s # <<>> /\ ShapedList(s)
    BY <1>1, <1>i DEF Types, Shaped
  <1>3. agenda'[a] = e \o Tail(s) /\ \A b \in Actors : b # a => agenda'[b] = agenda[b]
    BY <1>1, <1>2, <1>i, ThenTodo
  <1>4. /\ ShapedList(e \o Tail(s))
        /\ PushesIn(e \o Tail(s)) <=> PushesIn(e)
        /\ s[1].do # "countdown" => (EndsIn(e \o Tail(s)) <=> EndsIn(s))
        /\ s[1].do = "countdown" => EndsIn(s)
        /\ s[1].do = "countdown" /\ e = <<>> => e \o Tail(s) = <<>>
    BY <1>1, <1>2, ListShape
  <1>5. /\ ShapedList(agenda'[a])
        /\ PushesIn(agenda'[a]) <=> PushesIn(e)
        /\ s[1].do # "countdown" => (EndsIn(agenda'[a]) <=> EndsIn(agenda[a]))
        /\ s[1].do = "countdown" => EndsIn(agenda[a])
        /\ s[1].do = "countdown" /\ e = <<>> => agenda'[a] = <<>>
    BY <1>2, <1>3, <1>4
  <1>6. Shaped'
    <2>1. \A b \in Actors : ShapedList(agenda'[b])
      BY <1>3, <1>5, <1>i DEF Shaped
    <2>2. a \in Workers => (agenda'[a] # <<>> => running[a] # 0 \/ EndsIn(agenda'[a]))
      <3>1. CASE s[1].do = "countdown"
        <4>1. e = <<>>
          BY <3>1, <1>1, <1>2 DEF SchedulerCounts
        <4> QED BY <3>1, <4>1, <1>5
      <3>2. CASE s[1].do # "countdown"
        BY <3>2, <1>1, <1>5, <1>i DEF Shaped
      <3> QED BY <3>1, <3>2
    <2>3. ASSUME NEW w \in Workers
          PROVE  /\ running'[w] # 0 \/ agenda'[w] # <<>> => w \in inside'
                 /\ agenda'[w] # <<>> => running'[w] # 0 \/ EndsIn(agenda'[w])
      <3>1. w \in Actors /\ running'[w] = running[w] /\ inside' = inside
        BY <1>1 DEF Actors
      <3>2. CASE w = a
        BY <3>1, <3>2, <2>2, <1>1, <1>i DEF Shaped
      <3>3. CASE w # a
        BY <3>1, <3>3, <1>3, <1>i DEF Shaped
      <3> QED BY <3>2, <3>3
    <2>4. inside' # {} => agenda'[Host] = <<>>
      <3>1. Host \in Actors
        BY DEF Actors
      <3>2. inside # {} => Host # a
        BY <1>1, <1>i DEF Shaped
      <3> QED BY <3>1, <3>2, <1>1, <1>3, <1>i DEF Shaped
    <2> QED BY <2>1, <2>3, <2>4, <1>1, <1>i DEF Shaped
  <1>7. Counted'
    <2>1. /\ Cardinality(ready) \in Nat
          /\ Cardinality(Runners) \in Nat /\ Cardinality(Enders) \in Nat /\ Cardinality(Pushers) \in Nat
          /\ Change(Cardinality(Runners), Cardinality(Runners)', running[a] # 0, running'[a] # 0)
          /\ Change(Cardinality(Enders), Cardinality(Enders)', EndsIn(agenda[a]), EndsIn(agenda'[a]))
          /\ Change(Cardinality(Pushers), Cardinality(Pushers)', PushesIn(agenda[a]), PushesIn(agenda'[a]))
      BY <1>1, <1>3, <1>i, NumbersChange
    <2>2. Cardinality(Runners)' = Cardinality(Runners)
      BY <2>1, <1>1 DEF Change
    <2>3. PushesIn(agenda[a]) <=> s[1].do = "push"
      BY <1>2 DEF PushesIn
    <2>4. m_ready_count \in Int
      BY <1>i DEF Types
    <2>5. CASE s[1].do = "countdown" /\ e = <<>> /\ ready' = ready /\ m_ready_count' = m_ready_count - 1
      <3>1. ~EndsIn(agenda'[a]) /\ EndsIn(agenda[a]) /\ ~PushesIn(agenda[a]) /\ ~PushesIn(agenda'[a])
        BY <2>3, <2>5, <1>5 DEF EndsIn, PushesIn
      <3>2. Cardinality(Enders)' = Cardinality(Enders) - 1 /\ Cardinality(Pushers)' = Cardinality(Pushers)
        BY <3>1, <2>1 DEF Change
      <3> QED BY <3>2, <2>1, <2>2, <2>4, <2>5, <1>i DEF Counted
    <2>6. CASE s[1].do # "countdown"
      <3>1. Cardinality(Enders)' = Cardinality(Enders)
        BY <2>1, <2>6, <1>5 DEF Change
      <3>2. CASE /\ s[1].do \in {"schedule", "complete", "release"} /\ ~PushesIn(e)
                 /\ UNCHANGED <<ready, m_ready_count>>
        <4>1. Cardinality(Pushers)' = Cardinality(Pushers)
          BY <2>1, <2>3, <3>2, <1>5 DEF Change
        <4> QED BY <4>1, <3>1, <3>2, <2>2, <1>i DEF Counted
      <3>3. CASE /\ s[1].do = "schedule" /\ PushesIn(e)
                 /\ ready' = ready /\ m_ready_count' = m_ready_count + 1
        <4>1. Cardinality(Pushers)' = Cardinality(Pushers) + 1
          BY <2>1, <2>3, <3>3, <1>5 DEF Change
        <4> QED BY <4>1, <3>1, <3>3, <2>1, <2>2, <2>4, <1>i DEF Counted
      <3>4. CASE /\ s[1].do = "push" /\ e = <<>>
                 /\ \E n \in Tasks \ ready : ready' = ready \cup {n}
                 /\ m_ready_count' = m_ready_count
        <4>1. ~PushesIn(e)
          BY <3>4 DEF PushesIn
        <4>2. Cardinality(Pushers)' = Cardinality(Pushers) - 1
          BY <2>1, <2>3, <3>4, <4>1, <1>5 DEF Change
        <4>3. PICK n \in Tasks \ ready : ready' = ready \cup {n}
          BY <3>4
        <4>4. Cardinality(ready') = Cardinality(ready) + 1
          BY <4>3, <1>i, FiniteActors, FS_AddElement
        <4> QED BY <4>2, <4>4, <3>1, <3>4, <2>1, <2>2, <2>4, <1>i DEF Counted
      <3> QED BY <3>2, <3>3, <3>4, <2>6, <1>1, <1>2 DEF SchedulerCounts
    <2> QED BY <2>5, <2>6, <1>1, <1>2 DEF SchedulerCounts
  <1> QED BY <1>6, <1>7

\* An actor enters the scheduler's code.
LEMMA ShapedStarts ==
  ASSUME TaskInv, Types', NEW a \in Actors, NEW e \in Seq(Entry),
         agenda[a] = <<>>, agenda' = [agenda EXCEPT ![a] = e], ShapedList(e), ~PushesIn(e),
         UNCHANGED <<ready, m_ready_count, inside>>,
         \/ running' = running /\ ~EndsIn(e) /\ (a = Host => inside = {})
            /\ (a # Host => running[a] # 0)
         \/ running[a] # 0 /\ running' = [running EXCEPT ![a] = 0] /\ EndsIn(e)
  PROVE  Shaped' /\ Counted'
  <1>i. Types /\ Shaped /\ Counted
    BY DEF TaskInv
  <1>1. /\ agenda \in [Actors -> Seq(Entry)] /\ running \in [Actors -> 0 .. MaxWork]
        /\ Cardinality(ready) \in Nat /\ m_ready_count \in Int
    BY <1>i, FiniteActors, FS_CardinalityType DEF Types
  <1>2. agenda'[a] = e /\ \A b \in Actors : b # a => agenda'[b] = agenda[b] /\ running'[b] = running[b]
    BY <1>1
  <1>3. ~EndsIn(agenda[a]) /\ ~PushesIn(agenda[a])
    BY DEF EndsIn, PushesIn
  <1>4. /\ Cardinality(Runners) \in Nat /\ Cardinality(Enders) \in Nat /\ Cardinality(Pushers) \in Nat
        /\ Change(Cardinality(Runners), Cardinality(Runners)', running[a] # 0, running'[a] # 0)
        /\ Change(Cardinality(Enders), Cardinality(Enders)', EndsIn(agenda[a]), EndsIn(agenda'[a]))
        /\ Change(Cardinality(Pushers), Cardinality(Pushers)', PushesIn(agenda[a]), PushesIn(agenda'[a]))
    BY <1>2, <1>i, NumbersChange
  <1>5. Cardinality(Pushers)' = Cardinality(Pushers)
    BY <1>2, <1>3, <1>4 DEF Change
  <1>6. running[Host] = 0 /\ Host \in Actors
    BY <1>i DEF Shaped, Actors
  <1>7. \A b \in Actors : ShapedList(agenda'[b])
    BY <1>2, <1>i DEF Shaped
  <1>8. CASE running' = running /\ ~EndsIn(e) /\ (a = Host => inside = {}) /\ (a # Host => running[a] # 0)
    <2>1. Cardinality(Runners)' = Cardinality(Runners) /\ Cardinality(Enders)' = Cardinality(Enders)
      BY <1>2, <1>3, <1>4, <1>8 DEF Change
    <2>2. Counted'
      BY <2>1, <1>5, <1>i DEF Counted
    <2>3. ASSUME NEW w \in Workers
          PROVE  /\ running'[w] # 0 \/ agenda'[w] # <<>> => w \in inside'
                 /\ agenda'[w] # <<>> => running'[w] # 0 \/ EndsIn(agenda'[w])
      <3>1. w \in Actors /\ w # Host
        BY HostAssumption DEF Actors
      <3>2. CASE w = a
        BY <3>1, <3>2, <1>8, <1>i DEF Shaped
      <3>3. CASE w # a
        BY <3>1, <3>3, <1>2, <1>8, <1>i DEF Shaped
      <3> QED BY <3>2, <3>3
    <2>4. inside' # {} => agenda'[Host] = <<>>
      BY <1>2, <1>6, <1>8, <1>i DEF Shaped
    <2> QED BY <2>2, <2>3, <2>4, <1>6, <1>7, <1>8 DEF Shaped
  <1>9. CASE running[a] # 0 /\ running' = [running EXCEPT ![a] = 0] /\ EndsIn(e)
    <2>1. running'[a] = 0 /\ a # Host
      BY <1>1, <1>6, <1>9
    <2>2. Cardinality(Runners)' = Cardinality(Runners) - 1 /\ Cardinality(Enders)' = Cardinality(Enders) + 1
      BY <2>1, <1>2, <1>3, <1>4, <1>9 DEF Change
    <2>3. Counted'
      BY <2>2, <1>1, <1>4, <1>5, <1>i DEF Counted
    <2>4. ASSUME NEW w \in Workers
          PROVE  /\ running'[w] # 0 \/ agenda'[w] # <<>> => w \in inside'
                 /\ agenda'[w] # <<>> => running'[w] # 0 \/ EndsIn(agenda'[w])
      <3>1. w \in Actors
        BY DEF Actors
      <3>2. CASE w = a
        BY <3>1, <3>2, <1>2, <1>9, <1>i DEF Shaped
      <3>3. CASE w # a
        BY <3>1, <3>3, <1>2, <1>i DEF Shaped
      <3> QED BY <3>2, <3>3
    <2>5. (inside' # {} => agenda'[Host] = <<>>) /\ running'[Host] = 0
      BY <2>1, <1>2, <1>6, <1>i DEF Shaped
    <2> QED BY <2>3, <2>4, <2>5, <1>7 DEF Shaped
  <1> QED BY <1>8, <1>9

\* Lists without a push and without a countdown, but at the end.
LEMMA StartShape ==
  ASSUME NEW e \in Seq(Entry),
         \A i \in DOMAIN e : e[i].do # "push" /\ (e[i].do = "countdown" => i = Len(e))
  PROVE  ShapedList(e) /\ ~PushesIn(e)
  <1>1. e # <<>> => 1 \in DOMAIN e
    OBVIOUS
  <1> QED BY <1>1 DEF ShapedList, PushesIn

LEMMA NeverEnds ==
  ASSUME NEW e \in Seq(Entry), \A i \in DOMAIN e : e[i].do # "countdown"
  PROVE  ~EndsIn(e)
  <1>1. e # <<>> => Len(e) \in DOMAIN e
    OBVIOUS
  <1> QED BY <1>1 DEF EndsIn

LEMMA StepShaped == ASSUME TaskInv, [TaskNext]_taskVars PROVE Shaped' /\ Counted'
  <1>i. Types /\ Numbered /\ Shaped /\ Counted /\ Types'
    BY StepNumbered DEF TaskInv
  <1>t. /\ node \in [Tasks -> NodeType] /\ ready \in SUBSET Tasks /\ m_ready_count \in Int
        /\ agenda \in [Actors -> Seq(Entry)] /\ running \in [Actors -> 0 .. MaxWork]
        /\ inside \in SUBSET Workers
    BY <1>i DEF Types
  <1>n. \A m \in Tasks : m # 0
    BY MaxWorkAssumption DEF Tasks
  <1>h. Host \in Actors /\ Host \notin Workers /\ Workers \subseteq Actors
    BY HostAssumption DEF Actors
  <1>q. ASSUME UNCHANGED <<ready, m_ready_count, running, agenda>>,
               inside' \in SUBSET Workers, inside' # {} => agenda[Host] = <<>>,
               \A w \in Workers : running[w] # 0 \/ agenda[w] # <<>> => w \in inside'
        PROVE  Shaped' /\ Counted'
    <2>1. Runners' = Runners /\ Enders' = Enders /\ Pushers' = Pushers
      BY <1>q DEF Runners, Enders, Pushers
    <2>2. Counted'
      BY <2>1, <1>q, <1>i DEF Counted
    <2>3. Shaped'
      BY <1>q, <1>i DEF Shaped
    <2> QED BY <2>2, <2>3
  <1>1. CASE UNCHANGED taskVars
    <2>1. UNCHANGED <<ready, m_ready_count, running, agenda, inside>>
      BY <1>1 DEF taskVars
    <2> QED BY <2>1, <1>q, <1>t, <1>i DEF Shaped
  <1>2. CASE ExecuteTasks
    <2>1. UNCHANGED <<ready, m_ready_count, running, agenda>> /\ inside' = Workers /\ agenda[Host] = <<>>
      BY <1>2 DEF ExecuteTasks
    <2> QED BY <2>1, <1>q
  <1>3. ASSUME NEW a \in Actors, Leave(a) PROVE Shaped' /\ Counted'
    <2>1. UNCHANGED <<ready, m_ready_count, running, agenda>> /\ inside' = inside \ {a} /\ a \in inside
          /\ running[a] = 0 /\ agenda[a] = <<>>
      BY <1>3 DEF Leave, Resting
    <2>2. inside' \in SUBSET Workers /\ (inside' # {} => agenda[Host] = <<>>)
      BY <2>1, <1>t, <1>i DEF Shaped
    <2>3. \A w \in Workers : running[w] # 0 \/ agenda[w] # <<>> => w \in inside'
      BY <2>1, <1>i DEF Shaped
    <2> QED BY <2>1, <2>2, <2>3, <1>q
  <1>4. ASSUME NEW a \in Actors, Run(a) PROVE Shaped' /\ Counted'
    <2>1. PICK n \in ready : ready' = ready \ {n} /\ running' = [running EXCEPT ![a] = n]
      BY <1>4 DEF Run
    <2>2. /\ running[a] = 0 /\ agenda[a] = <<>> /\ a \in inside
          /\ UNCHANGED <<m_ready_count, agenda, inside>> /\ n \in Tasks
      BY <1>4, <1>t DEF Run, Resting
    <2>3. /\ running'[a] = n /\ n # 0 /\ a # Host /\ a \in Workers
          /\ \A b \in Actors : b # a => running'[b] = running[b]
      BY <2>1, <2>2, <1>t, <1>n, <1>h
    <2>4. Shaped'
      BY <2>2, <2>3, <1>h, <1>i DEF Shaped
    <2>5. Counted'
      <3>1. /\ Cardinality(ready) \in Nat
            /\ Cardinality(Runners) \in Nat /\ Cardinality(Enders) \in Nat /\ Cardinality(Pushers) \in Nat
            /\ Change(Cardinality(Runners), Cardinality(Runners)', running[a] # 0, running'[a] # 0)
        BY <2>2, <2>3, <1>i, NumbersChange
      <3>2. Cardinality(Runners)' = Cardinality(Runners) + 1
        BY <3>1, <2>2, <2>3 DEF Change
      <3>3. Cardinality(ready') = Cardinality(ready) - 1
        BY <2>1, <1>i, FiniteActors, FS_RemoveElement
      <3>4. Enders' = Enders /\ Pushers' = Pushers
        BY <2>2 DEF Enders, Pushers
      <3> QED BY <3>1, <3>2, <3>3, <3>4, <2>2, <1>t, <1>i DEF Counted
    <2> QED BY <2>4, <2>5
  <1>5. ASSUME NEW a \in Actors, Scheduler(a) PROVE Shaped' /\ Counted'
    BY <1>5, ShapedScheduler
  <1>6. ASSUME NEW a \in Actors, Respawn(a) PROVE Shaped' /\ Counted'
    <2>1. UNCHANGED <<ready, m_ready_count, running, agenda, inside>>
      BY <1>6 DEF Respawn
    <2> QED BY <2>1, <1>q, <1>t, <1>i DEF Shaped
  <1>u. ASSUME NEW a \in Actors, InUserCode(a)
        PROVE  agenda[a] = <<>> /\ (a = Host => inside = {}) /\ (a # Host => running[a] # 0)
    BY <1>u DEF InUserCode
  <1>7. ASSUME NEW a \in Actors, DropFutures(a) PROVE Shaped' /\ Counted'
    <2>1. PICK x \in Owners : x = Self(a)
      BY <1>7, <1>i, UserCodeOf DEF DropFutures
    <2>2. PICK ps \in SUBSET futures[x] :
            futures' = [futures EXCEPT ![x] = @ \ ps] /\ agenda' = [agenda EXCEPT ![a] = Releases(ps)]
      BY <1>7, <2>1 DEF DropFutures
    <2>d. ps \in SUBSET Tasks
      BY <1>i DEF Types
    <2>p. PICK e : e = Releases(ps)
      OBVIOUS
    <2>3. e \in Seq(Entry) /\ \A i \in DOMAIN e : e[i].do = "release"
      BY <2>p, <2>d, ReleasesList, EntryFields
    <2>4. ShapedList(e) /\ ~PushesIn(e)
      BY <2>3, StartShape
    <2>5. ~EndsIn(e)
      BY <2>3, NeverEnds
    <2>6. /\ InUserCode(a) /\ agenda' = [agenda EXCEPT ![a] = e]
          /\ UNCHANGED <<ready, m_ready_count, running, inside>>
      BY <1>7, <2>2, <2>p DEF DropFutures
    <2> QED BY <2>3, <2>4, <2>5, <2>6, <1>u, <1>i, ShapedStarts
  <1>8. ASSUME NEW a \in Actors, NEW n \in Tasks, Spawn(a, n) \/ WhenAll(a, n) PROVE Shaped' /\ Counted'
    <2>1. /\ InUserCode(a) /\ agenda' = [agenda EXCEPT ![a] = <<Schedule(n)>>]
          /\ UNCHANGED <<ready, m_ready_count, running, inside>>
      BY <1>8 DEF Spawn, WhenAll
    <2>2. PICK e \in Seq(Entry) : e = <<Schedule(n)>>
      BY EntryTypes
    <2>3. \A i \in DOMAIN e : e[i].do = "schedule"
      BY <2>2, EntryFields
    <2>4. ShapedList(e) /\ ~PushesIn(e)
      BY <2>3, StartShape
    <2>5. ~EndsIn(e)
      BY <2>3, NeverEnds
    <2> QED BY <2>1, <2>2, <2>4, <2>5, <1>u, <1>i, ShapedStarts
  <1>9. ASSUME NEW a \in Actors, Finish(a) PROVE Shaped' /\ Counted'
    <2>1. PICK x \in Tasks : x = running[a]
      BY <1>9, <1>t, MaxWorkAssumption DEF Finish, Tasks
    <2>2. /\ agenda[a] = <<>> /\ running[a] # 0
          /\ UNCHANGED <<ready, m_ready_count, inside>> /\ running' = [running EXCEPT ![a] = 0]
      BY <1>9 DEF Finish
    <2>3. PICK e \in Seq(Entry) :
            agenda' = [agenda EXCEPT ![a] = e] /\ ShapedList(e) /\ ~PushesIn(e) /\ EndsIn(e)
      <3>1. CASE node[x].flag
        <4>1. PICK e : e = <<Schedule(x), CountDown>>
          OBVIOUS
        <4>2. agenda' = [agenda EXCEPT ![a] = e]
          BY <3>1, <4>1, <1>9, <2>1 DEF Finish
        <4>3. e \in Seq(Entry) /\ Len(e) = 2 /\ DOMAIN e = {1, 2} /\ e[1] = Schedule(x) /\ e[2] = CountDown /\ e # <<>>
          BY <4>1, RespawnList
        <4>4. EndsIn(e)
          BY <4>3, EntryFields DEF EndsIn
        <4>5. \A i \in DOMAIN e : e[i].do # "push" /\ (e[i].do = "countdown" => i = Len(e))
          BY <4>3, EntryFields
        <4>6. ShapedList(e) /\ ~PushesIn(e)
          BY <4>3, <4>5, StartShape
        <4> QED BY <4>2, <4>3, <4>4, <4>6
      <3>2. CASE ~node[x].flag
        <4>1. PICK e : e = Releases(futures[x]) \o Completion(x)
          OBVIOUS
        <4>2. agenda' = [agenda EXCEPT ![a] = e]
          BY <3>2, <4>1, <1>9, <2>1 DEF Finish
        <4>3. PICK drops \in Seq(Tasks) : EndList(e, x, drops)
          BY <4>1, <1>i, FinishList
        <4>4. e \in Seq(Entry) /\ EndsIn(e)
          BY <4>3, EntryFields DEF EndList, EndsIn
        <4>5. ASSUME NEW i \in DOMAIN e PROVE e[i].do # "push" /\ (e[i].do = "countdown" => i = Len(e))
          <5>1. \/ e[i] = Complete(x) \/ e[i] = Release(drops[i]) \/ (e[i] = CountDown /\ i = Len(e))
            BY <4>3 DEF EndList
          <5> QED BY <5>1, EntryFields
        <4>6. ShapedList(e) /\ ~PushesIn(e)
          BY <4>4, <4>5, StartShape
        <4> QED BY <4>2, <4>4, <4>6
      <3> QED BY <3>1, <3>2
    <2> QED BY <2>2, <2>3, <1>i, ShapedStarts
  <1> QED BY <1>1, <1>2, <1>3, <1>4, <1>5, <1>6, <1>7, <1>8, <1>9, NextCases DEF Scheduler

-----------------------------------------------------------------------------
\* The order of tasks and predecessors.

\* Who is past its predecessors after a step of the code of a.
PastGrows(a, e, n) ==
    \A b \in Actors : PastIn(agenda'[b], n) => PastIn(agenda[b], n) \/ PastIn(e, n)

LEMMA PastThen ==
  ASSUME Types, NEW a \in Actors, NEW e \in Seq(Entry), agenda[a] # <<>>, Then(a, e), NEW n
  PROVE  PastGrows(a, e, n)
  <1> SUFFICES ASSUME NEW b \in Actors, PastIn(agenda'[b], n)
               PROVE  PastIn(agenda[b], n) \/ PastIn(e, n)
    BY DEF PastGrows
  <1>1. agenda'[a] = e \o Tail(agenda[a]) /\ \A c \in Actors : c # a => agenda'[c] = agenda[c]
    BY ThenTodo
  <1>2. CASE b # a
    BY <1>1, <1>2
  <1>3. CASE b = a
    <2>1. PICK s \in Seq(Entry) : s = agenda[a] /\ s # <<>>
      BY DEF Types
    <2>2. PICK r : r = e \o Tail(s)
      OBVIOUS
    <2>3. /\ DOMAIN r = 1 .. Len(r) /\ DOMAIN s = 1 .. Len(s)
          /\ \A i \in DOMAIN r : \/ i \in DOMAIN e /\ r[i] = e[i]
                                 \/ /\ i > Len(e) /\ i - Len(e) + 1 \in 2 .. Len(s)
                                    /\ r[i] = s[i - Len(e) + 1]
      BY <2>1, <2>2, ThenSequence
    <2>4. PICK i \in DOMAIN r : r[i].do \in {"push", "complete"} /\ r[i].n = n
      BY <1>1, <1>3, <2>1, <2>2 DEF PastIn
    <2>5. CASE i \in DOMAIN e /\ r[i] = e[i]
      BY <2>4, <2>5 DEF PastIn
    <2>6. CASE i - Len(e) + 1 \in 2 .. Len(s) /\ r[i] = s[i - Len(e) + 1]
      <3>1. PICK j \in 2 .. Len(s) : r[i] = s[j]
        BY <2>6
      <3>2. j \in DOMAIN s
        BY <2>1, <2>3, <3>1
      <3> QED BY <3>1, <3>2, <2>4, <2>1, <1>3 DEF PastIn
    <2> QED BY <2>3, <2>5, <2>6
  <1> QED BY <1>2, <1>3

LEMMA PastStarts ==
  ASSUME Types, NEW a \in Actors, NEW e, agenda' = [agenda EXCEPT ![a] = e], NEW n
  PROVE  PastGrows(a, e, n)
  <1>1. agenda \in [Actors -> Seq(Entry)]
    BY DEF Types
  <1>2. agenda'[a] = e /\ \A b \in Actors : b # a => agenda'[b] = agenda[b]
    BY <1>1
  <1> QED BY <1>2 DEF PastGrows

\* Lists that take nobody past its predecessors.
LEMMA NobodyPast ==
  ASSUME NEW e, \A i \in DOMAIN e : e[i].do \notin {"push", "complete"}, NEW n
  PROVE  ~PastIn(e, n)
  BY DEF PastIn

\* The predecessors of m are kept, and those it looks at or waits for.
Keeps(m) ==
    /\ node'[m].after = node[m].after /\ node'[m].deps = node[m].deps
    /\ node'[m].kind = "runnable" => node[m].kind = "runnable"
    /\ \A p \in Tasks : m \in Range(node[p].wait) => m \in Range(node'[p].wait) \/ node'[p].consumed
Lasting == \A m \in Tasks : node[m].consumed => node'[m].consumed

LEMMA OrderedKeeps ==
  ASSUME TaskInv, Lasting, NEW m \in Tasks, Keeps(m),
         Settled(m)' => Settled(m) \/ node[m].deps = <<>>
  PROVE  /\ \A p \in node'[m].after :
              node'[p].consumed \/ p \in Range(node'[m].deps) \/ m \in Range(node'[p].wait)
         /\ Settled(m)' => node'[m].deps = <<>>
         /\ node'[m].kind = "runnable" => Len(node'[m].deps) <= 1
  <1>1. Types /\ Ordered
    BY DEF TaskInv
  <1>2. node[m].after \in SUBSET Tasks
    BY <1>1, FieldTypes DEF Types
  <1> QED BY <1>1, <1>2 DEF Ordered, Keeps, Lasting

\* What the nodes have to keep for a step that changes none of the lists.
LEMMA OrderedQuiet ==
  ASSUME TaskInv, Lasting, \A m \in Tasks : Keeps(m),
         \A m \in Tasks : Settled(m)' => Settled(m) \/ node[m].deps = <<>>
  PROVE  Ordered'
  BY OrderedKeeps DEF Ordered

\* The same, with one task that changes.
LEMMA OrderedBut ==
  ASSUME TaskInv, Lasting, NEW n \in Tasks, \A m \in Tasks : m # n => Keeps(m),
         \A m \in Tasks : m # n => (Settled(m)' => Settled(m) \/ node[m].deps = <<>>),
         \A p \in node'[n].after :
              node'[p].consumed \/ p \in Range(node'[n].deps) \/ n \in Range(node'[p].wait),
         Settled(n)' => node'[n].deps = <<>>,
         node'[n].kind = "runnable" => Len(node'[n].deps) <= 1
  PROVE  Ordered'
  BY OrderedKeeps DEF Ordered

\* try_add_waiting loses nobody who waits.
LEMMA WaitGrows ==
  ASSUME Types, NEW n \in Tasks, NEW p \in Tasks,
         node'[p].wait = IF node[p].consumed THEN node[p].wait ELSE <<n>> \o node[p].wait,
         \A m \in Tasks : m # p => node'[m].wait = node[m].wait
  PROVE  /\ \A m, q \in Tasks : m \in Range(node[q].wait) => m \in Range(node'[q].wait)
         /\ ~node[p].consumed => n \in Range(node'[p].wait)
         /\ \A m, q \in Tasks : m \in Range(node'[q].wait) => m \in Range(node[q].wait) \/ (m = n /\ q = p)
  <1>1. node[p].wait \in Seq(Tasks)
    BY FieldTypes DEF Types
  <1>2. CASE node[p].consumed
    BY <1>2
  <1>3. CASE ~node[p].consumed
    <2>1. node'[p].wait = <<n>> \o node[p].wait
      BY <1>3
    <2>2. Range(node'[p].wait) = Range(node[p].wait) \cup {n}
      BY <2>1, <1>1, Prepend
    <2> QED BY <2>2
  <1> QED BY <1>2, <1>3

LEMMA StepOrdered == ASSUME TaskInv, [TaskNext]_taskVars PROVE Ordered'
  <1>i. Types /\ Numbered /\ Placed /\ Shaped /\ Ordered
    BY DEF TaskInv
  <1>t. /\ node \in [Tasks -> NodeType] /\ ready \in SUBSET Tasks
        /\ agenda \in [Actors -> Seq(Entry)] /\ running \in [Actors -> 0 .. MaxWork]
    BY <1>i DEF Types
  <1>n. \A m \in Tasks : m # 0
    BY MaxWorkAssumption DEF Tasks
  <1>s. ASSUME node' = node PROVE Lasting /\ \A m \in Tasks : Keeps(m)
    BY <1>s DEF Lasting, Keeps
  <1>0. PICK nothing \in Seq(Entry) : nothing = <<>>
    BY EmptySeq
  <1>e. \A m : ~PastIn(nothing, m)
    BY <1>0, NoElement DEF PastIn
  <1>1. CASE UNCHANGED taskVars
    <2>1. UNCHANGED <<ready, running, agenda, node>>
      BY <1>1 DEF taskVars
    <2>2. \A m \in Tasks : Settled(m)' => Settled(m)
      BY <2>1 DEF Settled
    <2> QED BY <2>1, <2>2, <1>s, OrderedQuiet
  <1>2. CASE ExecuteTasks
    <2>1. UNCHANGED <<ready, running, agenda, node>>
      BY <1>2 DEF ExecuteTasks
    <2>2. \A m \in Tasks : Settled(m)' => Settled(m)
      BY <2>1 DEF Settled
    <2> QED BY <2>1, <2>2, <1>s, OrderedQuiet
  <1>3. ASSUME NEW a \in Actors, Leave(a) PROVE Ordered'
    <2>1. UNCHANGED <<ready, running, agenda, node>>
      BY <1>3 DEF Leave
    <2>2. \A m \in Tasks : Settled(m)' => Settled(m)
      BY <2>1 DEF Settled
    <2> QED BY <2>1, <2>2, <1>s, OrderedQuiet
  <1>4. ASSUME NEW a \in Actors, Run(a) PROVE Ordered'
    <2>1. PICK n \in ready : ready' = ready \ {n} /\ running' = [running EXCEPT ![a] = n]
      BY <1>4 DEF Run
    <2>2. UNCHANGED <<node, agenda>>
      BY <1>4 DEF Run
    <2>3. \A b \in Actors : running'[b] = running[b] \/ running'[b] = n
      BY <2>1, <1>t
    <2>4. \A m \in Tasks : Settled(m)' => Settled(m)
      BY <2>1, <2>2, <2>3 DEF Settled
    <2> QED BY <2>2, <2>4, <1>s, OrderedQuiet
  <1>5. ASSUME NEW a \in Actors, DecrementReadyCount(a) PROVE Ordered'
    <2>1. Then(a, nothing) /\ agenda[a] # <<>> /\ UNCHANGED <<node, ready, running>>
      BY <1>5, <1>0 DEF DecrementReadyCount, Do
    <2>2. \A m \in Tasks : \A b \in Actors : PastIn(agenda'[b], m) => PastIn(agenda[b], m)
      BY <2>1, <1>i, <1>e, PastThen DEF PastGrows
    <2>3. \A m \in Tasks : Settled(m)' => Settled(m)
      BY <2>1, <2>2 DEF Settled
    <2> QED BY <2>1, <2>3, <1>s, OrderedQuiet
  <1>6. ASSUME NEW a \in Actors, PushReady(a) PROVE Ordered'
    <2>1. /\ Do(a, "push") /\ agenda[a] # <<>> /\ Then(a, nothing) /\ ready' = ready \cup {The(a)}
          /\ UNCHANGED <<node, running>>
      BY <1>6, <1>0 DEF PushReady, Do
    <2>2. \A m \in Tasks : \A b \in Actors : PastIn(agenda'[b], m) => PastIn(agenda[b], m)
      BY <2>1, <1>i, <1>e, PastThen DEF PastGrows
    <2>3. PastIn(agenda[a], The(a))
      BY <2>1, <1>i, HeadEntry DEF PastIn
    <2>4. \A m \in Tasks : Settled(m)' => Settled(m)
      BY <2>1, <2>2, <2>3 DEF Settled
    <2> QED BY <2>1, <2>4, <1>s, OrderedQuiet
  <1>7. ASSUME NEW a \in Actors, AggregateDone(a) PROVE Ordered'
    <2>1. /\ Do(a, "schedule") /\ agenda[a] # <<>> /\ Then(a, <<Complete(The(a))>>)
          /\ UNCHANGED <<node, ready, running>> /\ node[The(a)].deps = <<>>
      BY <1>7 DEF AggregateDone, Do
    <2>2. PICK n \in Tasks : n = The(a)
      BY <2>1, <1>i, HeadCarries
    <2>3. PICK e \in Seq(Entry) : e = <<Complete(n)>>
      BY EntryTypes
    <2>4. \A m \in Tasks : PastIn(e, m) => m = n
      BY <2>3, EntryFields DEF PastIn
    <2>5. \A m \in Tasks : m # n => \A b \in Actors : PastIn(agenda'[b], m) => PastIn(agenda[b], m)
      BY <2>1, <2>2, <2>3, <2>4, <1>i, PastThen DEF PastGrows
    <2>6. \A m \in Tasks : Settled(m)' => Settled(m) \/ node[m].deps = <<>>
      BY <2>1, <2>2, <2>5 DEF Settled
    <2> QED BY <2>1, <2>6, <1>s, OrderedQuiet
  <1>8. ASSUME NEW a \in Actors, ScheduleReady(a) PROVE Ordered'
    <2>1. PICK n \in Tasks :
            /\ Do(a, "schedule") /\ n = The(a) /\ node[n].deps = <<>>
            /\ \A m \in Tasks : m # n => node'[m] = node[m]
            /\ \A m \in Tasks : /\ node'[m].kind = node[m].kind /\ node'[m].ref = node[m].ref
                                /\ node'[m].deps = node[m].deps /\ node'[m].after = node[m].after
                                /\ node'[m].consumed = node[m].consumed
                                /\ node'[m].wait = node[m].wait
            /\ Then(a, <<Enqueue(n)>>)
            /\ UNCHANGED <<ready, running>>
      BY <1>8, ReadyEffect
    <2>2. PICK e \in Seq(Entry) : e = <<Enqueue(n)>>
      BY EntryTypes
    <2>3. \A m \in Tasks : PastIn(e, m) => m = n
      BY <2>2, EntryFields DEF PastIn
    <2>4. agenda[a] # <<>> /\ Then(a, e)
      BY <2>1, <2>2 DEF Do
    <2>5. \A m \in Tasks : m # n => \A b \in Actors : PastIn(agenda'[b], m) => PastIn(agenda[b], m)
      BY <2>3, <2>4, <1>i, PastThen DEF PastGrows
    <2>6. \A m \in Tasks : m # n => (Settled(m)' => Settled(m))
      BY <2>1, <2>5 DEF Settled
    <2>7. \A m \in Tasks : Settled(m)' => Settled(m) \/ node[m].deps = <<>>
      BY <2>1, <2>6
    <2>8. Lasting /\ \A m \in Tasks : Keeps(m)
      BY <2>1 DEF Lasting, Keeps
    <2> QED BY <2>7, <2>8, OrderedQuiet
  <1>9. ASSUME NEW a \in Actors, Deallocates(a) PROVE Ordered'
    <2>1. PICK n \in Tasks :
            /\ Do(a, "release") /\ n = The(a) /\ n \in Created
            /\ node' \in [Tasks -> NodeType]
            /\ \A m \in Tasks : m # n => node'[m] = node[m]
            /\ node'[n].ref = node[n].ref - 1
            /\ node'[n].kind = IF node[n].ref = 1 THEN "freed" ELSE node[n].kind
            /\ node'[n].wait = node[n].wait /\ (node'[n].consumed <=> node[n].consumed)
            /\ node'[n].deps = node[n].deps /\ (node'[n].flag <=> node[n].flag)
            /\ node'[n].after = node[n].after
            /\ Then(a, <<>>)
            /\ UNCHANGED <<ready, m_ready_count, running, futures, inside, respawns>>
      BY <1>9, ReleaseEffect, Zenon
    <2>2. Then(a, nothing) /\ agenda[a] # <<>>
      BY <2>1, <1>0 DEF Do
    <2>3. \A m \in Tasks : \A b \in Actors : PastIn(agenda'[b], m) => PastIn(agenda[b], m)
      BY <2>2, <1>i, <1>e, PastThen DEF PastGrows
    <2>4. \A m \in Tasks : /\ node'[m].wait = node[m].wait /\ (node'[m].consumed <=> node[m].consumed)
                           /\ node'[m].deps = node[m].deps /\ (node'[m].flag <=> node[m].flag)
                           /\ node'[m].after = node[m].after
                           /\ node'[m].kind = node[m].kind \/ node'[m].kind = "freed"
      BY <2>1
    <2>5. \A m \in Tasks : Settled(m)' => Settled(m)
      BY <2>1, <2>3, <2>4 DEF Settled
    <2>6. Lasting /\ \A m \in Tasks : Keeps(m)
      BY <2>4 DEF Lasting, Keeps
    <2> QED BY <2>5, <2>6, OrderedQuiet
  <1>10. ASSUME NEW a \in Actors, CompleteTask(a) PROVE Ordered'
    <2>0. PICK n \in Tasks : \E waiting \in Seq(Tasks) : \E schedules \in Seq(Entry) :
            /\ Do(a, "complete") /\ n = The(a) /\ n \in Created /\ waiting = node[n].wait
            /\ Len(schedules) = Len(waiting) /\ DOMAIN schedules = DOMAIN waiting
            /\ \A i \in DOMAIN waiting : schedules[i] = Schedule(waiting[i])
            /\ node' \in [Tasks -> NodeType]
            /\ \A m \in Tasks : m # n => node'[m] = node[m]
            /\ node'[n].wait = <<>> /\ node'[n].consumed
            /\ node'[n].kind = node[n].kind /\ node'[n].ref = node[n].ref
            /\ node'[n].deps = node[n].deps /\ (node'[n].flag <=> node[n].flag)
            /\ node'[n].after = node[n].after
            /\ Then(a, schedules \o <<Release(n)>>)
            /\ UNCHANGED <<ready, m_ready_count, running, futures, inside, respawns>>
      BY <1>10, CompleteEffect, Zenon
    <2>1. PICK waiting \in Seq(Tasks), schedules \in Seq(Entry) :
            /\ Do(a, "complete") /\ n = The(a) /\ waiting = node[n].wait
            /\ ScheduleList(schedules, waiting)
            /\ \A m \in Tasks : m # n => node'[m] = node[m]
            /\ node'[n].consumed
            /\ node'[n].kind = node[n].kind /\ node'[n].ref = node[n].ref
            /\ node'[n].deps = node[n].deps /\ (node'[n].flag <=> node[n].flag)
            /\ node'[n].after = node[n].after
            /\ Then(a, schedules \o <<Release(n)>>)
            /\ UNCHANGED <<ready, running>>
      BY <2>0 DEF ScheduleList
    <2>2. PICK e : e = schedules \o <<Release(n)>>
      OBVIOUS
    <2>3. IsInjective(waiting)
      BY <2>1, <1>i DEF Placed
    <2>4. CompleteList(e, n, waiting)
      BY <2>1, <2>2, <2>3, CompletionList
    <2>5. e \in Seq(Entry) /\ \A i \in DOMAIN e : e[i] = Release(n) \/ \E m \in Range(waiting) : e[i] = Schedule(m)
      BY <2>4 DEF CompleteList
    <2>6. \A i \in DOMAIN e : e[i].do \notin {"push", "complete"}
      BY <2>5, EntryFields
    <2>7. \A m \in Tasks : ~PastIn(e, m)
      BY <2>6, NobodyPast
    <2>8. Then(a, e) /\ agenda[a] # <<>>
      BY <2>1, <2>2 DEF Do
    <2>9. \A m \in Tasks : \A b \in Actors : PastIn(agenda'[b], m) => PastIn(agenda[b], m)
      BY <2>5, <2>7, <2>8, <1>i, PastThen DEF PastGrows
    <2>10. PastIn(agenda[a], n)
      BY <2>1, <1>i, HeadEntry DEF PastIn
    <2>11. \A m \in Tasks : Settled(m)' => Settled(m)
      BY <2>1, <2>9, <2>10 DEF Settled
    <2>12. Lasting /\ \A m \in Tasks : Keeps(m)
      BY <2>1 DEF Lasting, Keeps
    <2> QED BY <2>11, <2>12, OrderedQuiet
  <1>11. ASSUME NEW a \in Actors, ScheduleDependent(a) PROVE Ordered'
    <2>1. PICK n, p \in Tasks :
           /\ Do(a, "schedule") /\ n = The(a) /\ n \in Created /\ p \in Created /\ p # n
           /\ node[n].kind = "runnable" /\ node[n].deps = <<p>> /\ Range(node[n].deps) = {p}
           /\ node' \in [Tasks -> NodeType]
           /\ \A m \in Tasks : m # n => node'[m].deps = node[m].deps /\ (node'[m].flag <=> node[m].flag)
           /\ node'[n].deps = <<>> /\ ~node'[n].flag
           /\ \A m \in Tasks : /\ node'[m].kind = node[m].kind /\ node'[m].ref = node[m].ref
                               /\ node'[m].after = node[m].after
                               /\ node'[m].consumed = node[m].consumed
                               /\ m # p => node'[m].wait = node[m].wait
           /\ node'[p].wait = IF node[p].consumed THEN node[p].wait ELSE <<n>> \o node[p].wait
           /\ node[p].consumed => Then(a, Returned(n, p) \o <<Schedule(n)>>)
           /\ ~node[p].consumed => Then(a, Returned(n, p))
           /\ UNCHANGED <<ready, m_ready_count, running, futures, inside, respawns>>
      BY <1>11, DependentEffect, Zenon
    <2>2. PICK e : Then(a, e) /\ e \in {<<>>, <<Release(p)>>, <<Schedule(n)>>, <<Release(p), Schedule(n)>>}
      BY <2>1, EntryLists DEF Returned
    <2>3. e \in Seq(Entry) /\ Range(e) \subseteq {Release(p), Schedule(n)}
      <3>1. e \in Seq(Entry)
        BY <2>2, EntryTypes, EntryLists
      <3>2. Range(e) \subseteq {Release(p), Schedule(n)}
        BY <2>2, Fronts, Zenon
      <3> QED BY <3>1, <3>2
    <2>4. \A i \in DOMAIN e : e[i].do \notin {"push", "complete"}
      BY <2>3, Listed, EntryFields
    <2>5. \A m \in Tasks : ~PastIn(e, m)
      BY <2>4, NobodyPast
    <2>6. agenda[a] # <<>>
      BY <2>1 DEF Do
    <2>7. \A m \in Tasks : \A b \in Actors : PastIn(agenda'[b], m) => PastIn(agenda[b], m)
      BY <2>2, <2>3, <2>5, <2>6, <1>i, PastThen DEF PastGrows
    <2>8. \A m \in Tasks : m # n => (Settled(m)' => Settled(m))
      BY <2>1, <2>7 DEF Settled
    <2>9. /\ \A m, q \in Tasks : m \in Range(node[q].wait) => m \in Range(node'[q].wait)
          /\ ~node[p].consumed => n \in Range(node'[p].wait)
      <3>1. \A m \in Tasks : m # p => node'[m].wait = node[m].wait
        BY <2>1
      <3> QED BY <2>1, <3>1, <1>i, WaitGrows
    <2>10. Lasting /\ \A m \in Tasks : m # n => Keeps(m)
      BY <2>1, <2>9 DEF Lasting, Keeps
    <2>11. ASSUME NEW q \in node'[n].after
           PROVE  node'[q].consumed \/ q \in Range(node'[n].deps) \/ n \in Range(node'[q].wait)
      <3>1. q \in node[n].after /\ q \in Tasks
        BY <2>1, <1>t, FieldTypes
      <3>2. node[q].consumed \/ q = p \/ n \in Range(node[q].wait)
        BY <3>1, <2>1, <1>i DEF Ordered
      <3> QED BY <3>1, <3>2, <2>1, <2>9
    <2>12. Len(node'[n].deps) <= 1
      BY <2>1, NoElement
    <2> QED BY <2>1, <2>8, <2>10, <2>11, <2>12, OrderedBut
  <1>12. ASSUME NEW a \in Actors, ScheduleAggregate(a) PROVE Ordered'
    <2>1. PICK n, p \in Tasks :
           /\ Do(a, "schedule") /\ n = The(a) /\ n \in Created /\ p \in Created /\ p # n
           /\ node[n].kind = "aggregate" /\ node[n].deps # <<>> /\ p = node[n].deps[1]
           /\ p \in Range(node[n].deps) /\ node'[n].deps = Tail(node[n].deps)
           /\ node' \in [Tasks -> NodeType]
           /\ \A m \in Tasks : m # n => node'[m].deps = node[m].deps
           /\ \A m \in Tasks : /\ node'[m].kind = node[m].kind /\ node'[m].ref = node[m].ref
                               /\ node'[m].after = node[m].after
                               /\ node'[m].consumed = node[m].consumed
                               /\ node'[m].flag <=> node[m].flag
                               /\ m # p => node'[m].wait = node[m].wait
           /\ node'[p].wait = IF node[p].consumed THEN node[p].wait ELSE <<n>> \o node[p].wait
           /\ node[p].consumed => Then(a, <<Release(p)>> \o <<Schedule(n)>>)
           /\ ~node[p].consumed => Then(a, <<Release(p)>> \o <<>>)
           /\ UNCHANGED <<ready, m_ready_count, running, futures, inside, respawns>>
      BY <1>12, AggregateEffect, Zenon
    <2>2. PICK e : Then(a, e) /\ e \in {<<Release(p)>>, <<Release(p), Schedule(n)>>}
      BY <2>1, EntryLists
    <2>3. e \in Seq(Entry) /\ Range(e) \subseteq {Release(p), Schedule(n)}
      <3>1. e \in Seq(Entry)
        BY <2>2, EntryTypes, EntryLists
      <3>2. Range(e) \subseteq {Release(p), Schedule(n)}
        BY <2>2, Fronts, Zenon
      <3> QED BY <3>1, <3>2
    <2>4. \A i \in DOMAIN e : e[i].do \notin {"push", "complete"}
      BY <2>3, Listed, EntryFields
    <2>5. \A m \in Tasks : ~PastIn(e, m)
      BY <2>4, NobodyPast
    <2>6. agenda[a] # <<>>
      BY <2>1 DEF Do
    <2>7. \A m \in Tasks : \A b \in Actors : PastIn(agenda'[b], m) => PastIn(agenda[b], m)
      BY <2>2, <2>3, <2>5, <2>6, <1>i, PastThen DEF PastGrows
    <2>8. \A m \in Tasks : Settled(m)' => Settled(m)
      BY <2>1, <2>7 DEF Settled
    <2>9. /\ \A m, q \in Tasks : m \in Range(node[q].wait) => m \in Range(node'[q].wait)
          /\ ~node[p].consumed => n \in Range(node'[p].wait)
      <3>1. \A m \in Tasks : m # p => node'[m].wait = node[m].wait
        BY <2>1
      <3> QED BY <2>1, <3>1, <1>i, WaitGrows
    <2>10. Lasting /\ \A m \in Tasks : m # n => Keeps(m)
      BY <2>1, <2>9 DEF Lasting, Keeps
    <2>11. ASSUME NEW q \in node'[n].after
           PROVE  node'[q].consumed \/ q \in Range(node'[n].deps) \/ n \in Range(node'[q].wait)
      <3>1. q \in node[n].after /\ q \in Tasks
        BY <2>1, <1>t, FieldTypes
      <3>2. node[q].consumed \/ q \in Range(node[n].deps) \/ n \in Range(node[q].wait)
        BY <3>1, <1>i DEF Ordered
      <3>3. Range(node[n].deps) = Range(node'[n].deps) \cup {p}
        <4>1. node[n].deps \in Seq(Tasks)
          BY <1>t, FieldTypes
        <4>2. PICK s, r : s \in Seq(Tasks) /\ s = node[n].deps /\ r = node'[n].deps
          BY <4>1
        <4>3. s # <<>> /\ r = Tail(s) /\ p = s[1]
          BY <4>2, <2>1
        <4>4. Range(s) = Range(r) \cup {s[1]}
          BY <4>2, <4>3, TakeFirst
        <4> QED BY <4>2, <4>3, <4>4
      <3> QED BY <3>1, <3>2, <3>3, <2>1, <2>9
    <2>12. ~Settled(n)'
      BY <2>1, <2>8, <1>i DEF Ordered
    <2>13. node'[n].kind # "runnable"
      BY <2>1
    <2> QED BY <2>8, <2>10, <2>11, <2>12, <2>13, OrderedBut
  <1>13. ASSUME NEW a \in Actors, DropFutures(a) PROVE Ordered'
    <2>1. PICK x \in Owners : x = Self(a)
      BY <1>13, <1>i, UserCodeOf DEF DropFutures
    <2>2. PICK ps \in SUBSET futures[x] :
            futures' = [futures EXCEPT ![x] = @ \ ps] /\ agenda' = [agenda EXCEPT ![a] = Releases(ps)]
      BY <1>13, <2>1 DEF DropFutures
    <2>d. ps \in SUBSET Tasks
      BY <1>i DEF Types
    <2>p. PICK r : r = Releases(ps)
      OBVIOUS
    <2>3. r \in Seq(Entry) /\ \A i \in DOMAIN r : r[i].do \notin {"push", "complete"}
      BY <2>p, <2>d, ReleasesList, EntryFields
    <2>4. agenda' = [agenda EXCEPT ![a] = r] /\ UNCHANGED <<node, ready, running>>
      BY <1>13, <2>2, <2>p DEF DropFutures
    <2>5. \A m \in Tasks : ~PastIn(r, m)
      BY <2>3, NobodyPast
    <2>6. \A m \in Tasks : \A b \in Actors : PastIn(agenda'[b], m) => PastIn(agenda[b], m)
      BY <2>4, <2>5, <1>i, PastStarts DEF PastGrows
    <2>7. \A m \in Tasks : Settled(m)' => Settled(m)
      BY <2>4, <2>6 DEF Settled
    <2> QED BY <2>4, <2>7, <1>s, OrderedQuiet
  <1>14. ASSUME NEW a \in Actors, Finish(a) PROVE Ordered'
    <2>1. PICK x \in Tasks : x = running[a]
      BY <1>14, <1>t, MaxWorkAssumption DEF Finish, Tasks
    <2>2. UNCHANGED <<node, ready>> /\ running' = [running EXCEPT ![a] = 0]
      BY <1>14 DEF Finish
    <2>3. \A b \in Actors : \A m \in Tasks : running'[b] = m => running[b] = m
      BY <2>2, <1>t, <1>n
    <2>4. CASE node[x].flag
      <3>1. PICK e : e = <<Schedule(x), CountDown>>
        OBVIOUS
      <3>2. agenda' = [agenda EXCEPT ![a] = e]
        BY <2>4, <3>1, <1>14, <2>1 DEF Finish
      <3>3. DOMAIN e = {1, 2} /\ e[1] = Schedule(x) /\ e[2] = CountDown
        BY <3>1, RespawnList
      <3>4. \A i \in DOMAIN e : e[i].do \notin {"push", "complete"}
        BY <3>3, EntryFields
      <3>5. \A m \in Tasks : ~PastIn(e, m)
        BY <3>4, NobodyPast
      <3>6. \A m \in Tasks : \A b \in Actors : PastIn(agenda'[b], m) => PastIn(agenda[b], m)
        BY <3>2, <3>5, <1>i, PastStarts DEF PastGrows
      <3>7. \A m \in Tasks : Settled(m)' => Settled(m)
        BY <2>2, <2>3, <3>6 DEF Settled
      <3> QED BY <2>2, <3>7, <1>s, OrderedQuiet
    <2>5. CASE ~node[x].flag
      <3>1. PICK e : e = Releases(futures[x]) \o Completion(x)
        OBVIOUS
      <3>2. agenda' = [agenda EXCEPT ![a] = e]
        BY <2>5, <3>1, <1>14, <2>1 DEF Finish
      <3>3. PICK drops \in Seq(Tasks) : EndList(e, x, drops)
        BY <3>1, <1>i, FinishList
      <3>4. ASSUME NEW m \in Tasks, PastIn(e, m) PROVE m = x
        <4>1. PICK i \in DOMAIN e : e[i].do \in {"push", "complete"} /\ e[i].n = m
          BY <3>4 DEF PastIn
        <4>2. e[i] = Complete(x) \/ e[i] = Release(drops[i]) \/ e[i] = CountDown
          BY <3>3 DEF EndList
        <4> QED BY <4>1, <4>2, EntryFields
      <3>5. \A m \in Tasks : m # x => \A b \in Actors : PastIn(agenda'[b], m) => PastIn(agenda[b], m)
        BY <3>2, <3>4, <1>i, PastStarts DEF PastGrows
      <3>6. Settled(x)
        BY <2>1, <2>5 DEF Settled
      <3>7. \A m \in Tasks : Settled(m)' => Settled(m)
        BY <2>2, <2>3, <3>5, <3>6 DEF Settled
      <3> QED BY <2>2, <3>7, <1>s, OrderedQuiet
    <2> QED BY <2>4, <2>5
  <1>15. ASSUME NEW a \in Actors, Respawn(a) PROVE Ordered'
    <2>1. PICK x \in Tasks, deps \in Seq(Tasks) :
            /\ x = running[a]
            /\ Range(deps) \subseteq futures[x] /\ Len(deps) <= 1 /\ x \notin Range(deps)
            /\ node' \in [Tasks -> NodeType]
            /\ \A m \in Tasks : m # x =>
                 /\ m \notin Range(deps) => node'[m] = node[m]
                 /\ m \in Range(deps) => node'[m].ref = node[m].ref + 1
                 /\ node'[m].deps = node[m].deps /\ node'[m].flag = node[m].flag
                 /\ node'[m].after = node[m].after
            /\ \A m \in Tasks :
                 /\ node'[m].kind = node[m].kind /\ node'[m].wait = node[m].wait
                 /\ node'[m].consumed = node[m].consumed
            /\ node'[x].ref = node[x].ref /\ node'[x].deps = deps /\ node'[x].flag = TRUE
            /\ node'[x].after = Range(deps)
      BY <1>15, RespawnEffect, Zenon
    <2>2. UNCHANGED <<ready, agenda, running>>
      BY <1>15 DEF Respawn
    <2>3. PICK at, by : PlacedAs(at, by)
      BY <1>i DEF Placed
    <2>4. at[x] = "runs" /\ x \notin ready /\ ~node[x].consumed
      BY <2>1, <2>3 DEF PlacedAs, Stands
    <2>5. \A b \in Actors : ~PastIn(agenda[b], x)
      BY <2>3, <2>4 DEF PlacedAs, CarriedBy, PastIn, Carrier
    <2>6. ~Settled(x)'
      BY <2>1, <2>2, <2>4, <2>5 DEF Settled
    <2>7. \A m \in Tasks : m # x => (Settled(m)' => Settled(m))
      BY <2>1, <2>2 DEF Settled
    <2>8. Lasting /\ \A m \in Tasks : m # x => Keeps(m)
      BY <2>1 DEF Lasting, Keeps
    <2> QED BY <2>1, <2>6, <2>7, <2>8, OrderedBut
  <1>16. ASSUME NEW a \in Actors, NEW n \in Tasks, Spawn(a, n) \/ WhenAll(a, n) PROVE Ordered'
    <2>1. /\ InUserCode(a) /\ Fresh(n)
          /\ agenda' = [agenda EXCEPT ![a] = <<Schedule(n)>>]
          /\ UNCHANGED <<ready, running>>
      BY <1>16 DEF Spawn, WhenAll
    <2>2. /\ \A m \in Tasks : m # n => /\ node'[m].kind = node[m].kind
                                       /\ node'[m].deps = node[m].deps
                                       /\ node'[m].flag = node[m].flag
                                       /\ node'[m].after = node[m].after
                                       /\ node'[m].consumed = node[m].consumed
                                       /\ node'[m].wait = node[m].wait
          /\ node'[n].after = Range(node'[n].deps) /\ ~node'[n].consumed
          /\ node'[n].kind = "runnable" => Len(node'[n].deps) <= 1
      <3>1. CASE Spawn(a, n)
        BY <3>1, SpawnEffect
      <3>2. CASE WhenAll(a, n)
        BY <3>2, WhenAllEffect
      <3> QED BY <3>1, <3>2, <1>16
    <2>3. n \notin Created /\ node[n].wait = <<>> /\ ~node[n].consumed
      BY <2>1, <1>i, FreshTask
    <2>4. PICK at, by : PlacedAs(at, by)
      BY <1>i DEF Placed
    <2>5. at[n] = "new" /\ n \notin ready /\ \A b \in Actors : running[b] # n
      BY <2>3, <2>4 DEF PlacedAs, Stands
    <2>6. \A b \in Actors : ~PastIn(agenda[b], n)
      BY <2>4, <2>5 DEF PlacedAs, CarriedBy, PastIn, Carrier
    <2>7. PICK e : e = <<Schedule(n)>>
      OBVIOUS
    <2>8. \A i \in DOMAIN e : e[i].do \notin {"push", "complete"}
      BY <2>7, EntryFields
    <2>9. \A m \in Tasks : ~PastIn(e, m)
      BY <2>8, NobodyPast
    <2>10. \A m \in Tasks : \A b \in Actors : PastIn(agenda'[b], m) => PastIn(agenda[b], m)
      BY <2>1, <2>7, <2>9, <1>i, PastStarts DEF PastGrows
    <2>11. ~Settled(n)'
      BY <2>1, <2>2, <2>5, <2>6, <2>10 DEF Settled
    <2>12. \A m \in Tasks : m # n => (Settled(m)' => Settled(m))
      BY <2>1, <2>2, <2>10 DEF Settled
    <2>13. \A p, m \in Tasks : m \in Range(node[p].wait) => m \in Range(node'[p].wait)
      BY <2>2, <2>3, NoElement
    <2>14. Lasting /\ \A m \in Tasks : m # n => Keeps(m)
      BY <2>2, <2>3, <2>13 DEF Lasting, Keeps
    <2> QED BY <2>2, <2>11, <2>12, <2>14, OrderedBut
  <1> QED BY <1>1, <1>2, <1>3, <1>4, <1>5, <1>6, <1>7, <1>8, <1>9, <1>10, <1>11, <1>12,
             <1>13, <1>14, <1>15, <1>16, NextCases

-----------------------------------------------------------------------------
\* Tasks wait for tasks in lower layers: who waits for whom is ordered.

\* m looks at p or waits for it.
Edge(m, p) == p \in Range(node[m].deps) \/ m \in Range(node[p].wait)

LEMMA LayeredQuiet ==
  ASSUME Layered, \A x \in Owners : futures'[x] \subseteq futures[x],
         \A m, p \in Tasks : Edge(m, p)' => Edge(m, p)
  PROVE  Layered'
  <1>1. PICK h : LayersOf(h)
    BY DEF Layered
  <1>2. LayersOf(h)'
    BY <1>1 DEF LayersOf, Edge
  <1> QED BY <1>2 DEF Layered

\* Steps that do not look at new predecessors and create nothing.
LEMMA LayeredSame ==
  ASSUME Layered, node' = node, \A x \in Owners : futures'[x] \subseteq futures[x]
  PROVE  Layered'
  <1>1. \A m, p \in Tasks : Edge(m, p)' => Edge(m, p)
    BY DEF Edge
  <1> QED BY <1>1, LayeredQuiet

\* A new task gets a layer of its own, just below that of its creator and above
\* everything that its creator has futures of.
LEMMA LayeredNew ==
  ASSUME TaskInv, NEW a \in Actors, NEW n \in Tasks, Spawn(a, n) \/ WhenAll(a, n)
  PROVE  Layered'
  <1>i. Types /\ Numbered /\ Placed /\ Shaped /\ Layered
    BY DEF TaskInv
  <1>1. InUserCode(a) /\ Fresh(n)
    BY DEF Spawn, WhenAll
  <1>2. /\ \A m \in Tasks : m # n => node'[m].deps = node[m].deps /\ node'[m].wait = node[m].wait
        /\ Range(node'[n].deps) \subseteq futures[Self(a)] /\ node'[n].wait = <<>>
        /\ \E given : Hands(Self(a), n, given)
    <2>1. CASE Spawn(a, n)
      BY <2>1, SpawnEffect
    <2>2. CASE WhenAll(a, n)
      BY <2>2, WhenAllEffect
    <2> QED BY <2>1, <2>2
  <1>3. n \notin Created /\ n \in Owners
    BY <1>1, <1>i, FreshTask DEF Owners
  <1>4. PICK self \in Owners : self = Self(a) /\ self # n
    BY <1>1, CreatorCreated
  <1>5. PICK given \in SUBSET futures[self] :
          /\ futures'[self] = futures[self] \cup {n} /\ futures'[n] = given
          /\ \A x \in Owners : x # self /\ x # n => futures'[x] = futures[x]
    BY <1>2, <1>4 DEF Hands
  <1>6. PICK at, by : PlacedAs(at, by)
    BY <1>i DEF Placed
  <1>7. PICK h : LayersOf(h)
    BY <1>i DEF Layered
  <1>8. /\ h \in [Owners -> Nat] /\ Tasks \subseteq Owners
        /\ \A x \in Owners : \A p \in futures[x] : h[p] < h[x]
        /\ \A m, p \in Tasks : p \in Range(node[m].deps) \/ m \in Range(node[p].wait) => h[p] < h[m]
    BY <1>7 DEF LayersOf, Owners
  <1>9. PICK top \in Nat : top = h[self]
    BY <1>8
  <1>10. PICK g : g = [z \in Owners |-> IF z = n THEN top ELSE IF h[z] >= top THEN h[z] + 1 ELSE h[z]]
    OBVIOUS
  <1>11. /\ g \in [Owners -> Nat] /\ g[n] = top /\ g[self] = top + 1
         /\ \A z \in Owners : z # n /\ h[z] < top => g[z] = h[z]
         /\ \A y, z \in Owners : y # n /\ z # n /\ h[y] < h[z] => g[y] < g[z]
    <2>1. ASSUME NEW z \in Owners PROVE h[z] \in Nat
      BY <1>8
    <2>2. ASSUME NEW z \in Owners, z # n
          PROVE  g[z] = IF h[z] >= top THEN h[z] + 1 ELSE h[z]
      BY <1>10, <2>2
    <2>3. g \in [Owners -> Nat]
      BY <1>10, <2>1
    <2>4. g[n] = top /\ g[self] = top + 1
      BY <1>3, <1>4, <1>9, <1>10
    <2>5. ASSUME NEW z \in Owners, z # n, h[z] < top PROVE g[z] = h[z]
      BY <2>1, <2>2, <2>5
    <2>6. ASSUME NEW y \in Owners, NEW z \in Owners, y # n, z # n, h[y] < h[z] PROVE g[y] < g[z]
      BY <2>1, <2>2, <2>6
    <2> QED BY <2>3, <2>4, <2>5, <2>6
  <1>12. \A x \in Owners : \A p \in futures[x] : p \in Owners /\ p # n
    BY <1>3, <1>8, <1>i DEF Numbered, Created
  <1>13. \A p \in futures[self] : g[p] < g[n] /\ g[p] < g[self]
    <2> SUFFICES ASSUME NEW p \in futures[self] PROVE g[p] < g[n] /\ g[p] < g[self]
      OBVIOUS
    <2>1. p \in Owners /\ p # n /\ h[p] < top /\ h[p] \in Nat
      BY <1>8, <1>9, <1>12
    <2> QED BY <2>1, <1>11
  <1>14. ASSUME NEW x \in Owners, NEW p \in futures'[x] PROVE g[p] < g[x]
    <2>1. CASE x = n
      BY <2>1, <1>5, <1>13
    <2>2. CASE x = self
      <3>1. p = n \/ p \in futures[self]
        BY <2>2, <1>5
      <3> QED BY <3>1, <2>2, <1>11, <1>13
    <2>3. CASE x # self /\ x # n
      <3>1. p \in futures[x] /\ p \in Owners /\ p # n
        BY <2>3, <1>5, <1>12
      <3> QED BY <3>1, <2>3, <1>8, <1>11
    <2> QED BY <2>1, <2>2, <2>3
  <1>15. ASSUME NEW m \in Tasks, NEW p \in Tasks, p \in Range(node'[m].deps) \/ m \in Range(node'[p].wait)
         PROVE  g[p] < g[m]
    <2>1. CASE m = n /\ p \in Range(node'[n].deps)
      BY <2>1, <1>2, <1>4, <1>13
    <2>2. CASE m \in Range(node'[p].wait)
      <3>1. p # n /\ m \in Range(node[p].wait)
        BY <2>2, <1>2, NoElement
      <3>2. m # n
        BY <3>1, <1>3, <1>6 DEF PlacedAs, Stands
      <3> QED BY <3>1, <3>2, <1>8, <1>11
    <2>3. CASE m # n /\ p \in Range(node'[m].deps)
      <3>1. p \in Range(node[m].deps)
        BY <2>3, <1>2
      <3>2. p # n
        BY <3>1, <1>3, <1>i DEF Numbered
      <3> QED BY <3>1, <3>2, <2>3, <1>8, <1>11
    <2> QED BY <2>1, <2>2, <2>3, <1>15
  <1>16. LayersOf(g)'
    BY <1>11, <1>14, <1>15 DEF LayersOf
  <1> QED BY <1>16 DEF Layered

LEMMA StepLayered == ASSUME TaskInv, [TaskNext]_taskVars PROVE Layered'
  <1>i. Types /\ Numbered /\ Placed /\ Shaped /\ Layered
    BY DEF TaskInv
  <1>t. /\ node \in [Tasks -> NodeType] /\ futures \in [Owners -> SUBSET Tasks]
        /\ running \in [Actors -> 0 .. MaxWork]
    BY <1>i DEF Types
  <1>1. CASE UNCHANGED taskVars \/ ExecuteTasks
    <2>1. UNCHANGED <<node, futures>>
      BY <1>1 DEF taskVars, ExecuteTasks
    <2> QED BY <2>1, <1>i, LayeredSame
  <1>2. ASSUME NEW a \in Actors,
               Leave(a) \/ Run(a) \/ DecrementReadyCount(a) \/ PushReady(a) \/ AggregateDone(a)
        PROVE  Layered'
    <2>1. UNCHANGED <<node, futures>>
      BY <1>2 DEF Leave, Run, DecrementReadyCount, PushReady, AggregateDone
    <2> QED BY <2>1, <1>i, LayeredSame
  <1>3. ASSUME NEW a \in Actors, DropFutures(a) PROVE Layered'
    <2>1. PICK ps \in SUBSET futures[Self(a)] : node' = node /\ futures' = [futures EXCEPT ![Self(a)] = @ \ ps]
      BY <1>3 DEF DropFutures
    <2>2. \A x \in Owners : futures'[x] \subseteq futures[x]
      BY <2>1, <1>t
    <2> QED BY <2>1, <2>2, <1>i, LayeredSame
  <1>4. ASSUME NEW a \in Actors, Finish(a) PROVE Layered'
    <2>1. node' = node /\ (futures' = futures \/ futures' = [futures EXCEPT ![running[a]] = {}])
      BY <1>4 DEF Finish
    <2>2. \A x \in Owners : futures'[x] \subseteq futures[x]
      BY <2>1, <1>t
    <2> QED BY <2>1, <2>2, <1>i, LayeredSame
  <1>5. ASSUME NEW a \in Actors, ScheduleReady(a) PROVE Layered'
    <2>1. /\ \A m \in Tasks : /\ node'[m].kind = node[m].kind /\ node'[m].deps = node[m].deps
                              /\ node'[m].wait = node[m].wait
          /\ futures' = futures
      BY <1>5, ReadyEffect
    <2>2. \A m, p \in Tasks : Edge(m, p)' => Edge(m, p)
      BY <2>1 DEF Edge
    <2> QED BY <2>1, <2>2, <1>i, LayeredQuiet
  <1>6. ASSUME NEW a \in Actors, Deallocates(a) PROVE Layered'
    <2>1. PICK n \in Tasks :
            /\ n \in Created
            /\ \A m \in Tasks : m # n => node'[m] = node[m]
            /\ node'[n].kind = IF node[n].ref = 1 THEN "freed" ELSE node[n].kind
            /\ node'[n].wait = node[n].wait
            /\ node'[n].deps = node[n].deps
            /\ futures' = futures
      BY <1>6, ReleaseEffect
    <2>2. \A m, p \in Tasks : Edge(m, p)' => Edge(m, p)
      BY <2>1 DEF Edge
    <2> QED BY <2>1, <2>2, <1>i, LayeredQuiet
  <1>7. ASSUME NEW a \in Actors, CompleteTask(a) PROVE Layered'
    <2>1. PICK n \in Tasks :
            /\ \A m \in Tasks : m # n => node'[m] = node[m]
            /\ node'[n].kind = node[n].kind /\ node'[n].wait = <<>>
            /\ node'[n].deps = node[n].deps
            /\ futures' = futures
      BY <1>7, CompleteEffect
    <2>2. \A m, p \in Tasks : Edge(m, p)' => Edge(m, p)
      BY <2>1, NoElement DEF Edge
    <2> QED BY <2>1, <2>2, <1>i, LayeredQuiet
  <1>8. ASSUME NEW a \in Actors, ScheduleDependent(a) PROVE Layered'
    <2>1. PICK n, p \in Tasks :
           /\ Do(a, "schedule") /\ n = The(a) /\ n \in Created /\ p \in Created /\ p # n
           /\ node[n].kind = "runnable" /\ node[n].deps = <<p>> /\ Range(node[n].deps) = {p}
           /\ node' \in [Tasks -> NodeType]
           /\ \A m \in Tasks : m # n => node'[m].deps = node[m].deps /\ (node'[m].flag <=> node[m].flag)
           /\ node'[n].deps = <<>> /\ ~node'[n].flag
           /\ \A m \in Tasks : /\ node'[m].kind = node[m].kind /\ node'[m].ref = node[m].ref
                               /\ node'[m].after = node[m].after
                               /\ node'[m].consumed = node[m].consumed
                               /\ m # p => node'[m].wait = node[m].wait
           /\ node'[p].wait = IF node[p].consumed THEN node[p].wait ELSE <<n>> \o node[p].wait
           /\ node[p].consumed => Then(a, Returned(n, p) \o <<Schedule(n)>>)
           /\ ~node[p].consumed => Then(a, Returned(n, p))
           /\ UNCHANGED <<ready, m_ready_count, running, futures, inside, respawns>>
      BY <1>8, DependentEffect, Zenon
    <2>2. \A m, q \in Tasks : m \in Range(node'[q].wait) => m \in Range(node[q].wait) \/ (m = n /\ q = p)
      <3>1. \A m \in Tasks : m # p => node'[m].wait = node[m].wait
        BY <2>1
      <3> QED BY <2>1, <3>1, <1>i, WaitGrows
    <2>4. \A m, q \in Tasks : Edge(m, q)' => Edge(m, q)
      BY <2>1, <2>2, NoElement DEF Edge
    <2> QED BY <2>1, <2>4, <1>i, LayeredQuiet
  <1>9. ASSUME NEW a \in Actors, ScheduleAggregate(a) PROVE Layered'
    <2>1. PICK n, p \in Tasks :
           /\ Do(a, "schedule") /\ n = The(a) /\ n \in Created /\ p \in Created /\ p # n
           /\ node[n].kind = "aggregate" /\ node[n].deps # <<>> /\ p = node[n].deps[1]
           /\ p \in Range(node[n].deps) /\ node'[n].deps = Tail(node[n].deps)
           /\ node' \in [Tasks -> NodeType]
           /\ \A m \in Tasks : m # n => node'[m].deps = node[m].deps
           /\ \A m \in Tasks : /\ node'[m].kind = node[m].kind /\ node'[m].ref = node[m].ref
                               /\ node'[m].after = node[m].after
                               /\ node'[m].consumed = node[m].consumed
                               /\ node'[m].flag <=> node[m].flag
                               /\ m # p => node'[m].wait = node[m].wait
           /\ node'[p].wait = IF node[p].consumed THEN node[p].wait ELSE <<n>> \o node[p].wait
           /\ node[p].consumed => Then(a, <<Release(p)>> \o <<Schedule(n)>>)
           /\ ~node[p].consumed => Then(a, <<Release(p)>> \o <<>>)
           /\ UNCHANGED <<ready, m_ready_count, running, futures, inside, respawns>>
      BY <1>9, AggregateEffect, Zenon
    <2>2. \A m, q \in Tasks : m \in Range(node'[q].wait) => m \in Range(node[q].wait) \/ (m = n /\ q = p)
      <3>1. \A m \in Tasks : m # p => node'[m].wait = node[m].wait
        BY <2>1
      <3> QED BY <2>1, <3>1, <1>i, WaitGrows
    <2>3. Range(node'[n].deps) \subseteq Range(node[n].deps)
      <3>1. node[n].deps \in Seq(Tasks)
        BY <1>t, FieldTypes
      <3>2. PICK s, r : s \in Seq(Tasks) /\ s = node[n].deps /\ r = node'[n].deps
        BY <3>1
      <3>3. s # <<>> /\ r = Tail(s)
        BY <3>2, <2>1
      <3>4. Range(s) = Range(r) \cup {s[1]}
        BY <3>2, <3>3, TakeFirst
      <3> QED BY <3>2, <3>4
    <2>5. \A m, q \in Tasks : Edge(m, q)' => Edge(m, q)
      BY <2>1, <2>2, <2>3 DEF Edge
    <2> QED BY <2>1, <2>5, <1>i, LayeredQuiet
  <1>10. ASSUME NEW a \in Actors, Respawn(a) PROVE Layered'
    <2>1. PICK x \in Tasks, deps \in Seq(Tasks) :
            /\ x = running[a]
            /\ Range(deps) \subseteq futures[x] /\ Len(deps) <= 1 /\ x \notin Range(deps)
            /\ node' \in [Tasks -> NodeType]
            /\ \A m \in Tasks : m # x =>
                 /\ m \notin Range(deps) => node'[m] = node[m]
                 /\ m \in Range(deps) => node'[m].ref = node[m].ref + 1
                 /\ node'[m].deps = node[m].deps /\ node'[m].flag = node[m].flag
                 /\ node'[m].after = node[m].after
            /\ \A m \in Tasks :
                 /\ node'[m].kind = node[m].kind /\ node'[m].wait = node[m].wait
                 /\ node'[m].consumed = node[m].consumed
            /\ node'[x].ref = node[x].ref /\ node'[x].deps = deps /\ node'[x].flag = TRUE
            /\ node'[x].after = Range(deps)
      BY <1>10, RespawnEffect, Zenon
    <2>2. futures' = futures
      BY <1>10 DEF Respawn
    <2>4. PICK h : LayersOf(h)
      BY <1>i DEF Layered
    <2>5. x \in Owners
      BY DEF Owners
    <2>6. \A p \in Range(deps) : h[p] < h[x]
      BY <2>1, <2>4, <2>5 DEF LayersOf
    <2>7. \A m, p \in Tasks : p \in Range(node'[m].deps) \/ m \in Range(node'[p].wait) => h[p] < h[m]
      BY <2>1, <2>4, <2>6 DEF LayersOf
    <2>8. LayersOf(h)'
      BY <2>2, <2>4, <2>7 DEF LayersOf
    <2> QED BY <2>8 DEF Layered
  <1>11. ASSUME NEW a \in Actors, NEW n \in Tasks, Spawn(a, n) \/ WhenAll(a, n) PROVE Layered'
    BY <1>11, LayeredNew
  <1> QED BY <1>1, <1>2, <1>3, <1>4, <1>5, <1>6, <1>7, <1>8, <1>9, <1>10, <1>11, NextCases

-----------------------------------------------------------------------------
\* The invariant holds at the beginning.
LEMMA InitTask == ASSUME TaskInit PROVE TaskInv
  <1>n. Host \in Actors /\ Host \in Owners /\ Host \notin Tasks /\ MaxWork \in Nat /\ 0 \notin Tasks
    BY MaxWorkAssumption, HostAssumption DEF Actors, Owners, Tasks
  <1>1. PICK unused \in NodeType :
          /\ unused = Unused /\ unused.kind = "unused" /\ unused.deps = <<>> /\ unused.wait = <<>>
          /\ ~unused.flag /\ ~unused.consumed /\ unused.after = {}
    <2>1. Unused \in NodeType
      BY EmptySeq DEF Unused, NodeType, NodeKinds
    <2> QED BY <2>1 DEF Unused
  <1>2. /\ node = [n \in Tasks |-> unused] /\ ready = {} /\ m_ready_count = 0
        /\ agenda = [a \in Actors |-> <<>>] /\ running = [a \in Actors |-> 0]
        /\ futures = [x \in Owners |-> {}] /\ inside = {} /\ respawns = 0
    BY <1>1 DEF TaskInit, Owners
  <1>3. /\ \A n \in Tasks : node[n] = unused
        /\ \A a \in Actors : agenda[a] = <<>> /\ running[a] = 0
        /\ \A x \in Owners : futures[x] = {}
    BY <1>2
  <1>4. Created = {}
    BY <1>1, <1>3 DEF Created
  <1>5. Types
    <2>1. <<>> \in Seq(Entry)
      BY EmptySeq
    <2> QED BY <2>1, <1>1, <1>2, <1>n DEF Types
  <1>6. Numbered
    <2>1. \E k \in 0 .. MaxWork : Created = 1 .. k /\ k + respawns <= MaxWork
      <3>1. 0 \in 0 .. MaxWork /\ 1 .. 0 = {} /\ 0 + respawns <= MaxWork
        BY <1>n, <1>2
      <3> QED BY <3>1, <1>4
    <2> QED BY <2>1, <1>1, <1>3, <1>4, NoElement DEF Numbered, Owners
  <1>7. Placed
    <2>1. PICK at, by : at = [n \in Tasks |-> "new"] /\ by = [n \in Tasks |-> Host]
      OBVIOUS
    <2>2. at \in [Tasks -> Stages] /\ by \in [Tasks -> Actors \cup Tasks]
      BY <2>1, <1>n DEF Stages
    <2>3. \A a \in Actors : CarriedBy(agenda[a], a, at, by) /\ Once(agenda[a])
      BY <1>3, NoElement DEF CarriedBy, Once
    <2>4. \A n \in Tasks : Stands(n, "new", Host)
      BY <1>1, <1>2, <1>3, <1>4, <1>n, NoElement DEF Stands
    <2>5. PlacedAs(at, by)
      BY <2>1, <2>2, <2>3, <2>4 DEF PlacedAs
    <2>6. \A p \in Tasks : IsInjective(node[p].wait) /\ node[p].wait = <<>>
      BY <1>1, <1>3, NoElement DEF IsInjective
    <2> QED BY <2>3, <2>5, <2>6 DEF Placed
  <1>8. Shaped
    BY <1>2, <1>3, <1>n, NoElement DEF Shaped, ShapedList, Actors
  <1>9. Counted
    <2>1. Runners = {} /\ Enders = {} /\ Pushers = {}
      BY <1>3 DEF Runners, Enders, Pushers, EndsIn, PushesIn
    <2> QED BY <2>1, <1>2, FS_EmptySet DEF Counted
  <1>10. Ordered
    BY <1>1, <1>3, NoElement DEF Ordered
  <1>11. Layered
    <2>1. PICK h : h = [x \in Owners |-> 0]
      OBVIOUS
    <2>2. h \in [Owners -> Nat]
      BY <2>1
    <2>3. LayersOf(h)
      BY <2>2, <1>1, <1>3, NoElement DEF LayersOf
    <2> QED BY <2>3 DEF Layered
  <1> QED BY <1>5, <1>6, <1>7, <1>8, <1>9, <1>10, <1>11 DEF TaskInv

LEMMA StepTask == ASSUME TaskInv, [TaskNext]_taskVars PROVE TaskInv'
  BY StepNumbered, StepPlaced, StepShaped, StepOrdered, StepLayered DEF TaskInv

\* Tasks are created in order, every task is at one place, the count of ready
\* tasks agrees with the queues and the workers, and the tasks are in layers
\* such that each one has futures of, and waits for, tasks in lower layers only:
\* in every state that the scheduler reaches.
THEOREM TaskInvariant == TaskSpec => []TaskInv
  <1>1. TaskInit => TaskInv
    BY InitTask
  <1>2. TaskInv /\ [TaskNext]_taskVars => TaskInv'
    BY StepTask
  <1> QED BY <1>1, <1>2, PTL DEF TaskSpec

-----------------------------------------------------------------------------
\* A task is at one place: who runs or is complete waits for nobody.
LEMMA NotWaiting ==
  ASSUME Placed, NEW n \in Tasks, NEW p \in Tasks,
         node[n].consumed \/ \E a \in Actors : running[a] = n
  PROVE  n \notin Range(node[p].wait)
  <1>1. PICK at, by : PlacedAs(at, by)
    BY DEF Placed
  <1>2. at[n] = "done" \/ at[n] = "runs"
    BY <1>1 DEF PlacedAs, Stands
  <1> QED BY <1>1, <1>2 DEF PlacedAs, Stands

LEMMA SettledAfter ==
  ASSUME TaskInv, NEW n \in Tasks, Settled(n),
         node[n].consumed \/ \E a \in Actors : running[a] = n
  PROVE  \A p \in node[n].after : node[p].consumed
  <1>1. Types /\ Placed /\ Ordered
    BY DEF TaskInv
  <1>2. node[n].after \in SUBSET Tasks
    BY <1>1, FieldTypes DEF Types
  <1>3. node[n].deps = <<>>
    BY <1>1 DEF Ordered
  <1>4. \A p \in node[n].after : n \notin Range(node[p].wait)
    BY <1>1, <1>2, NotWaiting
  <1> QED BY <1>1, <1>2, <1>3, <1>4, NoElement DEF Ordered

LEMMA InvRunsAfter == ASSUME TaskInv PROVE RunsAfterPredecessors
  <1>1. running \in [Actors -> 0 .. MaxWork]
    BY DEF TaskInv, Types
  <1>2. ASSUME NEW w \in Workers, running[w] # 0, ~node[running[w]].flag
        PROVE  \A p \in node[running[w]].after : node[p].consumed
    <2>1. PICK n \in Tasks : n = running[w]
      BY <1>1, <1>2, MaxWorkAssumption DEF Tasks, Actors
    <2>2. w \in Actors /\ running[w] = n /\ ~node[n].flag
      BY <2>1, <1>2 DEF Actors
    <2>3. Settled(n)
      BY <2>2 DEF Settled
    <2> QED BY <2>1, <2>2, <2>3, SettledAfter
  <1>3. ASSUME NEW n \in Tasks, node[n].consumed
        PROVE  \A p \in node[n].after : node[p].consumed
    <2>1. Settled(n)
      BY <1>3 DEF Settled
    <2> QED BY <2>1, <1>3, SettledAfter
  <1> QED BY <1>2, <1>3 DEF RunsAfterPredecessors

\* The functor of a task runs, and an aggregate is complete, only when every
\* predecessor of its spawn, respawn or when_all is complete: whatever the order
\* in which schedule_runnable, schedule_aggregate and _complete_finished_task
\* race for the wait queues, no task is pushed early.
THEOREM TaskRunsAfterPredecessors == TaskSpec => []RunsAfterPredecessors
  <1>1. TaskInv => RunsAfterPredecessors
    BY InvRunsAfter
  <1> QED BY <1>1, TaskInvariant, PTL

-----------------------------------------------------------------------------
\* A nonempty set of natural numbers has a least element.
LEMMA LeastNatural ==
  ASSUME NEW S \in SUBSET Nat, S # {}
  PROVE  \E m \in S : \A k \in S : m <= k
  <1>1. IsWellFoundedOn(OpToRel(<, Nat), Nat)
    BY NatLessThanWellFounded
  <1>2. PICK R : R = OpToRel(<, Nat)
    OBVIOUS
  <1>3. \A k, m \in Nat : k < m => <<k, m>> \in R
    BY <1>2 DEF OpToRel
  <1>4. IsWellFoundedOn(R, Nat)
    BY <1>1, <1>2
  <1>5. PICK m \in S : \A k \in S : ~(<<k, m>> \in R)
    BY <1>4, WFMin
  <1>6. ASSUME NEW k \in S PROVE m <= k
    <2>1. k \in Nat /\ m \in Nat
      OBVIOUS
    <2>2. ~(k < m)
      BY <2>1, <1>3, <1>5, Zenon
    <2> QED BY <2>1, <2>2
  <1> QED BY <1>6

\* When the count is zero inside the parallel region, nobody is in the
\* scheduler's code and nothing is ready or runs.
LEMMA NothingLeft ==
  ASSUME TaskInv, inside # {}, m_ready_count = 0
  PROVE  /\ ready = {} /\ \A a \in Actors : running[a] = 0 /\ agenda[a] = <<>>
  <1>i. Types /\ Shaped /\ Counted
    BY DEF TaskInv
  <1>1. /\ IsFiniteSet(ready) /\ IsFiniteSet(Runners) /\ IsFiniteSet(Enders) /\ IsFiniteSet(Pushers)
    BY <1>i, FiniteActors
  <1>2. /\ Cardinality(ready) \in Nat /\ Cardinality(Runners) \in Nat
        /\ Cardinality(Enders) \in Nat /\ Cardinality(Pushers) \in Nat
    BY <1>1, FS_CardinalityType
  <1>3. Cardinality(ready) = 0 /\ Cardinality(Runners) = 0 /\ Cardinality(Enders) = 0
    BY <1>2, <1>i DEF Counted
  <1>4. ready = {} /\ Runners = {} /\ Enders = {}
    BY <1>1, <1>3, FS_EmptySet
  <1>5. ASSUME NEW a \in Actors PROVE running[a] = 0 /\ agenda[a] = <<>>
    <2>1. running[a] = 0 /\ ~EndsIn(agenda[a])
      BY <1>4 DEF Runners, Enders
    <2>2. a \in Workers \/ a = Host
      BY DEF Actors
    <2> QED BY <2>1, <2>2, <1>i DEF Shaped
  <1> QED BY <1>4, <1>5

Unfinished == {n \in Created : ~node[n].consumed}

\* Then whoever is not complete waits for another one that is not, ...
LEMMA AllWait ==
  ASSUME TaskInv, inside # {}, m_ready_count = 0, NEW n \in Unfinished
  PROVE  \E p \in Unfinished : n \in Range(node[p].wait)
  <1>i. Types /\ Numbered /\ Placed
    BY DEF TaskInv
  <1>0. n \in Tasks /\ n \in Created /\ ~node[n].consumed
    BY DEF Unfinished, Created
  <1>1. ready = {} /\ \A a \in Actors : running[a] = 0 /\ agenda[a] = <<>>
    BY NothingLeft
  <1>2. PICK at, by : PlacedAs(at, by)
    BY <1>i DEF Placed
  <1>3. Stands(n, at[n], by[n]) /\ at[n] \in Stages /\ by[n] \in Actors \cup Tasks
    BY <1>0, <1>2 DEF PlacedAs
  <1>4. at[n] # "new" /\ at[n] # "done" /\ at[n] # "ready"
    BY <1>0, <1>1, <1>3 DEF Stands
  <1>5. at[n] # "runs"
    <2>1. 0 \notin Tasks
      BY DEF Tasks
    <2> QED BY <2>1, <1>0, <1>1, <1>3 DEF Stands
  <1>6. at[n] # "todo"
    BY <1>1, <1>3, NoElement DEF Stands, Carries
  <1>7. at[n] = "waits"
    BY <1>3, <1>4, <1>5, <1>6 DEF Stages
  <1>8. PICK p \in Tasks : n \in Range(node[p].wait)
    BY <1>3, <1>7 DEF Stands
  <1>9. ~node[p].consumed
    BY <1>8, <1>i, NoElement DEF Placed
  <1>10. p \in Created
    <2>1. node[p] # Unused
      BY <1>8, NoElement DEF Unused
    <2> QED BY <2>1, <1>i DEF Numbered
  <1> QED BY <1>8, <1>9, <1>10 DEF Unfinished

\* ... which cannot go on forever: one in the lowest layer waits for nobody.
LEMMA InvQuiescent == ASSUME TaskInv PROVE QuiescentMeansDone
  <1>1. SUFFICES ASSUME inside # {}, m_ready_count = 0 PROVE Unfinished = {}
    BY DEF QuiescentMeansDone, Unfinished, Created, Live
  <1>2. PICK h : LayersOf(h)
    BY DEF TaskInv, Layered
  <1>3. h \in [Owners -> Nat] /\ \A n, p \in Tasks : n \in Range(node[p].wait) => h[p] < h[n]
    BY <1>2 DEF LayersOf
  <1>4. Unfinished \subseteq Tasks /\ \A n \in Unfinished : h[n] \in Nat
    BY <1>3 DEF Unfinished, Created, Owners
  <1>5. SUFFICES ASSUME Unfinished # {} PROVE FALSE
    OBVIOUS
  <1>6. PICK D : D = {h[n] : n \in Unfinished}
    OBVIOUS
  <1>7. D \in SUBSET Nat /\ D # {}
    BY <1>4, <1>5, <1>6
  <1>8. PICK d \in D : \A k \in D : d <= k
    BY <1>7, LeastNatural
  <1>9. PICK n \in Unfinished : d = h[n]
    BY <1>6
  <1>10. PICK p \in Unfinished : n \in Range(node[p].wait)
    BY <1>1, AllWait
  <1>11. h[p] < h[n] /\ h[n] <= h[p] /\ h[n] \in Nat /\ h[p] \in Nat
    BY <1>3, <1>4, <1>6, <1>8, <1>9, <1>10
  <1> QED BY <1>11

\* "preventing quiescence": when a worker sees the count at zero and leaves the
\* parallel region, every task that was created and not yet deallocated is
\* complete, for any number of workers, tasks and respawns.  The count alone
\* does not say this; it takes that no circle of waiting tasks can be made.
THEOREM TaskQuiescentMeansDone == TaskSpec => []QuiescentMeansDone
  <1>1. TaskInv => QuiescentMeansDone
    BY InvQuiescent
  <1> QED BY <1>1, TaskInvariant, PTL

-----------------------------------------------------------------------------
\* The reference counts.

\* Is a task's own reference, for its completion, still counted?  Does r refer to
\* the predecessor p?
Owned(r) == r.kind \in {"runnable", "aggregate"} /\ ~r.consumed
Lends(r, p) == (r.kind = "aggregate" \/ r.flag) /\ p \in Range(r.deps)

\* Whose futures, and which tasks, refer to p.
Holders(p) == {x \in Owners : p \in futures[x]}
Borrowers(p) == {n \in Tasks : Lends(node[n], p)}

\* The releases of p in a list, and those of an actor or of the others.
Hits(s, p) == {i \in DOMAIN s : s[i] = Release(p)}
HitsOf(do, a, p) == {<<a, i>> : i \in Hits(do[a], p)}
HitsNotOf(do, a, p) == UNION {HitsOf(do, b, p) : b \in Actors \ {a}}
AllHits(do, p) == UNION {HitsOf(do, a, p) : a \in Actors}

\* n was spawned with a predecessor and is not scheduled yet: its creator b,
\* which is just doing that, has a future of the predecessor.
Starts(r) == r.deps # <<>> /\ ~r.flag /\ r.kind # "aggregate"
StartedBy(n, b) == agenda[b] = <<Schedule(n)>> /\ Range(node[n].deps) \subseteq futures[Self(b)]

RefOf(p) == IsFiniteSet(Pending(p)) /\ node[p].ref = References(p)
FreedOf(p) == node[p].kind = "freed" => node[p].ref = 0 /\ node[p].consumed
SpawnedOf(n) == Starts(node[n]) => \E b \in Actors : StartedBy(n, b)

\* The reference counts are right, a task that is gone is complete, and no
\* predecessor is named twice.
RefInv ==
    /\ \A p \in Tasks : RefOf(p) /\ FreedOf(p)
    /\ \A n \in Tasks : IsInjective(node[n].deps)
    /\ \A n \in Tasks : SpawnedOf(n)

\* Sets that are moved, and the cardinality of disjoint unions.
LEMMA Moved ==
  ASSUME NEW S, IsFiniteSet(S), NEW T, NEW f \in [S -> T],
         \A x, y \in S : f[x] = f[y] => x = y, \A t \in T : \E x \in S : f[x] = t
  PROVE  IsFiniteSet(T) /\ Cardinality(T) = Cardinality(S)
  <1>1. f \in Bijection(S, T)
    BY DEF Bijection, Injection, Surjection, IsInjective
  <1>2. ExistsBijection(S, T)
    BY <1>1 DEF ExistsBijection
  <1> QED BY <1>2, FS_Bijection

LEMMA Disjoint ==
  ASSUME NEW S, NEW T, IsFiniteSet(S), IsFiniteSet(T), S \cap T = {}
  PROVE  /\ IsFiniteSet(S \cup T) /\ Cardinality(S \cup T) = Cardinality(S) + Cardinality(T)
         /\ Cardinality(S) \in Nat /\ Cardinality(T) \in Nat
  <1>1. Cardinality(S) \in Nat /\ Cardinality(T) \in Nat
    BY FS_CardinalityType
  <1>2. Cardinality(S \cap T) = 0
    BY FS_EmptySet
  <1>3. /\ IsFiniteSet(S \cup T)
        /\ Cardinality(S \cup T) = Cardinality(S) + Cardinality(T) - Cardinality(S \cap T)
    BY FS_Union
  <1> QED BY <1>1, <1>2, <1>3

LEMMA FiniteHits ==
  ASSUME NEW T, NEW s \in Seq(T), NEW p
  PROVE  IsFiniteSet(Hits(s, p)) /\ Cardinality(Hits(s, p)) \in Nat
  <1>1. Len(s) \in Nat /\ DOMAIN s = 1 .. Len(s)
    OBVIOUS
  <1>2. IsFiniteSet(1 .. Len(s))
    BY <1>1, FS_Interval
  <1>3. Hits(s, p) \subseteq 1 .. Len(s)
    BY <1>1 DEF Hits
  <1> QED BY <1>2, <1>3, FS_Subset, FS_CardinalityType

\* Releases are those of one actor and those of the others.
LEMMA HitsSplit ==
  ASSUME NEW do \in [Actors -> Seq(Entry)], NEW a \in Actors, NEW p,
         IsFiniteSet(HitsNotOf(do, a, p))
  PROVE  /\ IsFiniteSet(AllHits(do, p)) /\ Cardinality(HitsNotOf(do, a, p)) \in Nat
         /\ Cardinality(AllHits(do, p)) = Cardinality(HitsNotOf(do, a, p)) + Cardinality(Hits(do[a], p))
  <1>1. do[a] \in Seq(Entry)
    OBVIOUS
  <1>2. PICK S : S = Hits(do[a], p)
    OBVIOUS
  <1>3. IsFiniteSet(S)
    BY <1>1, <1>2, FiniteHits
  <1>4. PICK T : T = HitsOf(do, a, p)
    OBVIOUS
  <1>5. PICK f : f = [i \in S |-> <<a, i>>]
    OBVIOUS
  <1>6. T = {<<a, i>> : i \in S}
    BY <1>2, <1>4 DEF HitsOf
  <1>7. /\ f \in [S -> T]
        /\ \A x, y \in S : f[x] = f[y] => x = y
        /\ \A t \in T : \E x \in S : f[x] = t
    BY <1>5, <1>6
  <1>8. IsFiniteSet(T) /\ Cardinality(T) = Cardinality(S)
    BY <1>3, <1>7, Moved
  <1>9. HitsNotOf(do, a, p) \cap T = {}
    <2> SUFFICES ASSUME NEW x \in HitsNotOf(do, a, p), x \in T PROVE FALSE
      OBVIOUS
    <2>1. PICK b \in Actors \ {a} : x \in HitsOf(do, b, p)
      BY DEF HitsNotOf
    <2>2. x[1] = b /\ x[1] = a
      BY <2>1, <1>4 DEF HitsOf
    <2> QED BY <2>1, <2>2
  <1>10. AllHits(do, p) = HitsNotOf(do, a, p) \cup T
    BY <1>4 DEF AllHits, HitsNotOf
  <1> QED BY <1>2, <1>8, <1>9, <1>10, Disjoint

\* What an actor's step does to the number of pending releases.
LEMMA PendingChange ==
  ASSUME Types, Types', NEW a \in Actors, NEW p, IsFiniteSet(Pending(p)),
         \A b \in Actors : b # a => agenda'[b] = agenda[b]
  PROVE  /\ IsFiniteSet(Pending(p)') /\ Cardinality(Pending(p)) \in Nat /\ Cardinality(Pending(p)') \in Nat
         /\ Cardinality(Pending(p)') = Cardinality(Pending(p)) + Cardinality(Hits(agenda'[a], p))
                                       - Cardinality(Hits(agenda[a], p))
  <1>1. PICK do, do2 : do = agenda /\ do2 = agenda'
    OBVIOUS
  <1>2. do \in [Actors -> Seq(Entry)] /\ do2 \in [Actors -> Seq(Entry)]
    BY <1>1 DEF Types
  <1>3. Pending(p) = AllHits(do, p) /\ Pending(p)' = AllHits(do2, p)
    BY <1>1 DEF Pending, AllHits, HitsOf, Hits
  <1>4. IsFiniteSet(HitsNotOf(do, a, p))
    <2>1. HitsNotOf(do, a, p) \subseteq AllHits(do, p)
      BY DEF HitsNotOf, AllHits
    <2> QED BY <2>1, <1>3, FS_Subset
  <1>5. HitsNotOf(do2, a, p) = HitsNotOf(do, a, p)
    BY <1>1 DEF HitsNotOf, HitsOf
  <1>6. /\ Cardinality(HitsNotOf(do, a, p)) \in Nat
        /\ Cardinality(AllHits(do, p)) = Cardinality(HitsNotOf(do, a, p)) + Cardinality(Hits(do[a], p))
    BY <1>2, <1>4, HitsSplit
  <1>7. /\ IsFiniteSet(AllHits(do2, p))
        /\ Cardinality(AllHits(do2, p)) = Cardinality(HitsNotOf(do2, a, p)) + Cardinality(Hits(do2[a], p))
    BY <1>2, <1>4, <1>5, HitsSplit
  <1>8. Cardinality(Hits(do[a], p)) \in Nat /\ Cardinality(Hits(do2[a], p)) \in Nat
    BY <1>2, FiniteHits
  <1> QED BY <1>1, <1>3, <1>5, <1>6, <1>7, <1>8

\* The head of s is replaced by e.
LEMMA HitsThen ==
  ASSUME NEW s \in Seq(Entry), s # <<>>, NEW e \in Seq(Entry), NEW p
  PROVE  Cardinality(Hits(e \o Tail(s), p)) =
            Cardinality(Hits(e, p)) + Cardinality(Hits(s, p)) - (IF s[1] = Release(p) THEN 1 ELSE 0)
  <1>r. PICK r : r = e \o Tail(s)
    OBVIOUS
  <1>1. /\ r \in Seq(Entry) /\ Len(r) = Len(e) + Len(s) - 1 /\ DOMAIN r = 1 .. Len(r)
        /\ DOMAIN s = 1 .. Len(s) /\ 1 \in DOMAIN s
        /\ DOMAIN e = 1 .. Len(e)
        /\ \A i \in DOMAIN r : \/ i \in DOMAIN e /\ r[i] = e[i]
                               \/ /\ i > Len(e) /\ i - Len(e) + 1 \in 2 .. Len(s)
                                  /\ r[i] = s[i - Len(e) + 1]
        /\ \A i \in DOMAIN e : i \in DOMAIN r /\ r[i] = e[i]
        /\ \A j \in 2 .. Len(s) : j + Len(e) - 1 \in DOMAIN r /\ r[j + Len(e) - 1] = s[j]
    BY <1>r, ThenSequence
  <1>2. PICK k \in Nat : k = Len(e)
    OBVIOUS
  <1>3. PICK S : S = Hits(s, p) \ {1}
    OBVIOUS
  <1>4. IsFiniteSet(Hits(s, p)) /\ IsFiniteSet(Hits(e, p)) /\ Cardinality(Hits(s, p)) \in Nat
        /\ Cardinality(Hits(e, p)) \in Nat
    BY FiniteHits
  <1>5. IsFiniteSet(S) /\ Cardinality(S) = Cardinality(Hits(s, p)) - (IF s[1] = Release(p) THEN 1 ELSE 0)
    <2>1. 1 \in Hits(s, p) <=> s[1] = Release(p)
      BY <1>1 DEF Hits
    <2>2. /\ IsFiniteSet(S)
          /\ Cardinality(S) = IF 1 \in Hits(s, p) THEN Cardinality(Hits(s, p)) - 1 ELSE Cardinality(Hits(s, p))
      BY <1>3, <1>4, FS_RemoveElement
    <2> QED BY <2>1, <2>2, <1>4
  <1>6. S \subseteq 2 .. Len(s) /\ \A j \in 2 .. Len(s) : j \in S <=> s[j] = Release(p)
    <2>1. Len(s) \in Nat
      OBVIOUS
    <2> QED BY <2>1, <1>1, <1>3 DEF Hits
  <1>7. PICK f : f = [j \in S |-> j + k - 1]
    OBVIOUS
  <1>11. PICK T : T = {j + k - 1 : j \in S}
    OBVIOUS
  <1>8. /\ f \in [S -> T]
        /\ \A x, y \in S : f[x] = f[y] => x = y
        /\ \A t \in T : \E x \in S : f[x] = t
    <2>1. \A i, j \in S : i + k - 1 = j + k - 1 => i = j
      BY <1>6
    <2> QED BY <2>1, <1>7, <1>11
  <1>10. IsFiniteSet(T) /\ Cardinality(T) = Cardinality(S)
    BY <1>5, <1>8, Moved
  <1>12. Hits(e, p) \cap T = {}
    <2>1. \A j \in S : j + k - 1 > k
      BY <1>6
    <2>2. \A i \in Hits(e, p) : i \in Int /\ i <= k
      BY <1>1, <1>2 DEF Hits
    <2> QED BY <2>1, <2>2, <1>11
  <1>13. Hits(r, p) = Hits(e, p) \cup T
    <2>1. ASSUME NEW i \in Hits(r, p) PROVE i \in Hits(e, p) \cup T
      <3>1. i \in DOMAIN r /\ r[i] = Release(p) /\ i \in Int
        BY <1>1 DEF Hits
      <3>2. CASE i \in DOMAIN e /\ r[i] = e[i]
        BY <3>1, <3>2 DEF Hits
      <3>3. CASE i - Len(e) + 1 \in 2 .. Len(s) /\ r[i] = s[i - Len(e) + 1]
        <4>1. PICK j \in 2 .. Len(s) : j = i - k + 1 /\ s[j] = Release(p)
          BY <3>1, <3>3, <1>2
        <4>2. j \in S
          BY <4>1, <1>6
        <4>3. i = j + k - 1
          BY <4>1, <3>1
        <4> QED BY <4>2, <4>3, <1>11
      <3> QED BY <3>1, <3>2, <3>3, <1>1
    <2>2. ASSUME NEW i \in Hits(e, p) PROVE i \in Hits(r, p)
      BY <1>1 DEF Hits
    <2>3. ASSUME NEW i \in T PROVE i \in Hits(r, p)
      <3>1. PICK j \in S : i = j + k - 1
        BY <1>11
      <3>2. j \in 2 .. Len(s) /\ s[j] = Release(p)
        BY <1>6
      <3>3. j + Len(e) - 1 \in DOMAIN r /\ r[j + Len(e) - 1] = s[j]
        BY <3>2, <1>1
      <3> QED BY <3>1, <3>2, <3>3, <1>2 DEF Hits
    <2> QED BY <2>1, <2>2, <2>3
  <1>14. Cardinality(Hits(r, p)) = Cardinality(Hits(e, p)) + Cardinality(T)
    BY <1>4, <1>10, <1>12, <1>13, Disjoint
  <1> QED BY <1>r, <1>4, <1>5, <1>10, <1>14

-----------------------------------------------------------------------------
Bit(b) == IF b THEN 1 ELSE 0

\* e releases the tasks of D, each once.
Gives(e, D) == \A p \in Tasks : Cardinality(Hits(e, p)) = Bit(p \in D)

LEMMA GivesUnique ==
  ASSUME NEW e, NEW D,
         \A p \in D : \E k \in DOMAIN e : e[k] = Release(p) /\ \A i \in DOMAIN e : e[i] = Release(p) => i = k,
         \A p \in Tasks : p \notin D => \A i \in DOMAIN e : e[i] # Release(p)
  PROVE  Gives(e, D)
  <1> SUFFICES ASSUME NEW p \in Tasks PROVE Cardinality(Hits(e, p)) = Bit(p \in D)
    BY DEF Gives
  <1>1. CASE p \in D
    <2>1. PICK k \in DOMAIN e : e[k] = Release(p) /\ \A i \in DOMAIN e : e[i] = Release(p) => i = k
      BY <1>1
    <2>2. Hits(e, p) = {k}
      BY <2>1 DEF Hits
    <2> QED BY <1>1, <2>2, FS_Singleton DEF Bit
  <1>2. CASE p \notin D
    <2>1. Hits(e, p) = {}
      BY <1>2 DEF Hits
    <2> QED BY <1>2, <2>1, FS_EmptySet DEF Bit
  <1> QED BY <1>1, <1>2

LEMMA SameRelease ==
  ASSUME NEW p, NEW q, Release(p) = Release(q)
  PROVE  p = q
  <1>1. Release(p).n = p /\ Release(q).n = q
    BY EntryFields
  <1> QED BY <1>1

LEMMA GivesNothing ==
  ASSUME NEW e, \A i \in DOMAIN e : e[i].do # "release"
  PROVE  Gives(e, {})
  <1>1. \A p : \A i \in DOMAIN e : e[i] # Release(p)
    BY EntryFields
  <1> QED BY <1>1, GivesUnique

LEMMA GivesOne ==
  ASSUME NEW e, NEW q, NEW k \in DOMAIN e, e[k] = Release(q),
         \A i \in DOMAIN e : i # k => e[i].do # "release"
  PROVE  Gives(e, {q})
  <1>1. \A i \in DOMAIN e : i # k => e[i] # Release(q)
    BY EntryFields
  <1>2. ASSUME NEW p, p # q, NEW i \in DOMAIN e PROVE e[i] # Release(p)
    <2>1. CASE i = k
      BY <2>1, <1>2, SameRelease
    <2>2. CASE i # k
      BY <2>2, EntryFields
    <2> QED BY <2>1, <2>2
  <1> QED BY <1>1, <1>2, GivesUnique

LEMMA GivesDrops ==
  ASSUME NEW e, NEW drops, IsInjective(drops),
         \A i \in DOMAIN drops : i \in DOMAIN e /\ e[i] = Release(drops[i]),
         \A i \in DOMAIN e : i \notin DOMAIN drops => e[i].do # "release"
  PROVE  Gives(e, Range(drops))
  <1>1. ASSUME NEW p \in Range(drops)
        PROVE  \E k \in DOMAIN e : e[k] = Release(p) /\ \A i \in DOMAIN e : e[i] = Release(p) => i = k
    <2>1. PICK k \in DOMAIN drops : drops[k] = p
      BY DEF Range
    <2>2. ASSUME NEW i \in DOMAIN e, e[i] = Release(p) PROVE i = k
      <3>1. i \in DOMAIN drops
        BY <2>2, EntryFields
      <3>2. drops[i] = p
        BY <3>1, <2>2, SameRelease
      <3> QED BY <3>1, <3>2, <2>1 DEF IsInjective
    <2> QED BY <2>1, <2>2
  <1>2. ASSUME NEW p, p \notin Range(drops), NEW i \in DOMAIN e PROVE e[i] # Release(p)
    <2>1. CASE i \in DOMAIN drops
      <3>1. drops[i] # p
        BY <2>1, <1>2 DEF Range
      <3> QED BY <3>1, <2>1, SameRelease
    <2>2. CASE i \notin DOMAIN drops
      BY <2>2, EntryFields
    <2> QED BY <2>1, <2>2
  <1> QED BY <1>1, <1>2, GivesUnique

\* The parts of the number of references.
LEMMA RefParts ==
  ASSUME NEW p
  PROVE  References(p) = Bit(Owned(node[p])) + Cardinality(Holders(p)) + Cardinality(Borrowers(p))
                         + Cardinality(Pending(p))
  <1>1. Holders(p) = {x \in Tasks \cup {Host} : p \in futures[x]}
    BY DEF Holders, Owners
  <1>2. Borrowers(p) = {n \in Tasks : p \in Range(Borrowed(n))}
    <2>1. ASSUME NEW n \in Tasks PROVE p \in Range(Borrowed(n)) <=> Lends(node[n], p)
      BY NoElement DEF Lends, Borrowed
    <2> QED BY <2>1 DEF Borrowers
  <1>3. Bit(Owned(node[p])) = IF Live(p) /\ ~node[p].consumed THEN 1 ELSE 0
    BY DEF Bit, Owned, Live
  <1> QED BY <1>1, <1>2, <1>3 DEF References

\* The same in the next state.
LEMMA RefPartsNext ==
  ASSUME NEW p
  PROVE  References(p)' = Bit(Owned(node'[p])) + Cardinality(Holders(p)') + Cardinality(Borrowers(p)')
                          + Cardinality(Pending(p)')
  <1>1. Holders(p)' = {x \in Tasks \cup {Host} : p \in futures'[x]}
    BY DEF Holders, Owners
  <1>2. Borrowers(p)' = {n \in Tasks : p \in Range(Borrowed(n)')}
    <2>1. ASSUME NEW n \in Tasks PROVE p \in Range(Borrowed(n)') <=> Lends(node'[n], p)
      BY NoElement DEF Lends, Borrowed
    <2> QED BY <2>1 DEF Borrowers
  <1>3. Bit(Owned(node'[p])) = IF Live(p)' /\ ~node'[p].consumed THEN 1 ELSE 0
    BY DEF Bit, Owned, Live
  <1> QED BY <1>1, <1>2, <1>3 DEF References

LEMMA FiniteHolders == IsFiniteSet(Owners) /\ IsFiniteSet(Tasks)
  <1>1. IsFiniteSet(Tasks)
    BY MaxWorkAssumption, FS_Interval DEF Tasks
  <1> QED BY <1>1, FS_AddElement DEF Owners

\* One element more or less.
LEMMA BitChange ==
  ASSUME NEW S, NEW T, NEW x, IsFiniteSet(S), S \ {x} = T \ {x}
  PROVE  /\ Cardinality(S) \in Nat /\ Cardinality(T) \in Nat
         /\ Cardinality(T) = Cardinality(S) + Bit(x \in T) - Bit(x \in S)
  BY CountChange DEF Bit

\* What a step of a does to the references to p, when it changes at most the
\* futures of x and the predecessors of n.
LEMMA RefChange ==
  ASSUME Types, Types', NEW a \in Actors, NEW x \in Owners, NEW n \in Tasks, NEW p \in Tasks,
         IsFiniteSet(Pending(p)),
         \A b \in Actors : b # a => agenda'[b] = agenda[b],
         \A y \in Owners : y # x => (p \in futures'[y] <=> p \in futures[y]),
         \A m \in Tasks : m # n => (Lends(node'[m], p) <=> Lends(node[m], p))
  PROVE  /\ IsFiniteSet(Pending(p)') /\ References(p) \in Nat
         /\ References(p)' = References(p) + Bit(Owned(node'[p])) - Bit(Owned(node[p]))
                             + Bit(p \in futures'[x]) - Bit(p \in futures[x])
                             + Bit(Lends(node'[n], p)) - Bit(Lends(node[n], p))
                             + Cardinality(Hits(agenda'[a], p)) - Cardinality(Hits(agenda[a], p))
  <1>1. IsFiniteSet(Holders(p)) /\ IsFiniteSet(Borrowers(p))
    <2>1. Holders(p) \subseteq Owners /\ Borrowers(p) \subseteq Tasks
      BY DEF Holders, Borrowers
    <2> QED BY <2>1, FiniteHolders, FS_Subset
  <1>2. PICK H, H2, B, B2 : H = Holders(p) /\ H2 = Holders(p)' /\ B = Borrowers(p) /\ B2 = Borrowers(p)'
    OBVIOUS
  <1>3. H \ {x} = H2 \ {x} /\ (x \in H <=> p \in futures[x]) /\ (x \in H2 <=> p \in futures'[x])
    BY <1>2 DEF Holders
  <1>4. B \ {n} = B2 \ {n} /\ (n \in B <=> Lends(node[n], p)) /\ (n \in B2 <=> Lends(node'[n], p))
    BY <1>2 DEF Borrowers
  <1>5. /\ Cardinality(H) \in Nat /\ Cardinality(H2) \in Nat
        /\ Cardinality(H2) = Cardinality(H) + Bit(x \in H2) - Bit(x \in H)
    BY <1>1, <1>2, <1>3, BitChange
  <1>6. /\ Cardinality(B) \in Nat /\ Cardinality(B2) \in Nat
        /\ Cardinality(B2) = Cardinality(B) + Bit(n \in B2) - Bit(n \in B)
    BY <1>1, <1>2, <1>4, BitChange
  <1>7. /\ Bit(x \in H) = Bit(p \in futures[x]) /\ Bit(x \in H2) = Bit(p \in futures'[x])
        /\ Bit(n \in B) = Bit(Lends(node[n], p)) /\ Bit(n \in B2) = Bit(Lends(node'[n], p))
    BY <1>3, <1>4 DEF Bit
  <1>8. /\ IsFiniteSet(Pending(p)') /\ Cardinality(Pending(p)) \in Nat /\ Cardinality(Pending(p)') \in Nat
        /\ Cardinality(Pending(p)') = Cardinality(Pending(p)) + Cardinality(Hits(agenda'[a], p))
                                       - Cardinality(Hits(agenda[a], p))
    BY PendingChange
  <1>9. PICK h, h2 : h = Cardinality(Hits(agenda[a], p)) /\ h2 = Cardinality(Hits(agenda'[a], p))
    OBVIOUS
  <1>10. h \in Nat /\ h2 \in Nat
    <2>1. agenda[a] \in Seq(Entry) /\ agenda'[a] \in Seq(Entry)
      BY DEF Types
    <2> QED BY <2>1, <1>9, FiniteHits
  <1>11. /\ Bit(Owned(node'[p])) \in 0 .. 1 /\ Bit(Owned(node[p])) \in 0 .. 1
         /\ Bit(p \in futures[x]) \in 0 .. 1 /\ Bit(p \in futures'[x]) \in 0 .. 1
         /\ Bit(Lends(node[n], p)) \in 0 .. 1 /\ Bit(Lends(node'[n], p)) \in 0 .. 1
    BY DEF Bit
  <1>12. References(p) = Bit(Owned(node[p])) + Cardinality(H) + Cardinality(B) + Cardinality(Pending(p))
    BY <1>2, RefParts
  <1>13. References(p)' = Bit(Owned(node'[p])) + Cardinality(H2) + Cardinality(B2) + Cardinality(Pending(p)')
    BY <1>2, RefPartsNext
  <1> QED BY <1>5, <1>6, <1>7, <1>8, <1>9, <1>10, <1>11, <1>12, <1>13

\* What refers to p, when something does.
LEMMA RefNeeds ==
  ASSUME Types, NEW p \in Tasks, IsFiniteSet(Pending(p))
  PROVE  /\ References(p) \in Nat
         /\ References(p) = 0 =>
              /\ ~Owned(node[p]) /\ \A x \in Owners : p \notin futures[x]
              /\ \A n \in Tasks : ~Lends(node[n], p)
              /\ \A a \in Actors : \A i \in DOMAIN agenda[a] : agenda[a][i] # Release(p)
         /\ \A a \in Actors : \A i \in DOMAIN agenda[a] :
              References(p) = 1 /\ agenda[a][i] = Release(p) => ~Owned(node[p])
  <1>1. IsFiniteSet(Holders(p)) /\ IsFiniteSet(Borrowers(p))
    <2>1. Holders(p) \subseteq Owners /\ Borrowers(p) \subseteq Tasks
      BY DEF Holders, Borrowers
    <2> QED BY <2>1, FiniteHolders, FS_Subset
  <1>2. PICK h, b, k : h = Cardinality(Holders(p)) /\ b = Cardinality(Borrowers(p)) /\ k = Cardinality(Pending(p))
    OBVIOUS
  <1>3. h \in Nat /\ b \in Nat /\ k \in Nat
    BY <1>1, <1>2, FS_CardinalityType
  <1>4. (h = 0 => Holders(p) = {}) /\ (b = 0 => Borrowers(p) = {}) /\ (k = 0 => Pending(p) = {})
    BY <1>1, <1>2, FS_EmptySet
  <1>5. References(p) = Bit(Owned(node[p])) + h + b + k
    BY <1>2, RefParts
  <1>6. Owned(node[p]) => Bit(Owned(node[p])) = 1
    BY DEF Bit
  <1>7. Bit(Owned(node[p])) \in 0 .. 1
    BY DEF Bit
  <1>8. References(p) = 0 => h = 0 /\ b = 0 /\ k = 0 /\ ~Owned(node[p])
    BY <1>3, <1>5, <1>6, <1>7
  <1>9. Holders(p) = {} => \A x \in Owners : p \notin futures[x]
    BY DEF Holders
  <1>10. Borrowers(p) = {} => \A n \in Tasks : ~Lends(node[n], p)
    BY DEF Borrowers
  <1>11. ASSUME NEW a \in Actors, NEW i \in DOMAIN agenda[a], agenda[a][i] = Release(p)
         PROVE  k # 0
    <2>1. <<a, i>> \in Pending(p)
      BY <1>11 DEF Pending
    <2> QED BY <2>1, <1>4
  <1>12. k # 0 /\ References(p) = 1 => ~Owned(node[p])
    BY <1>3, <1>5, <1>6
  <1>13. References(p) \in Nat
    BY <1>3, <1>5, <1>7
  <1> QED BY <1>4, <1>8, <1>9, <1>10, <1>11, <1>12, <1>13

\* A step of the scheduler's code: e replaces the entry at the head.
LEMMA RefThen ==
  ASSUME Types, Types', NEW a \in Actors, NEW e \in Seq(Entry), agenda[a] # <<>>, Then(a, e),
         futures' = futures, NEW n \in Tasks, NEW p \in Tasks, RefOf(p), NEW D, Gives(e, D),
         \A m \in Tasks : m # n => (Lends(node'[m], p) <=> Lends(node[m], p))
  PROVE  /\ IsFiniteSet(Pending(p)') /\ node[p].ref \in Nat
         /\ References(p)' = node[p].ref + Bit(Owned(node'[p])) - Bit(Owned(node[p]))
                             + Bit(Lends(node'[n], p)) - Bit(Lends(node[n], p))
                             + Bit(p \in D) - Bit(agenda[a][1] = Release(p))
  <1>1. agenda'[a] = e \o Tail(agenda[a]) /\ \A b \in Actors : b # a => agenda'[b] = agenda[b]
    BY ThenTodo
  <1>2. PICK s \in Seq(Entry) : s = agenda[a] /\ s # <<>>
    BY DEF Types
  <1>3. Cardinality(Hits(e \o Tail(s), p)) =
            Cardinality(Hits(e, p)) + Cardinality(Hits(s, p)) - Bit(s[1] = Release(p))
    BY <1>2, HitsThen DEF Bit
  <1>4. Cardinality(Hits(e, p)) = Bit(p \in D)
    BY DEF Gives
  <1>5. Host \in Owners /\ (p \in futures'[Host] <=> p \in futures[Host])
    BY DEF Owners
  <1>6. IsFiniteSet(Pending(p)) /\ node[p].ref = References(p)
    BY DEF RefOf
  <1>7. PICK x \in Owners : x = Host
    BY <1>5
  <1>8. /\ IsFiniteSet(Pending(p)') /\ References(p) \in Nat
        /\ References(p)' = References(p) + Bit(Owned(node'[p])) - Bit(Owned(node[p]))
                             + Bit(p \in futures'[x]) - Bit(p \in futures[x])
                             + Bit(Lends(node'[n], p)) - Bit(Lends(node[n], p))
                             + Cardinality(Hits(agenda'[a], p)) - Cardinality(Hits(agenda[a], p))
    <2>1. \A y \in Owners : y # x => (p \in futures'[y] <=> p \in futures[y])
      OBVIOUS
    <2> QED BY <2>1, <1>1, <1>6, RefChange
  <1>9. Cardinality(Hits(s, p)) \in Nat
    BY FiniteHits
  <1>10. PICK h, h2 : h = Cardinality(Hits(agenda[a], p)) /\ h2 = Cardinality(Hits(agenda'[a], p))
    OBVIOUS
  <1>11. h \in Nat /\ h2 = Bit(p \in D) + h - Bit(agenda[a][1] = Release(p))
    BY <1>1, <1>2, <1>3, <1>4, <1>9, <1>10
  <1>12. /\ Bit(Owned(node'[p])) \in 0 .. 1 /\ Bit(Owned(node[p])) \in 0 .. 1
         /\ Bit(p \in D) \in 0 .. 1 /\ Bit(agenda[a][1] = Release(p)) \in 0 .. 1
         /\ Bit(p \in futures[x]) \in 0 .. 1 /\ Bit(p \in futures'[x]) = Bit(p \in futures[x])
         /\ Bit(Lends(node[n], p)) \in 0 .. 1 /\ Bit(Lends(node'[n], p)) \in 0 .. 1
    BY DEF Bit
  <1>13. PICK d, c, o, o2, l, l2, f \in 0 .. 1 :
           /\ d = Bit(p \in D) /\ c = Bit(agenda[a][1] = Release(p))
           /\ o = Bit(Owned(node[p])) /\ o2 = Bit(Owned(node'[p]))
           /\ l = Bit(Lends(node[n], p)) /\ l2 = Bit(Lends(node'[n], p))
           /\ f = Bit(p \in futures[x]) /\ f = Bit(p \in futures'[x])
    BY <1>12
  <1>14. References(p)' = References(p) + o2 - o + f - f + l2 - l + h2 - h
    BY <1>8, <1>10, <1>13
  <1>15. h2 = d + h - c
    BY <1>11, <1>13
  <1>16. References(p)' = References(p) + o2 - o + l2 - l + d - c
    BY <1>8, <1>11, <1>13, <1>14, <1>15
  <1> QED BY <1>6, <1>8, <1>13, <1>16

\* An actor with nothing to do gets the entries e.
LEMMA RefStarts ==
  ASSUME Types, Types', NEW a \in Actors, NEW e \in Seq(Entry), agenda[a] = <<>>, agenda'[a] = e,
         \A b \in Actors : b # a => agenda'[b] = agenda[b],
         NEW x \in Owners, NEW n \in Tasks, NEW p \in Tasks, RefOf(p), NEW D, Gives(e, D),
         \A y \in Owners : y # x => (p \in futures'[y] <=> p \in futures[y]),
         \A m \in Tasks : m # n => (Lends(node'[m], p) <=> Lends(node[m], p))
  PROVE  /\ IsFiniteSet(Pending(p)') /\ node[p].ref \in Nat
         /\ References(p)' = node[p].ref + Bit(Owned(node'[p])) - Bit(Owned(node[p]))
                             + Bit(p \in futures'[x]) - Bit(p \in futures[x])
                             + Bit(Lends(node'[n], p)) - Bit(Lends(node[n], p))
                             + Bit(p \in D)
  <1>1. Cardinality(Hits(agenda'[a], p)) = Bit(p \in D)
    BY DEF Gives
  <1>2. Cardinality(Hits(agenda[a], p)) = 0
    <2>1. Hits(agenda[a], p) = {}
      BY NoElement DEF Hits
    <2> QED BY <2>1, FS_EmptySet
  <1>3. IsFiniteSet(Pending(p)) /\ node[p].ref = References(p)
    BY DEF RefOf
  <1>4. /\ IsFiniteSet(Pending(p)') /\ References(p) \in Nat
        /\ References(p)' = References(p) + Bit(Owned(node'[p])) - Bit(Owned(node[p]))
                             + Bit(p \in futures'[x]) - Bit(p \in futures[x])
                             + Bit(Lends(node'[n], p)) - Bit(Lends(node[n], p))
                             + Cardinality(Hits(agenda'[a], p)) - Cardinality(Hits(agenda[a], p))
    BY <1>3, RefChange
  <1>5. /\ Bit(Owned(node'[p])) \in 0 .. 1 /\ Bit(Owned(node[p])) \in 0 .. 1
        /\ Bit(p \in D) \in 0 .. 1
        /\ Bit(p \in futures[x]) \in 0 .. 1 /\ Bit(p \in futures'[x]) \in 0 .. 1
        /\ Bit(Lends(node[n], p)) \in 0 .. 1 /\ Bit(Lends(node'[n], p)) \in 0 .. 1
    BY DEF Bit
  <1> QED BY <1>1, <1>2, <1>3, <1>4, <1>5

\* A task that is referred to is not gone.
LEMMA NotGone ==
  ASSUME Types, NEW p \in Tasks, RefOf(p), FreedOf(p),
         \/ \E x \in Owners : p \in futures[x]
         \/ \E n \in Tasks : Lends(node[n], p)
         \/ \E a \in Actors : \E i \in DOMAIN agenda[a] : agenda[a][i] = Release(p)
         \/ ~node[p].consumed
  PROVE  node[p].kind # "freed"
  <1>1. IsFiniteSet(Pending(p)) /\ node[p].ref = References(p)
    BY DEF RefOf
  <1>2. References(p) = 0 =>
              /\ \A x \in Owners : p \notin futures[x]
              /\ \A n \in Tasks : ~Lends(node[n], p)
              /\ \A a \in Actors : \A i \in DOMAIN agenda[a] : agenda[a][i] # Release(p)
    BY <1>1, RefNeeds
  <1> QED BY <1>1, <1>2 DEF FreedOf

\* A step that moves nothing keeps the counts.
LEMMA RefStays ==
  ASSUME NEW p \in Tasks, RefOf(p), FreedOf(p), agenda' = agenda, futures' = futures, node' = node
  PROVE  RefOf(p)' /\ FreedOf(p)'
  <1>1. Pending(p)' = Pending(p)
    BY DEF Pending
  <1>2. Holders(p)' = Holders(p) /\ Borrowers(p)' = Borrowers(p)
    BY DEF Holders, Borrowers
  <1>3. References(p)' = References(p)
    BY <1>1, <1>2, RefParts, RefPartsNext
  <1> QED BY <1>1, <1>3 DEF RefOf, FreedOf

\* New tasks that are not scheduled yet, after a step of the scheduler's code ...
LEMMA SpawnedThen ==
  ASSUME Types, \A n \in Tasks : SpawnedOf(n), NEW a \in Actors, NEW e \in Seq(Entry),
         agenda[a] # <<>>, Then(a, e), futures' = futures, running' = running,
         \A m \in Tasks : Starts(node'[m]) => Starts(node[m]) /\ node'[m].deps = node[m].deps,
         agenda[a][1].do = "schedule" => ~Starts(node'[agenda[a][1].n])
  PROVE  \A n \in Tasks : SpawnedOf(n)'
  <1> SUFFICES ASSUME NEW n \in Tasks, Starts(node'[n]) PROVE \E b \in Actors : StartedBy(n, b)'
    BY DEF SpawnedOf
  <1>1. PICK b \in Actors : StartedBy(n, b)
    BY DEF SpawnedOf
  <1>2. \A c \in Actors : c # a => agenda'[c] = agenda[c]
    BY ThenTodo
  <1>3. b # a
    <2> SUFFICES ASSUME b = a PROVE FALSE
      OBVIOUS
    <2>1. agenda[a] = <<Schedule(n)>>
      BY <1>1 DEF StartedBy
    <2>2. agenda[a][1] = Schedule(n)
      BY <2>1
    <2> QED BY <2>2, EntryFields
  <1>4. Self(b)' = Self(b)
    BY DEF Self
  <1>5. StartedBy(n, b)'
    BY <1>1, <1>2, <1>3, <1>4 DEF StartedBy
  <1> QED BY <1>5

\* ... and after another one, of an actor that has nothing to do.
LEMMA SpawnedOthers ==
  ASSUME \A n \in Tasks : SpawnedOf(n), NEW a \in Actors, agenda[a] = <<>>, NEW n \in Tasks,
         Starts(node'[n]) => Starts(node[n]) /\ node'[n].deps = node[n].deps,
         \A b \in Actors : b # a => agenda'[b] = agenda[b] /\ running'[b] = running[b],
         \A b \in Actors : b # a /\ agenda[b] = <<Schedule(n)>> => futures[Self(b)] \subseteq futures'[Self(b)]
  PROVE  SpawnedOf(n)'
  <1> SUFFICES ASSUME Starts(node'[n]) PROVE \E b \in Actors : StartedBy(n, b)'
    BY DEF SpawnedOf
  <1>1. PICK b \in Actors : StartedBy(n, b)
    BY DEF SpawnedOf
  <1>2. agenda[b] = <<Schedule(n)>> /\ Range(node[n].deps) \subseteq futures[Self(b)]
    BY <1>1 DEF StartedBy
  <1>3. b # a
    BY <1>2
  <1>4. Self(b)' = Self(b)
    BY <1>3 DEF Self
  <1>5. StartedBy(n, b)'
    BY <1>2, <1>3, <1>4 DEF StartedBy
  <1> QED BY <1>5

\* Who schedules a task alone runs a functor, or is the host.
LEMMA StarterOwns ==
  ASSUME Types, Shaped, NEW b \in Actors, NEW n, agenda[b] = <<Schedule(n)>>
  PROVE  (b = Host \/ running[b] \in Tasks) /\ Self(b) \in Owners
  <1>1. b = Host \/ running[b] \in Tasks
    <2>1. SUFFICES ASSUME b \in Workers PROVE running[b] \in Tasks
      BY DEF Actors
    <2>2. agenda[b] # <<>> /\ ~EndsIn(agenda[b])
      <3>1. PICK y : y = Schedule(n)
        OBVIOUS
      <3>2. y.do # "countdown"
        BY <3>1, EntryFields
      <3>3. agenda[b] = <<y>>
        BY <3>1
      <3> QED BY <3>2, <3>3 DEF EndsIn
    <2>3. running[b] # 0
      BY <2>1, <2>2 DEF Shaped
    <2>4. running[b] \in 0 .. MaxWork
      BY DEF Types
    <2> QED BY <2>3, <2>4, MaxWorkAssumption DEF Tasks
  <1> QED BY <1>1 DEF Self, Owners

\* Nobody else has the futures of the functor that a runs.
LEMMA OtherSelf ==
  ASSUME TaskInv, NEW a \in Actors, NEW b \in Actors, b # a, NEW n, agenda[b] = <<Schedule(n)>>,
         a = Host \/ running[a] \in Tasks
  PROVE  Self(b) # Self(a)
  <1>i. Types /\ Placed /\ Shaped
    BY DEF TaskInv
  <1>1. b = Host \/ running[b] \in Tasks
    BY <1>i, StarterOwns
  <1>2. Host \notin Tasks
    BY HostAssumption
  <1>3. CASE a = Host \/ b = Host
    BY <1>1, <1>2, <1>3 DEF Self
  <1>4. CASE a # Host /\ b # Host
    <2>1. PICK at, by : PlacedAs(at, by)
      BY <1>i DEF Placed
    <2>2. running[a] # running[b]
      <3>1. SUFFICES ASSUME running[a] = running[b] PROVE FALSE
        OBVIOUS
      <3>2. PICK m \in Tasks : running[a] = m /\ running[b] = m
        BY <3>1, <1>4
      <3>3. Stands(m, at[m], by[m])
        BY <2>1 DEF PlacedAs
      <3>4. by[m] = a /\ by[m] = b
        BY <3>2, <3>3 DEF Stands
      <3> QED BY <3>4
    <2> QED BY <2>2, <1>4 DEF Self
  <1> QED BY <1>3, <1>4

\* Steps that leave the nodes and the references alone.
LEMMA RefQuiet ==
  ASSUME Types, Types', RefInv, NEW a \in Actors, NEW e \in Seq(Entry), agenda[a] # <<>>, Then(a, e),
         Gives(e, {}), node' = node, futures' = futures, running' = running,
         agenda[a][1].do # "release",
         agenda[a][1].do = "schedule" => ~Starts(node[agenda[a][1].n])
  PROVE  RefInv'
  <1>1. ASSUME NEW p \in Tasks PROVE RefOf(p)' /\ FreedOf(p)'
    <2>1. RefOf(p) /\ FreedOf(p)
      BY DEF RefInv
    <2>2. PICK D : D = {}
      OBVIOUS
    <2>3. Gives(e, D)
      BY <2>2
    <2>4. /\ IsFiniteSet(Pending(p)') /\ node[p].ref \in Nat
          /\ References(p)' = node[p].ref + Bit(Owned(node'[p])) - Bit(Owned(node[p]))
                             + Bit(Lends(node'[p], p)) - Bit(Lends(node[p], p))
                             + Bit(p \in D) - Bit(agenda[a][1] = Release(p))
      BY <2>1, <2>3, RefThen
    <2>5. agenda[a][1] # Release(p) /\ p \notin D
      BY <2>2, EntryFields
    <2>6. References(p)' = node[p].ref
      BY <2>4, <2>5 DEF Bit
    <2> QED BY <2>1, <2>4, <2>6 DEF RefOf, FreedOf
  <1>2. \A n \in Tasks : SpawnedOf(n)'
    BY SpawnedThen DEF RefInv
  <1> QED BY <1>1, <1>2 DEF RefInv

\* What the lists that the actions put in front release.
LEMMA FrontsGive ==
  ASSUME NEW n \in Tasks, NEW p \in Tasks
  PROVE  /\ Gives(<<>>, {}) /\ Gives(<<Schedule(n)>>, {}) /\ Gives(<<Enqueue(n)>>, {})
         /\ Gives(<<Complete(n)>>, {}) /\ Gives(<<Release(p)>>, {p})
         /\ Gives(<<Release(p), Schedule(n)>>, {p}) /\ Gives(<<Schedule(n), CountDown>>, {})
  <1>1. Gives(<<>>, {})
    BY NoElement, GivesNothing
  <1>2. ASSUME NEW x, x.do # "release" PROVE Gives(<<x>>, {})
    <2>1. \A i \in DOMAIN <<x>> : <<x>>[i] = x
      OBVIOUS
    <2> QED BY <2>1, <1>2, GivesNothing
  <1>3. Gives(<<Schedule(n)>>, {}) /\ Gives(<<Enqueue(n)>>, {}) /\ Gives(<<Complete(n)>>, {})
    BY <1>2, EntryFields
  <1>4. Gives(<<Release(p)>>, {p})
    <2>1. PICK x : x = Release(p)
      OBVIOUS
    <2>2. PICK e : e = <<x>> /\ DOMAIN e = {1} /\ e[1] = x
      <3>1. DOMAIN <<x>> = {1} /\ <<x>>[1] = x
        OBVIOUS
      <3> QED BY <3>1
    <2>3. Gives(e, {p})
      BY <2>1, <2>2, GivesOne
    <2> QED BY <2>1, <2>2, <2>3
  <1>5. Gives(<<Release(p), Schedule(n)>>, {p})
    <2>1. PICK x : x = Release(p)
      OBVIOUS
    <2>2. PICK y : y = Schedule(n) /\ y.do # "release"
      BY EntryFields
    <2>3. PICK e : e = <<x, y>> /\ DOMAIN e = {1, 2} /\ e[1] = x /\ e[2] = y
      <3>1. DOMAIN <<x, y>> = {1, 2} /\ <<x, y>>[1] = x /\ <<x, y>>[2] = y
        OBVIOUS
      <3> QED BY <3>1
    <2>4. Gives(e, {p})
      BY <2>1, <2>2, <2>3, GivesOne
    <2> QED BY <2>1, <2>2, <2>3, <2>4
  <1>6. Gives(<<Schedule(n), CountDown>>, {})
    <2>1. PICK e : e = <<Schedule(n), CountDown>>
      OBVIOUS
    <2>2. DOMAIN e = {1, 2} /\ e[1] = Schedule(n) /\ e[2] = CountDown
      BY <2>1, RespawnList
    <2>3. \A i \in DOMAIN e : e[i].do # "release"
      BY <2>2, EntryFields
    <2> QED BY <2>1, <2>3, GivesNothing
  <1> QED BY <1>1, <1>3, <1>4, <1>5, <1>6

LEMMA RefPush ==
  ASSUME TaskInv, Types', RefInv, NEW a \in Actors, PushReady(a) \/ AggregateDone(a) \/ DecrementReadyCount(a)
  PROVE  RefInv'
  <1>i. Types /\ Numbered
    BY DEF TaskInv
  <1>0. PICK nothing \in Seq(Entry) : nothing = <<>>
    BY EmptySeq
  <1>1. Gives(nothing, {})
    BY <1>0, NoElement, GivesNothing
  <1>2. CASE PushReady(a) \/ DecrementReadyCount(a)
    <2>1. /\ Do(a, "push") \/ Do(a, "countdown")
          /\ Then(a, nothing) /\ node' = node /\ futures' = futures /\ running' = running
      BY <1>2, <1>0 DEF PushReady, DecrementReadyCount
    <2>2. agenda[a] # <<>> /\ agenda[a][1].do \in {"push", "countdown"}
      BY <2>1 DEF Do
    <2> QED BY <2>1, <2>2, <1>1, <1>i, RefQuiet
  <1>3. CASE AggregateDone(a)
    <2>1. /\ Do(a, "schedule") /\ node[The(a)].kind = "aggregate" /\ node' = node
          /\ futures' = futures /\ running' = running /\ Then(a, <<Complete(The(a))>>)
      BY <1>3 DEF AggregateDone
    <2>2. /\ agenda[a] # <<>> /\ agenda[a][1].do = "schedule" /\ The(a) = agenda[a][1].n
          /\ The(a) \in Tasks
      BY <2>1, <1>i, HeadEntry
    <2>3. PICK e \in Seq(Entry) : e = <<Complete(The(a))>>
      BY <2>2, EntryTypes
    <2>4. Gives(e, {})
      BY <2>2, <2>3, FrontsGive
    <2>5. ~Starts(node[agenda[a][1].n])
      BY <2>1, <2>2 DEF Starts
    <2>6. Then(a, e)
      BY <2>1, <2>3
    <2> QED BY <2>1, <2>2, <2>4, <2>5, <2>6, <1>i, RefQuiet
  <1> QED BY <1>2, <1>3

LEMMA RefReady ==
  ASSUME TaskInv, Types', RefInv, NEW a \in Actors, ScheduleReady(a)
  PROVE  RefInv'
  <1>i. Types /\ Numbered
    BY DEF TaskInv
  <1>1. PICK n \in Tasks :
           /\ Do(a, "schedule") /\ n = The(a) /\ n \in Created
           /\ node[n].kind = "runnable" /\ node[n].deps = <<>>
           /\ node' \in [Tasks -> NodeType]
           /\ \A m \in Tasks : m # n => node'[m] = node[m]
           /\ ~node'[n].flag
           /\ \A m \in Tasks : /\ node'[m].kind = node[m].kind /\ node'[m].ref = node[m].ref
                               /\ node'[m].deps = node[m].deps /\ node'[m].after = node[m].after
                               /\ node'[m].consumed = node[m].consumed
                               /\ node'[m].wait = node[m].wait
           /\ m_ready_count' = m_ready_count + 1
           /\ Then(a, <<Enqueue(n)>>)
           /\ UNCHANGED <<ready, running, futures, inside, respawns>>
    BY ReadyEffect, Zenon
  <1>2. futures' = futures /\ running' = running
    BY <1>1
  <1>3. /\ agenda[a] # <<>> /\ agenda[a][1].do = "schedule" /\ n = agenda[a][1].n
    BY <1>1, <1>i, HeadEntry
  <1>4. PICK e \in Seq(Entry) : e = <<Enqueue(n)>>
    BY EntryTypes
  <1>5. Gives(e, {}) /\ Then(a, e)
    BY <1>1, <1>4, FrontsGive
  <1>6. ASSUME NEW p \in Tasks PROVE RefOf(p)' /\ FreedOf(p)'
    <2>1. RefOf(p) /\ FreedOf(p)
      BY DEF RefInv
    <2>2. \A m \in Tasks : m # n => (Lends(node'[m], p) <=> Lends(node[m], p))
      BY <1>1
    <2>3. PICK D : D = {} /\ Gives(e, D)
      BY <1>5
    <2>4. /\ IsFiniteSet(Pending(p)') /\ node[p].ref \in Nat
          /\ References(p)' = node[p].ref + Bit(Owned(node'[p])) - Bit(Owned(node[p]))
                             + Bit(Lends(node'[n], p)) - Bit(Lends(node[n], p))
                             + Bit(p \in D) - Bit(agenda[a][1] = Release(p))
      BY <1>2, <1>3, <1>5, <1>i, <2>1, <2>2, <2>3, RefThen
    <2>5. agenda[a][1] # Release(p) /\ p \notin D
      BY <1>3, <2>3, EntryFields
    <2>6. ~Lends(node'[n], p) /\ ~Lends(node[n], p)
      BY <1>1, NoElement DEF Lends
    <2>7. Owned(node'[p]) <=> Owned(node[p])
      BY <1>1 DEF Owned
    <2>8. References(p)' = node[p].ref
      BY <2>4, <2>5, <2>6, <2>7 DEF Bit
    <2>9. node'[p].ref = node[p].ref /\ node'[p].kind = node[p].kind /\ node'[p].consumed = node[p].consumed
      BY <1>1
    <2> QED BY <2>1, <2>4, <2>8, <2>9 DEF RefOf, FreedOf
  <1>7. \A n1 \in Tasks : SpawnedOf(n1)'
    <2>1. \A m \in Tasks : Starts(node'[m]) => Starts(node[m]) /\ node'[m].deps = node[m].deps
      BY <1>1 DEF Starts
    <2>2. ~Starts(node'[agenda[a][1].n])
      BY <1>1, <1>3 DEF Starts
    <2> QED BY <2>1, <2>2, <1>2, <1>3, <1>5, <1>i, SpawnedThen DEF RefInv
  <1>8. \A m \in Tasks : IsInjective(node'[m].deps)
    BY <1>1 DEF RefInv
  <1> QED BY <1>6, <1>7, <1>8 DEF RefInv

\* decrement_and_check_reference_count: who takes the last reference away finds
\* the task complete.
LEMMA RefDeallocates ==
  ASSUME TaskInv, Types', RefInv, NEW a \in Actors, Deallocates(a)
  PROVE  RefInv'
  <1>i. Types /\ Numbered /\ Ordered
    BY DEF TaskInv
  <1>1. PICK n \in Tasks :
           /\ Do(a, "release") /\ n = The(a) /\ n \in Created
           /\ node' \in [Tasks -> NodeType]
           /\ \A m \in Tasks : m # n => node'[m] = node[m]
           /\ node'[n].ref = node[n].ref - 1
           /\ node'[n].kind = IF node[n].ref = 1 THEN "freed" ELSE node[n].kind
           /\ node'[n].wait = node[n].wait /\ (node'[n].consumed <=> node[n].consumed)
           /\ node'[n].deps = node[n].deps /\ (node'[n].flag <=> node[n].flag)
           /\ node'[n].after = node[n].after
           /\ Then(a, <<>>)
           /\ UNCHANGED <<ready, m_ready_count, running, futures, inside, respawns>>
    BY ReleaseEffect, Zenon
  <1>2. futures' = futures /\ running' = running
    BY <1>1
  <1>3. /\ agenda[a] # <<>> /\ agenda[a][1].do = "release" /\ n = agenda[a][1].n
        /\ agenda[a][1] \in Entry /\ 1 \in DOMAIN agenda[a]
    BY <1>1, <1>i, HeadEntry
  <1>4. agenda[a][1] = Release(n)
    <2>1. PICK y \in Entry : y = agenda[a][1]
      BY <1>3
    <2>2. y.do = "release" /\ y.n = n
      BY <2>1, <1>3
    <2>3. y \in [do : {"schedule", "push", "complete", "release"}, n : Tasks]
      BY <2>2 DEF Entry, CountDown
    <2>4. y = Release(n)
      BY <2>2, <2>3 DEF Release
    <2> QED BY <2>1, <2>4
  <1>5. PICK e \in Seq(Entry) : e = <<>>
    BY EmptySeq
  <1>6. Gives(e, {}) /\ Then(a, e)
    BY <1>1, <1>5, FrontsGive
  <1>7. RefOf(n) /\ FreedOf(n)
    BY DEF RefInv
  <1>8. IsFiniteSet(Pending(n)) /\ node[n].ref = References(n)
    BY <1>7 DEF RefOf
  <1>9. node[n].ref = 1 => ~Owned(node[n])
    BY <1>3, <1>4, <1>8, <1>i, RefNeeds
  <1>10. node[n].kind \in {"runnable", "aggregate"}
    <2>1. node[n].kind # "freed"
      BY <1>3, <1>4, <1>7, <1>i, NotGone
    <2>2. node[n].kind # "unused" /\ node[n].kind \in NodeKinds
      BY <1>1, <1>i, FieldTypes DEF Types, Created
    <2> QED BY <2>1, <2>2 DEF NodeKinds
  <1>11. node[n].ref = 1 => node[n].consumed
    BY <1>9, <1>10 DEF Owned
  <1>12. node[n].ref = 1 => node[n].deps = <<>>
    BY <1>11, <1>i DEF Ordered, Settled
  <1>13. ASSUME NEW p \in Tasks PROVE Lends(node'[n], p) <=> Lends(node[n], p)
    <2>1. CASE node[n].ref = 1
      BY <1>1, <1>12, <2>1, NoElement DEF Lends
    <2>2. CASE node[n].ref # 1
      BY <1>1, <2>2 DEF Lends
    <2> QED BY <2>1, <2>2
  <1>14. ASSUME NEW p \in Tasks PROVE Owned(node'[p]) <=> Owned(node[p])
    <2>1. CASE p # n
      BY <1>1, <2>1
    <2>2. CASE p = n /\ node[n].ref = 1
      <3>1. ~Owned(node'[n])
        BY <1>1, <1>11, <2>2 DEF Owned
      <3> QED BY <3>1, <1>9, <2>2
    <2>3. CASE p = n /\ node[n].ref # 1
      BY <1>1, <2>3 DEF Owned
    <2> QED BY <2>1, <2>2, <2>3
  <1>15. ASSUME NEW p \in Tasks PROVE RefOf(p)' /\ FreedOf(p)'
    <2>1. RefOf(p) /\ FreedOf(p)
      BY DEF RefInv
    <2>2. \A m \in Tasks : m # n => (Lends(node'[m], p) <=> Lends(node[m], p))
      BY <1>1
    <2>3. PICK D : D = {} /\ Gives(e, D)
      BY <1>6
    <2>4. /\ IsFiniteSet(Pending(p)') /\ node[p].ref \in Nat
          /\ References(p)' = node[p].ref + Bit(Owned(node'[p])) - Bit(Owned(node[p]))
                             + Bit(Lends(node'[n], p)) - Bit(Lends(node[n], p))
                             + Bit(p \in D) - Bit(agenda[a][1] = Release(p))
      BY <1>2, <1>3, <1>6, <1>i, <2>1, <2>2, <2>3, RefThen
    <2>5. Bit(agenda[a][1] = Release(p)) = IF p = n THEN 1 ELSE 0
      BY <1>4, SameRelease DEF Bit
    <2>6. /\ Bit(Owned(node'[p])) = Bit(Owned(node[p])) /\ Bit(Lends(node'[n], p)) = Bit(Lends(node[n], p))
          /\ Bit(p \in D) = 0 /\ Bit(Owned(node[p])) \in 0 .. 1 /\ Bit(Lends(node[n], p)) \in 0 .. 1
      BY <1>13, <1>14, <2>3 DEF Bit
    <2>7. References(p)' = IF p = n THEN node[p].ref - 1 ELSE node[p].ref
      BY <2>4, <2>5, <2>6
    <2>8. node'[p].ref = References(p)'
      BY <2>7, <1>1
    <2>9. FreedOf(p)'
      <3>1. CASE p # n
        BY <3>1, <1>1, <2>1 DEF FreedOf
      <3>2. CASE p = n
        BY <3>2, <1>1, <1>10, <1>11 DEF FreedOf
      <3> QED BY <3>1, <3>2
    <2> QED BY <2>4, <2>8, <2>9 DEF RefOf
  <1>16. \A n1 \in Tasks : SpawnedOf(n1)'
    <2>1. ASSUME NEW m \in Tasks, Starts(node'[m]) PROVE Starts(node[m]) /\ node'[m].deps = node[m].deps
      <3>1. CASE m # n
        BY <3>1, <2>1, <1>1
      <3>2. CASE m = n
        <4>1. node[n].ref # 1
          BY <3>2, <2>1, <1>1, <1>12 DEF Starts
        <4> QED BY <4>1, <3>2, <2>1, <1>1 DEF Starts
      <3> QED BY <3>1, <3>2
    <2> QED BY <2>1, <1>2, <1>3, <1>6, <1>i, SpawnedThen DEF RefInv
  <1>17. \A m \in Tasks : IsInjective(node'[m].deps)
    <2>1. \A m \in Tasks : node'[m].deps = node[m].deps
      BY <1>1
    <2> QED BY <2>1 DEF RefInv
  <1> QED BY <1>15, <1>16, <1>17 DEF RefInv

\* _complete_finished_task: the task's own reference is given back.
LEMMA RefComplete ==
  ASSUME TaskInv, Types', RefInv, NEW a \in Actors, CompleteTask(a)
  PROVE  RefInv'
  <1>i. Types /\ Numbered /\ Placed
    BY DEF TaskInv
  <1>1. PICK n \in Tasks : \E waiting \in Seq(Tasks) : \E schedules \in Seq(Entry) :
           /\ Do(a, "complete") /\ n = The(a) /\ n \in Created /\ waiting = node[n].wait
           /\ Len(schedules) = Len(waiting) /\ DOMAIN schedules = DOMAIN waiting
           /\ \A i \in DOMAIN waiting : schedules[i] = Schedule(waiting[i])
           /\ node' \in [Tasks -> NodeType]
           /\ \A m \in Tasks : m # n => node'[m] = node[m]
           /\ node'[n].wait = <<>> /\ node'[n].consumed
           /\ node'[n].kind = node[n].kind /\ node'[n].ref = node[n].ref
           /\ node'[n].deps = node[n].deps /\ (node'[n].flag <=> node[n].flag)
           /\ node'[n].after = node[n].after
           /\ Then(a, schedules \o <<Release(n)>>)
           /\ UNCHANGED <<ready, m_ready_count, running, futures, inside, respawns>>
    BY CompleteEffect, Zenon
  <1>2. PICK waiting \in Seq(Tasks), schedules \in Seq(Entry) :
           /\ Do(a, "complete") /\ n = The(a) /\ n \in Created /\ waiting = node[n].wait
           /\ Len(schedules) = Len(waiting) /\ DOMAIN schedules = DOMAIN waiting
           /\ \A i \in DOMAIN waiting : schedules[i] = Schedule(waiting[i])
           /\ \A m \in Tasks : m # n => node'[m] = node[m]
           /\ node'[n].consumed
           /\ node'[n].kind = node[n].kind /\ node'[n].ref = node[n].ref
           /\ node'[n].deps = node[n].deps /\ (node'[n].flag <=> node[n].flag)
           /\ Then(a, schedules \o <<Release(n)>>)
           /\ futures' = futures /\ running' = running
    BY <1>1
  <1>3. /\ agenda[a] # <<>> /\ agenda[a][1].do = "complete" /\ n = agenda[a][1].n
        /\ 1 \in DOMAIN agenda[a]
    BY <1>2, <1>i, HeadEntry
  <1>4. ~node[n].consumed
    <2>1. PICK at, by : PlacedAs(at, by)
      BY <1>i DEF Placed
    <2>2. Carrier(agenda[a][1])
      BY <1>3 DEF Carrier
    <2>3. at[n] = "todo"
      BY <2>1, <2>2, <1>3 DEF PlacedAs, CarriedBy
    <2>4. Stands(n, at[n], by[n])
      BY <2>1 DEF PlacedAs
    <2> QED BY <2>3, <2>4 DEF Stands
  <1>5. Owned(node[n]) /\ ~Owned(node'[n])
    <2>1. RefOf(n) /\ FreedOf(n)
      BY DEF RefInv
    <2>2. node[n].kind # "freed"
      BY <2>1, <1>4 DEF FreedOf
    <2>3. node[n].kind # "unused" /\ node[n].kind \in NodeKinds
      BY <1>2, <1>i, FieldTypes DEF Types, Created
    <2> QED BY <2>2, <2>3, <1>2, <1>4 DEF NodeKinds, Owned
  <1>6. PICK e : e = schedules \o <<Release(n)>>
    OBVIOUS
  <1>7. IsInjective(waiting) /\ ScheduleList(schedules, waiting)
    BY <1>2, <1>i DEF Placed, ScheduleList
  <1>8. CompleteList(e, n, waiting)
    BY <1>6, <1>7, CompletionList
  <1>9. e \in Seq(Entry) /\ Then(a, e)
    BY <1>2, <1>6, <1>8 DEF CompleteList
  <1>10. Gives(e, {n})
    <2>1. PICK k \in Nat : k = Len(waiting) /\ DOMAIN waiting = 1 .. k
      OBVIOUS
    <2>2. DOMAIN e = 1 .. k + 1 /\ e[k + 1] = Release(n)
      BY <2>1, <1>8 DEF CompleteList
    <2>3. \A i \in 1 .. k : e[i] = Schedule(waiting[i])
      BY <2>1, <1>8 DEF CompleteList
    <2>4. \A i \in 1 .. k : e[i].do # "release"
      BY <2>3, EntryFields
    <2>5. k + 1 \in DOMAIN e /\ \A i \in DOMAIN e : i # k + 1 => i \in 1 .. k
      BY <2>2
    <2> QED BY <2>2, <2>4, <2>5, GivesOne
  <1>11. ASSUME NEW p \in Tasks PROVE RefOf(p)' /\ FreedOf(p)'
    <2>1. RefOf(p) /\ FreedOf(p)
      BY DEF RefInv
    <2>2. \A m \in Tasks : m # n => (Lends(node'[m], p) <=> Lends(node[m], p))
      BY <1>2
    <2>3. PICK D : D = {n} /\ Gives(e, D)
      BY <1>10
    <2>4. /\ IsFiniteSet(Pending(p)') /\ node[p].ref \in Nat
          /\ References(p)' = node[p].ref + Bit(Owned(node'[p])) - Bit(Owned(node[p]))
                             + Bit(Lends(node'[n], p)) - Bit(Lends(node[n], p))
                             + Bit(p \in D) - Bit(agenda[a][1] = Release(p))
      BY <1>2, <1>3, <1>9, <1>i, <2>1, <2>2, <2>3, RefThen
    <2>5. Bit(agenda[a][1] = Release(p)) = 0
      BY <1>3, EntryFields DEF Bit
    <2>6. Bit(Lends(node'[n], p)) = Bit(Lends(node[n], p)) /\ Bit(Lends(node[n], p)) \in 0 .. 1
      BY <1>2 DEF Lends, Bit
    <2>7. Bit(Owned(node'[p])) - Bit(Owned(node[p])) + Bit(p \in D) = 0 /\ Bit(Owned(node'[p])) \in 0 .. 1
          /\ Bit(Owned(node[p])) \in 0 .. 1 /\ Bit(p \in D) \in 0 .. 1
      <3>1. CASE p = n
        BY <3>1, <1>5, <2>3 DEF Bit
      <3>2. CASE p # n
        <4>1. node'[p] = node[p]
          BY <3>2, <1>2
        <4> QED BY <4>1, <3>2, <2>3 DEF Bit
      <3> QED BY <3>1, <3>2
    <2>8. References(p)' = node[p].ref
      <3>1. PICK o, o2, l, d \in 0 .. 1 :
              /\ o = Bit(Owned(node[p])) /\ o2 = Bit(Owned(node'[p])) /\ d = Bit(p \in D)
              /\ l = Bit(Lends(node[n], p)) /\ l = Bit(Lends(node'[n], p))
        BY <2>6, <2>7
      <3>2. References(p)' = node[p].ref + o2 - o + l - l + d - 0 /\ o2 - o + d = 0
        BY <2>4, <2>5, <2>7, <3>1
      <3> QED BY <2>4, <3>2
    <2>9. node'[p].ref = node[p].ref
      BY <1>2
    <2>10. FreedOf(p)'
      <3>1. CASE p # n
        BY <3>1, <1>2, <2>1 DEF FreedOf
      <3>2. CASE p = n
        BY <3>2, <1>2, <1>5 DEF FreedOf, Owned
      <3> QED BY <3>1, <3>2
    <2> QED BY <2>4, <2>8, <2>9, <2>10 DEF RefOf
  <1>12. \A n1 \in Tasks : SpawnedOf(n1)'
    <2>1. \A m \in Tasks : Starts(node'[m]) => Starts(node[m]) /\ node'[m].deps = node[m].deps
      BY <1>2 DEF Starts
    <2> QED BY <2>1, <1>2, <1>3, <1>9, <1>i, SpawnedThen DEF RefInv
  <1>13. \A m \in Tasks : IsInjective(node'[m].deps)
    <2>1. \A m \in Tasks : node'[m].deps = node[m].deps
      BY <1>2
    <2> QED BY <2>1 DEF RefInv
  <1> QED BY <1>11, <1>12, <1>13 DEF RefInv

LEMMA Cancel ==
  ASSUME NEW r \in Nat, NEW o \in 0 .. 1, NEW l \in 0 .. 1, NEW l2 \in 0 .. 1, NEW d \in 0 .. 1,
         l2 - l + d = 0
  PROVE  r + o - o + l2 - l + d - 0 = r
  OBVIOUS

\* A task is scheduled: the references to predecessors that it gives up are the
\* ones that will be released.
LEMMA RefSchedule ==
  ASSUME Types, Types', RefInv, NEW a \in Actors, NEW e \in Seq(Entry), agenda[a] # <<>>, Then(a, e),
         futures' = futures, running' = running, NEW n \in Tasks,
         agenda[a][1].do = "schedule", agenda[a][1].n = n, NEW D, Gives(e, D),
         \A m \in Tasks : m # n => node'[m].deps = node[m].deps /\ (node'[m].flag <=> node[m].flag),
         \A m \in Tasks : /\ node'[m].kind = node[m].kind /\ node'[m].ref = node[m].ref
                          /\ node'[m].consumed = node[m].consumed,
         \A p \in Tasks : Lends(node[n], p) <=> (Lends(node'[n], p) \/ p \in D),
         \A p \in D : ~Lends(node'[n], p),
         IsInjective(node'[n].deps), ~Starts(node'[n])
  PROVE  RefInv'
  <1>1. ASSUME NEW p \in Tasks PROVE RefOf(p)' /\ FreedOf(p)'
    <2>1. RefOf(p) /\ FreedOf(p)
      BY DEF RefInv
    <2>2. \A m \in Tasks : m # n => (Lends(node'[m], p) <=> Lends(node[m], p))
      BY DEF Lends
    <2>3. /\ IsFiniteSet(Pending(p)') /\ node[p].ref \in Nat
          /\ References(p)' = node[p].ref + Bit(Owned(node'[p])) - Bit(Owned(node[p]))
                             + Bit(Lends(node'[n], p)) - Bit(Lends(node[n], p))
                             + Bit(p \in D) - Bit(agenda[a][1] = Release(p))
      BY <2>1, <2>2, RefThen
    <2>4. Bit(agenda[a][1] = Release(p)) = 0
      BY EntryFields DEF Bit
    <2>5. PICK o, l, l2, d \in 0 .. 1 :
            /\ o = Bit(Owned(node[p])) /\ o = Bit(Owned(node'[p])) /\ d = Bit(p \in D)
            /\ l = Bit(Lends(node[n], p)) /\ l2 = Bit(Lends(node'[n], p)) /\ l2 - l + d = 0
      <3>1. Bit(Owned(node'[p])) = Bit(Owned(node[p])) /\ Bit(Owned(node[p])) \in 0 .. 1
        BY DEF Bit, Owned
      <3>2. /\ Bit(Lends(node[n], p)) \in 0 .. 1 /\ Bit(Lends(node'[n], p)) \in 0 .. 1
            /\ Bit(p \in D) \in 0 .. 1
            /\ Bit(Lends(node'[n], p)) - Bit(Lends(node[n], p)) + Bit(p \in D) = 0
        BY DEF Bit
      <3> QED BY <3>1, <3>2
    <2>6. References(p)' = node[p].ref + o - o + l2 - l + d - 0
      BY <2>3, <2>4, <2>5
    <2>8. References(p)' = node[p].ref
      <3>1. PICK r \in Nat : r = node[p].ref
        BY <2>3
      <3>2. l2 - l + d = 0
        BY <2>5
      <3>3. r + o - o + l2 - l + d - 0 = r
        BY <3>2, Cancel
      <3> QED BY <3>1, <3>3, <2>6
    <2>7. References(p)' = node'[p].ref
      BY <2>8
    <2> QED BY <2>1, <2>3, <2>7 DEF RefOf, FreedOf
  <1>2. \A m \in Tasks : SpawnedOf(m)'
    <2>1. \A m \in Tasks : Starts(node'[m]) => Starts(node[m]) /\ node'[m].deps = node[m].deps
      BY DEF Starts
    <2> QED BY <2>1, SpawnedThen DEF RefInv
  <1>3. \A m \in Tasks : IsInjective(node'[m].deps)
    BY DEF RefInv
  <1> QED BY <1>1, <1>2, <1>3 DEF RefInv

LEMMA RefDependent ==
  ASSUME TaskInv, Types', RefInv, NEW a \in Actors, ScheduleDependent(a)
  PROVE  RefInv'
  <1>i. Types /\ Numbered
    BY DEF TaskInv
  <1>1. PICK n, q \in Tasks :
           /\ Do(a, "schedule") /\ n = The(a) /\ n \in Created /\ q \in Created /\ q # n
           /\ node[n].kind = "runnable" /\ node[n].deps = <<q>> /\ Range(node[n].deps) = {q}
           /\ node' \in [Tasks -> NodeType]
           /\ \A m \in Tasks : m # n => node'[m].deps = node[m].deps /\ (node'[m].flag <=> node[m].flag)
           /\ node'[n].deps = <<>> /\ ~node'[n].flag
           /\ \A m \in Tasks : /\ node'[m].kind = node[m].kind /\ node'[m].ref = node[m].ref
                               /\ node'[m].after = node[m].after
                               /\ node'[m].consumed = node[m].consumed
                               /\ m # q => node'[m].wait = node[m].wait
           /\ node'[q].wait = IF node[q].consumed THEN node[q].wait ELSE <<n>> \o node[q].wait
           /\ node[q].consumed => Then(a, Returned(n, q) \o <<Schedule(n)>>)
           /\ ~node[q].consumed => Then(a, Returned(n, q))
           /\ UNCHANGED <<ready, m_ready_count, running, futures, inside, respawns>>
    BY DependentEffect, Zenon
  <1>2. futures' = futures /\ running' = running
    BY <1>1
  <1>3. agenda[a] # <<>> /\ agenda[a][1].do = "schedule" /\ agenda[a][1].n = n
    BY <1>1, <1>i, HeadEntry
  <1>4. PICK e \in Seq(Entry), D \in SUBSET Tasks : D = (IF node[n].flag THEN {q} ELSE {}) /\ Gives(e, D) /\ Then(a, e)
    <2>1. CASE node[n].flag
      <3>1. Returned(n, q) = <<Release(q)>>
        BY <2>1 DEF Returned
      <3>2. Then(a, <<Release(q), Schedule(n)>>) \/ Then(a, <<Release(q)>>)
        BY <3>1, <1>1, EntryLists
      <3>3. /\ Gives(<<Release(q), Schedule(n)>>, {q}) /\ Gives(<<Release(q)>>, {q})
            /\ <<Release(q), Schedule(n)>> \in Seq(Entry) /\ <<Release(q)>> \in Seq(Entry)
        BY FrontsGive, EntryTypes, EntryLists
      <3> QED BY <3>2, <3>3, <2>1, Zenon
    <2>2. CASE ~node[n].flag
      <3>1. Returned(n, q) = <<>>
        BY <2>2 DEF Returned
      <3>2. Then(a, <<Schedule(n)>>) \/ Then(a, <<>>)
        BY <3>1, <1>1, EntryLists
      <3>3. /\ Gives(<<Schedule(n)>>, {}) /\ Gives(<<>>, {})
            /\ <<Schedule(n)>> \in Seq(Entry) /\ <<>> \in Seq(Entry)
        BY FrontsGive, EntryTypes
      <3>4. PICK none \in SUBSET Tasks : none = {} /\ none = (IF node[n].flag THEN {q} ELSE {})
        BY <2>2
      <3>5. PICK e \in Seq(Entry) : Then(a, e) /\ Gives(e, none)
        BY <3>2, <3>3, <3>4, Zenon
      <3> QED BY <3>4, <3>5
    <2> QED BY <2>1, <2>2
  <1>5. /\ \A p \in Tasks : Lends(node[n], p) <=> (Lends(node'[n], p) \/ p \in D)
        /\ \A p \in D : ~Lends(node'[n], p)
    <2>1. \A p : ~Lends(node'[n], p)
      BY <1>1, NoElement DEF Lends
    <2>2. \A p \in Tasks : Lends(node[n], p) <=> p \in D
      BY <1>1, <1>4 DEF Lends
    <2> QED BY <2>1, <2>2
  <1>6. IsInjective(node'[n].deps) /\ ~Starts(node'[n])
    BY <1>1, NoElement DEF Starts, IsInjective
  <1>7. /\ \A m \in Tasks : m # n => node'[m].deps = node[m].deps /\ (node'[m].flag <=> node[m].flag)
        /\ \A m \in Tasks : /\ node'[m].kind = node[m].kind /\ node'[m].ref = node[m].ref
                            /\ node'[m].consumed = node[m].consumed
    BY <1>1
  <1> QED BY <1>2, <1>3, <1>4, <1>5, <1>6, <1>7, <1>i, RefSchedule

LEMMA RefAggregate ==
  ASSUME TaskInv, Types', RefInv, NEW a \in Actors, ScheduleAggregate(a)
  PROVE  RefInv'
  <1>i. Types /\ Numbered
    BY DEF TaskInv
  <1>1. PICK n, q \in Tasks :
           /\ Do(a, "schedule") /\ n = The(a) /\ n \in Created /\ q \in Created /\ q # n
           /\ node[n].kind = "aggregate" /\ node[n].deps # <<>> /\ q = node[n].deps[1]
           /\ q \in Range(node[n].deps) /\ node'[n].deps = Tail(node[n].deps)
           /\ node' \in [Tasks -> NodeType]
           /\ \A m \in Tasks : m # n => node'[m].deps = node[m].deps
           /\ \A m \in Tasks : /\ node'[m].kind = node[m].kind /\ node'[m].ref = node[m].ref
                               /\ node'[m].after = node[m].after
                               /\ node'[m].consumed = node[m].consumed
                               /\ node'[m].flag <=> node[m].flag
                               /\ m # q => node'[m].wait = node[m].wait
           /\ node'[q].wait = IF node[q].consumed THEN node[q].wait ELSE <<n>> \o node[q].wait
           /\ node[q].consumed => Then(a, <<Release(q)>> \o <<Schedule(n)>>)
           /\ ~node[q].consumed => Then(a, <<Release(q)>> \o <<>>)
           /\ UNCHANGED <<ready, m_ready_count, running, futures, inside, respawns>>
    BY AggregateEffect, Zenon
  <1>2. futures' = futures /\ running' = running
    BY <1>1
  <1>3. agenda[a] # <<>> /\ agenda[a][1].do = "schedule" /\ agenda[a][1].n = n
    BY <1>1, <1>i, HeadEntry
  <1>4. PICK e \in Seq(Entry), D \in SUBSET Tasks : D = {q} /\ Gives(e, D) /\ Then(a, e)
    <2>1. Then(a, <<Release(q), Schedule(n)>>) \/ Then(a, <<Release(q)>>)
      BY <1>1, EntryLists
    <2>2. /\ Gives(<<Release(q), Schedule(n)>>, {q}) /\ Gives(<<Release(q)>>, {q})
          /\ <<Release(q), Schedule(n)>> \in Seq(Entry) /\ <<Release(q)>> \in Seq(Entry)
      BY FrontsGive, EntryTypes, EntryLists
    <2> QED BY <2>1, <2>2, Zenon
  <1>5. PICK s \in Seq(Tasks), r \in Seq(Tasks) : s = node[n].deps /\ r = node'[n].deps /\ s # <<>> /\ r = Tail(s)
                                   /\ q = s[1] /\ IsInjective(s)
    BY <1>1, <1>i, FieldTypes DEF Types, RefInv
  <1>6. Range(s) = Range(r) \cup {q} /\ IsInjective(r) /\ q \notin Range(r)
    <2>1. s # <<>> /\ r = Tail(s)
      BY <1>5
    <2>2. Range(s) = Range(r) \cup {s[1]} /\ (IsInjective(s) => IsInjective(r) /\ s[1] \notin Range(r))
      BY <2>1, TakeFirst
    <2> QED BY <2>2, <1>5
  <1>7. /\ \A p \in Tasks : Lends(node[n], p) <=> (Lends(node'[n], p) \/ p \in D)
        /\ \A p \in D : ~Lends(node'[n], p)
    <2>1. node'[n].kind = "aggregate"
      BY <1>1
    <2>2. \A p : Lends(node[n], p) <=> p \in Range(s)
      BY <1>1, <1>5 DEF Lends
    <2>3. \A p : Lends(node'[n], p) <=> p \in Range(r)
      BY <2>1, <1>5 DEF Lends
    <2> QED BY <2>2, <2>3, <1>4, <1>6
  <1>8. IsInjective(node'[n].deps) /\ ~Starts(node'[n])
    BY <1>1, <1>5, <1>6 DEF Starts
  <1>9. /\ \A m \in Tasks : m # n => node'[m].deps = node[m].deps /\ (node'[m].flag <=> node[m].flag)
        /\ \A m \in Tasks : /\ node'[m].kind = node[m].kind /\ node'[m].ref = node[m].ref
                            /\ node'[m].consumed = node[m].consumed
    BY <1>1
  <1> QED BY <1>2, <1>3, <1>4, <1>7, <1>8, <1>9, <1>i, RefSchedule

\* Futures are destroyed: those of x that go are the ones that will be released.
LEMMA RefDrops ==
  ASSUME TaskInv, Types', RefInv, NEW a \in Actors, NEW e \in Seq(Entry), agenda[a] = <<>>,
         agenda'[a] = e, \A b \in Actors : b # a => agenda'[b] = agenda[b] /\ running'[b] = running[b],
         node' = node, NEW x \in Owners, x = Self(a), a = Host \/ running[a] \in Tasks,
         \A y \in Owners : y # x => futures'[y] = futures[y], NEW D, Gives(e, D),
         \A p \in Tasks : p \in futures[x] <=> (p \in futures'[x] \/ p \in D),
         \A p \in D : p \notin futures'[x]
  PROVE  RefInv'
  <1>i. Types /\ Shaped
    BY DEF TaskInv
  <1>1. ASSUME NEW p \in Tasks PROVE RefOf(p)' /\ FreedOf(p)'
    <2>1. RefOf(p) /\ FreedOf(p)
      BY DEF RefInv
    <2>2. /\ IsFiniteSet(Pending(p)') /\ node[p].ref \in Nat
          /\ References(p)' = node[p].ref + Bit(Owned(node'[p])) - Bit(Owned(node[p]))
                             + Bit(p \in futures'[x]) - Bit(p \in futures[x])
                             + Bit(Lends(node'[p], p)) - Bit(Lends(node[p], p))
                             + Bit(p \in D)
      <3>1. \A y \in Owners : y # x => (p \in futures'[y] <=> p \in futures[y])
        OBVIOUS
      <3>2. \A b \in Actors : b # a => agenda'[b] = agenda[b]
        OBVIOUS
      <3>3. \A m \in Tasks : m # p => (Lends(node'[m], p) <=> Lends(node[m], p))
        OBVIOUS
      <3> QED BY <2>1, <3>1, <3>2, <3>3, <1>i, RefStarts
    <2>3. PICK o, l, f, f2, d \in 0 .. 1 :
            /\ o = Bit(Owned(node[p])) /\ o = Bit(Owned(node'[p])) /\ d = Bit(p \in D)
            /\ l = Bit(Lends(node[p], p)) /\ l = Bit(Lends(node'[p], p))
            /\ f = Bit(p \in futures[x]) /\ f2 = Bit(p \in futures'[x]) /\ f2 - f + d = 0
      <3>1. Bit(Owned(node'[p])) = Bit(Owned(node[p])) /\ Bit(Owned(node[p])) \in 0 .. 1
        BY DEF Bit
      <3>2. Bit(Lends(node'[p], p)) = Bit(Lends(node[p], p)) /\ Bit(Lends(node[p], p)) \in 0 .. 1
        BY DEF Bit
      <3>3. /\ Bit(p \in futures[x]) \in 0 .. 1 /\ Bit(p \in futures'[x]) \in 0 .. 1
            /\ Bit(p \in D) \in 0 .. 1
            /\ Bit(p \in futures'[x]) - Bit(p \in futures[x]) + Bit(p \in D) = 0
        BY DEF Bit
      <3> QED BY <3>1, <3>2, <3>3
    <2>4. PICK r \in Nat : r = node[p].ref
      BY <2>2
    <2>5. References(p)' = r + o - o + f2 - f + l - l + d
      BY <2>2, <2>3, <2>4
    <2>6. f2 - f + d = 0
      BY <2>3
    <2>7. r + o - o + f2 - f + l - l + d = r
      BY <2>6
    <2>8. References(p)' = node'[p].ref
      BY <2>4, <2>5, <2>7
    <2> QED BY <2>1, <2>2, <2>8 DEF RefOf, FreedOf
  <1>2. ASSUME NEW n \in Tasks PROVE SpawnedOf(n)'
    <2>1. ASSUME NEW b \in Actors, b # a, agenda[b] = <<Schedule(n)>>
          PROVE  futures[Self(b)] \subseteq futures'[Self(b)]
      <3>1. Self(b) # x
        BY <2>1, OtherSelf
      <3>2. Self(b) \in Owners
        BY <2>1, <1>i, StarterOwns
      <3> QED BY <3>1, <3>2
    <2> QED BY <2>1, SpawnedOthers DEF RefInv
  <1> QED BY <1>1, <1>2 DEF RefInv

LEMMA RefDropFutures ==
  ASSUME TaskInv, Types', RefInv, NEW a \in Actors, DropFutures(a)
  PROVE  RefInv'
  <1>i. Types /\ Shaped
    BY DEF TaskInv
  <1>1. PICK x \in Owners : x = Self(a)
    BY <1>i, UserCodeOf DEF DropFutures
  <1>2. agenda[a] = <<>> /\ (a = Host \/ running[a] \in Tasks)
    BY <1>i, UserCodeOf DEF DropFutures
  <1>3. PICK ps \in SUBSET futures[x] :
          futures' = [futures EXCEPT ![x] = @ \ ps] /\ agenda' = [agenda EXCEPT ![a] = Releases(ps)]
    BY <1>1 DEF DropFutures
  <1>p. PICK e : e = Releases(ps)
    OBVIOUS
  <1>d. ps \in SUBSET Tasks
    BY <1>i DEF Types
  <1>4. PICK drops \in Seq(Tasks) :
           /\ IsInjective(drops) /\ Range(drops) = ps
           /\ e \in Seq(Entry) /\ Len(e) = Len(drops) /\ DOMAIN e = DOMAIN drops
           /\ \A i \in DOMAIN e : drops[i] \in ps /\ e[i] = Release(drops[i])
    BY <1>p, <1>d, ReleasesList
  <1>5. Gives(e, Range(drops))
    BY <1>4, GivesDrops
  <1>6. agenda' = [agenda EXCEPT ![a] = e] /\ node' = node /\ running' = running
    BY <1>3, <1>p DEF DropFutures
  <1>7. /\ agenda'[a] = e
        /\ \A b \in Actors : b # a => agenda'[b] = agenda[b] /\ running'[b] = running[b]
    BY <1>6, <1>i DEF Types
  <1>8. futures'[x] = futures[x] \ ps /\ \A y \in Owners : y # x => futures'[y] = futures[y]
    BY <1>3, <1>i DEF Types
  <1>9. PICK D : D = Range(drops) /\ D = ps /\ Gives(e, D)
    BY <1>4, <1>5
  <1>10. e \in Seq(Entry)
    BY <1>4
  <1>11. /\ \A p \in Tasks : p \in futures[x] <=> (p \in futures'[x] \/ p \in D)
         /\ \A p \in D : p \notin futures'[x]
    BY <1>8, <1>9
  <1> QED BY <1>1, <1>2, <1>6, <1>7, <1>8, <1>9, <1>10, <1>11, RefDrops

LEMMA RefFinish ==
  ASSUME TaskInv, Types', RefInv, NEW a \in Actors, Finish(a)
  PROVE  RefInv'
  <1>i. Types /\ Shaped
    BY DEF TaskInv
  <1>1. PICK x \in Tasks : x = running[a]
    BY <1>i, MaxWorkAssumption DEF Finish, Tasks, Types
  <1>2. agenda[a] = <<>> /\ node' = node /\ running' = [running EXCEPT ![a] = 0]
    BY DEF Finish
  <1>3. x \in Owners /\ x = Self(a) /\ running[a] \in Tasks
    <2>1. a # Host
      BY <1>i, HostAssumption DEF Finish, Types
    <2> QED BY <2>1, <1>1 DEF Self, Owners
  <1>4. CASE node[x].flag
    <2>1. PICK e \in Seq(Entry) : e = <<Schedule(x), CountDown>>
      BY RespawnList
    <2>2. agenda' = [agenda EXCEPT ![a] = e] /\ futures' = futures
      BY <1>1, <1>4, <2>1 DEF Finish
    <2>3. /\ agenda'[a] = e
          /\ \A b \in Actors : b # a => agenda'[b] = agenda[b] /\ running'[b] = running[b]
      BY <2>2, <1>2, <1>i DEF Types
    <2>4. PICK D : D = {} /\ Gives(e, D)
      BY <2>1, FrontsGive
    <2>5. /\ \A p \in Tasks : p \in futures[x] <=> (p \in futures'[x] \/ p \in D)
          /\ \A p \in D : p \notin futures'[x]
          /\ \A y \in Owners : y # x => futures'[y] = futures[y]
      BY <2>2, <2>4
    <2> QED BY <1>2, <1>3, <2>3, <2>4, <2>5, RefDrops
  <1>5. CASE ~node[x].flag
    <2>1. PICK e : e = Releases(futures[x]) \o Completion(x)
      OBVIOUS
    <2>2. agenda' = [agenda EXCEPT ![a] = e] /\ futures' = [futures EXCEPT ![x] = {}]
      BY <1>1, <1>5, <2>1 DEF Finish
    <2>3. PICK drops \in Seq(Tasks) :
            /\ IsInjective(drops) /\ Range(drops) = futures[x]
            /\ \A i \in DOMAIN drops : drops[i] \in futures[x]
            /\ EndList(e, x, drops)
      BY <2>1, <1>i, FinishList
    <2>4. e \in Seq(Entry)
      BY <2>3 DEF EndList
    <2>5. /\ agenda'[a] = e
          /\ \A b \in Actors : b # a => agenda'[b] = agenda[b] /\ running'[b] = running[b]
      BY <2>2, <1>2, <1>i DEF Types
    <2>6. Gives(e, Range(drops))
      <3>1. \A i \in DOMAIN drops : i \in DOMAIN e /\ e[i] = Release(drops[i])
        BY <2>3 DEF EndList
      <3>2. ASSUME NEW i \in DOMAIN e, i \notin DOMAIN drops PROVE e[i].do # "release"
        <4>1. e[i] = Complete(x) \/ e[i] = CountDown
          BY <2>3, <3>2 DEF EndList
        <4> QED BY <4>1, EntryFields
      <3> QED BY <2>3, <3>1, <3>2, GivesDrops
    <2>7. PICK D : D = futures[x] /\ Gives(e, D)
      BY <2>3, <2>6
    <2>8. futures'[x] = {} /\ \A y \in Owners : y # x => futures'[y] = futures[y]
      BY <2>2, <1>3, <1>i DEF Types
    <2>9. /\ \A p \in Tasks : p \in futures[x] <=> (p \in futures'[x] \/ p \in D)
          /\ \A p \in D : p \notin futures'[x]
      BY <2>7, <2>8
    <2> QED BY <1>2, <1>3, <2>4, <2>5, <2>7, <2>8, <2>9, RefDrops
  <1> QED BY <1>4, <1>5

\* Steps that change only who runs what.
LEMMA RefRuns ==
  ASSUME TaskInv, RefInv, NEW a \in Actors, agenda[a] = <<>>, agenda' = agenda, node' = node, futures' = futures,
         \A b \in Actors : b # a => running'[b] = running[b]
  PROVE  RefInv'
  <1>1. ASSUME NEW p \in Tasks PROVE RefOf(p)' /\ FreedOf(p)'
    BY RefStays DEF RefInv
  <1>2. ASSUME NEW n \in Tasks PROVE SpawnedOf(n)'
    BY SpawnedOthers DEF RefInv
  <1> QED BY <1>1, <1>2 DEF RefInv

\* respawn: the reference to the new predecessor is counted.
LEMMA RefRespawn ==
  ASSUME TaskInv, Types', RefInv, NEW a \in Actors, Respawn(a)
  PROVE  RefInv'
  <1>i. Types /\ Ordered
    BY DEF TaskInv
  <1>1. agenda[a] = <<>> /\ running[a] \in Tasks /\ ~node[running[a]].flag
    BY RespawnEffect
  <1>2. PICK x \in Tasks, deps \in Seq(Tasks) :
           /\ x = running[a]
           /\ Range(deps) \subseteq futures[x] /\ Len(deps) <= 1 /\ x \notin Range(deps)
           /\ node' \in [Tasks -> NodeType]
           /\ \A m \in Tasks : m # x =>
                /\ m \notin Range(deps) => node'[m] = node[m]
                /\ m \in Range(deps) => node'[m].ref = node[m].ref + 1
                /\ node'[m].deps = node[m].deps /\ node'[m].flag = node[m].flag
                /\ node'[m].after = node[m].after
           /\ \A m \in Tasks :
                /\ node'[m].kind = node[m].kind /\ node'[m].wait = node[m].wait
                /\ node'[m].consumed = node[m].consumed
           /\ node'[x].ref = node[x].ref /\ node'[x].deps = deps /\ node'[x].flag = TRUE
           /\ node'[x].after = Range(deps)
    BY RespawnEffect, Zenon
  <1>3. agenda' = agenda /\ futures' = futures /\ running' = running
    BY DEF Respawn
  <1>4. node[x].deps = <<>>
    BY <1>1, <1>2, <1>i DEF Ordered, Settled
  <1>5. PICK e \in Seq(Entry), D \in SUBSET Tasks : e = <<>> /\ D = {}
    BY EmptySeq
  <1>6. Gives(e, D)
    BY <1>5, FrontsGive
  <1>7. x \in Owners
    BY DEF Owners
  <1>8. ASSUME NEW p \in Tasks PROVE RefOf(p)' /\ FreedOf(p)'
    <2>1. RefOf(p) /\ FreedOf(p)
      BY DEF RefInv
    <2>2. \A m \in Tasks : m # x => (Lends(node'[m], p) <=> Lends(node[m], p))
      BY <1>2 DEF Lends
    <2>3. /\ IsFiniteSet(Pending(p)') /\ node[p].ref \in Nat
          /\ References(p)' = node[p].ref + Bit(Owned(node'[p])) - Bit(Owned(node[p]))
                             + Bit(p \in futures'[x]) - Bit(p \in futures[x])
                             + Bit(Lends(node'[x], p)) - Bit(Lends(node[x], p))
                             + Bit(p \in D)
      <3>2. agenda'[a] = e /\ \A b \in Actors : b # a => agenda'[b] = agenda[b]
        BY <1>1, <1>3, <1>5
      <3>3. PICK h \in Owners : h = x
        BY <1>7
      <3>4. \A y \in Owners : y # h => (p \in futures'[y] <=> p \in futures[y])
        BY <1>3
      <3>5. agenda[a] = <<>>
        BY <1>1
      <3>6. /\ IsFiniteSet(Pending(p)') /\ node[p].ref \in Nat
            /\ References(p)' = node[p].ref + Bit(Owned(node'[p])) - Bit(Owned(node[p]))
                               + Bit(p \in futures'[h]) - Bit(p \in futures[h])
                               + Bit(Lends(node'[x], p)) - Bit(Lends(node[x], p))
                               + Bit(p \in D)
        BY <2>1, <2>2, <3>2, <3>4, <3>5, <1>6, <1>i, RefStarts
      <3> QED BY <3>3, <3>6
    <2>4. Lends(node'[x], p) <=> p \in Range(deps)
      BY <1>2 DEF Lends
    <2>5. ~Lends(node[x], p)
      BY <1>4, NoElement DEF Lends
    <2>6. PICK o, f \in 0 .. 1 :
            /\ o = Bit(Owned(node[p])) /\ o = Bit(Owned(node'[p]))
            /\ f = Bit(p \in futures[x]) /\ f = Bit(p \in futures'[x])
      <3>1. Bit(Owned(node'[p])) = Bit(Owned(node[p])) /\ Bit(Owned(node[p])) \in 0 .. 1
        BY <1>2 DEF Bit, Owned
      <3>2. Bit(p \in futures[x]) \in 0 .. 1 /\ Bit(p \in futures'[x]) = Bit(p \in futures[x])
        BY <1>3 DEF Bit
      <3> QED BY <3>1, <3>2
    <2>7. /\ Bit(p \in D) = 0 /\ Bit(Lends(node[x], p)) = 0
          /\ Bit(Lends(node'[x], p)) = IF p \in Range(deps) THEN 1 ELSE 0
      BY <2>4, <2>5, <1>5 DEF Bit
    <2>8. PICK r \in Nat : r = node[p].ref
      BY <2>3
    <2>9. PICK l \in 0 .. 1 : l = IF p \in Range(deps) THEN 1 ELSE 0
      OBVIOUS
    <2>10. References(p)' = r + o - o + f - f + l - 0 + 0
      BY <2>3, <2>6, <2>7, <2>8, <2>9
    <2>11. r + o - o + f - f + l - 0 + 0 = r + l
      OBVIOUS
    <2>12. node'[p].ref = r + l
      <3>1. CASE p \in Range(deps)
        BY <3>1, <1>2, <2>8, <2>9
      <3>2. CASE p \notin Range(deps)
        BY <3>2, <1>2, <2>8, <2>9
      <3> QED BY <3>1, <3>2
    <2>13. FreedOf(p)'
      <3>1. CASE p \in Range(deps)
        <4>1. p \in futures[x]
          BY <3>1, <1>2
        <4>2. node[p].kind # "freed"
          BY <4>1, <2>1, <1>7, <1>i, NotGone
        <4> QED BY <4>2, <1>2 DEF FreedOf
      <3>2. CASE p \notin Range(deps)
        <4>1. node'[p].ref = node[p].ref /\ node'[p].kind = node[p].kind
              /\ node'[p].consumed = node[p].consumed
          BY <3>2, <1>2
        <4> QED BY <4>1, <2>1 DEF FreedOf
      <3> QED BY <3>1, <3>2
    <2> QED BY <2>3, <2>10, <2>11, <2>12, <2>13 DEF RefOf
  <1>9. ASSUME NEW n \in Tasks PROVE SpawnedOf(n)'
    <2>1. Starts(node'[n]) => Starts(node[n]) /\ node'[n].deps = node[n].deps
      BY <1>2 DEF Starts
    <2> QED BY <2>1, <1>1, <1>3, SpawnedOthers DEF RefInv
  <1>10. ASSUME NEW m \in Tasks PROVE IsInjective(node'[m].deps)
    <2>1. CASE m # x
      BY <2>1, <1>2 DEF RefInv
    <2>2. CASE m = x
      <3>1. node'[m].deps = deps /\ Len(deps) <= 1
        BY <2>2, <1>2
      <3>2. DOMAIN deps = 1 .. Len(deps) /\ Len(deps) \in Nat
        OBVIOUS
      <3>3. \A i, j \in DOMAIN deps : i = j
        BY <3>1, <3>2
      <3> QED BY <3>1, <3>3 DEF IsInjective
    <2> QED BY <2>1, <2>2
  <1> QED BY <1>8, <1>9, <1>10 DEF RefInv

\* The sum of RefStarts for a task that a new one is lent or given.
Sums(v, r, o, g, l) == v = r + o - o + g - 0 + l - 0 + 0

LEMMA SumOf ==
  ASSUME NEW r \in Nat, NEW o \in 0 .. 1, NEW g \in 0 .. 1, NEW l \in 0 .. 1, NEW v, Sums(v, r, o, g, l)
  PROVE  v = r + l + g
  BY DEF Sums

\* A new task: two references to it, and one to each task that it waits for as
\* an aggregate or is given a future of.
LEMMA RefCreate ==
  ASSUME TaskInv, Types', RefInv, NEW a \in Actors, NEW n \in Tasks, Fresh(n), InUserCode(a),
         NEW deps \in Seq(Tasks), IsInjective(deps), Range(deps) \subseteq futures[Self(a)],
         NEW lent \in SUBSET Tasks, lent \subseteq futures[Self(a)],
         NEW given, Hands(Self(a), n, given), lent \cap given = {},
         \A m \in Tasks : m # n =>
            /\ node'[m].kind = node[m].kind /\ node'[m].deps = node[m].deps
            /\ node'[m].flag = node[m].flag /\ node'[m].consumed = node[m].consumed
            /\ m \in lent \cup given => node'[m].ref = node[m].ref + 1
            /\ m \notin lent \cup given => node'[m].ref = node[m].ref,
         node'[n].kind \in {"runnable", "aggregate"}, node'[n].ref = 2, node'[n].deps = deps,
         ~node'[n].flag, ~node'[n].consumed,
         \A p \in Tasks : Lends(node'[n], p) <=> p \in lent,
         agenda' = [agenda EXCEPT ![a] = <<Schedule(n)>>], running' = running
  PROVE  RefInv'
  <1>i. Types /\ Numbered /\ Shaped
    BY DEF TaskInv
  <1>1. PICK x \in Owners : x = Self(a)
    BY <1>i, UserCodeOf
  <1>2. agenda[a] = <<>>
    BY <1>i, UserCodeOf
  <1>3. PICK e \in Seq(Entry), D \in SUBSET Tasks : e = <<Schedule(n)>> /\ D = {}
    BY EntryTypes
  <1>4. Gives(e, D)
    BY <1>3, FrontsGive
  <1>5. agenda'[a] = e /\ \A b \in Actors : b # a => agenda'[b] = agenda[b]
    BY <1>3, <1>i DEF Types
  <1>6. /\ given \subseteq futures[x] /\ futures'[x] = futures[x] \cup {n} /\ futures'[n] = given
        /\ \A y \in Owners : y # x /\ y # n => futures'[y] = futures[y]
    BY <1>1 DEF Hands
  <1>7. node[n] = Unused /\ n \notin Created /\ futures[n] = {} /\ n \in Owners
    BY <1>i, FreshTask DEF Owners
  <1>8. /\ node[n].kind = "unused" /\ node[n].ref = 0 /\ node[n].deps = <<>> /\ ~Owned(node[n])
        /\ \A p : ~Lends(node[n], p)
    <2>1. node[n].kind = "unused" /\ node[n].ref = 0 /\ node[n].deps = <<>>
      BY <1>7 DEF Unused
    <2> QED BY <2>1, NoElement DEF Owned, Lends
  <1>9. n \notin futures[x] /\ n \notin lent /\ n \notin given
    BY <1>1, <1>6, <1>7, <1>i DEF Numbered
  <1>10. ASSUME NEW p \in Tasks PROVE RefOf(p)' /\ FreedOf(p)'
    <2>1. RefOf(p) /\ FreedOf(p)
      BY DEF RefInv
    <2>y. PICK y \in Owners : (p = n => y = x) /\ (p # n => y = n)
      BY <1>7
    <2>2. /\ IsFiniteSet(Pending(p)') /\ node[p].ref \in Nat
          /\ References(p)' = node[p].ref + Bit(Owned(node'[p])) - Bit(Owned(node[p]))
                             + Bit(p \in futures'[y]) - Bit(p \in futures[y])
                             + Bit(Lends(node'[n], p)) - Bit(Lends(node[n], p))
                             + Bit(p \in D)
      <3>1. \A z \in Owners : z # y => (p \in futures'[z] <=> p \in futures[z])
        BY <2>y, <1>6, <1>7, <1>9
      <3>2. \A m \in Tasks : m # n => (Lends(node'[m], p) <=> Lends(node[m], p))
        BY DEF Lends
      <3> QED BY <2>1, <3>1, <3>2, <1>2, <1>4, <1>5, <1>i, RefStarts
    <2>3. PICK r \in Nat : r = node[p].ref
      BY <2>2
    <2>4. /\ Bit(p \in D) = 0 /\ Bit(Lends(node[n], p)) = 0
          /\ Bit(Lends(node'[n], p)) = IF p \in lent THEN 1 ELSE 0
      BY <1>3, <1>8 DEF Bit
    <2>5. CASE p = n
      <3>1. /\ Bit(Owned(node'[p])) = 1 /\ Bit(Owned(node[p])) = 0
            /\ Bit(p \in futures'[y]) = 1 /\ Bit(p \in futures[y]) = 0
            /\ Bit(Lends(node'[n], p)) = 0 /\ r = 0
        <4>1. Owned(node'[n])
          BY DEF Owned
        <4> QED BY <4>1, <2>y, <2>3, <2>4, <2>5, <1>6, <1>8, <1>9 DEF Bit
      <3>2. References(p)' = 2
        BY <3>1, <2>2, <2>3, <2>4
      <3>3. node'[p].ref = 2 /\ node'[p].kind # "freed"
        BY <2>5
      <3> QED BY <3>2, <3>3, <2>2 DEF RefOf, FreedOf
    <2>6. CASE p # n
      <3>1. /\ node'[p].kind = node[p].kind /\ node'[p].consumed = node[p].consumed
            /\ p \in lent \cup given => node'[p].ref = r + 1
            /\ p \notin lent \cup given => node'[p].ref = r
        BY <2>3, <2>6
      <3>2. PICK l, g \in 0 .. 1 : /\ l = IF p \in lent THEN 1 ELSE 0
                                   /\ g = IF p \in given THEN 1 ELSE 0
        OBVIOUS
      <3>3. PICK o \in 0 .. 1 :
            /\ o = Bit(Owned(node[p])) /\ o = Bit(Owned(node'[p]))
            /\ Bit(p \in futures[y]) = 0 /\ Bit(p \in futures'[y]) = g
        <4>1. Bit(Owned(node'[p])) = Bit(Owned(node[p])) /\ Bit(Owned(node[p])) \in 0 .. 1
          BY <3>1 DEF Bit, Owned
        <4>2. Bit(p \in futures[y]) = 0 /\ Bit(p \in futures'[y]) = g
          BY <1>6, <1>7, <2>y, <2>6, <3>2 DEF Bit
        <4> QED BY <4>1, <4>2
      <3>4. Sums(References(p)', r, o, g, l)
        BY <2>2, <2>3, <2>4, <3>2, <3>3 DEF Sums
      <3>5. References(p)' = r + l + g
        BY <3>4, SumOf, Zenon
      <3>6. node'[p].ref = r + l + g
        <4>1. ~(p \in lent /\ p \in given)
          OBVIOUS
        <4>2. CASE p \in lent
          BY <4>1, <4>2, <3>1, <3>2
        <4>3. CASE p \in given
          BY <4>1, <4>3, <3>1, <3>2
        <4>4. CASE p \notin lent \cup given
          BY <4>4, <3>1, <3>2
        <4> QED BY <4>2, <4>3, <4>4
      <3>7. FreedOf(p)'
        <4>1. CASE p \in lent \cup given
          <5>1. node[p].kind # "freed"
            BY <4>1, <1>1, <1>6, <2>1, <1>i, NotGone
          <5> QED BY <5>1, <3>1 DEF FreedOf
        <4>2. CASE p \notin lent \cup given
          BY <4>2, <3>1, <2>1, <2>3 DEF FreedOf
        <4> QED BY <4>1, <4>2
      <3> QED BY <2>2, <3>5, <3>6, <3>7 DEF RefOf
    <2> QED BY <2>5, <2>6
  <1>11. ASSUME NEW m \in Tasks PROVE SpawnedOf(m)'
    <2>1. CASE m # n
      <3>1. Starts(node'[m]) => Starts(node[m]) /\ node'[m].deps = node[m].deps
        BY <2>1 DEF Starts
      <3>2. ASSUME NEW b \in Actors, agenda[b] = <<Schedule(m)>>
            PROVE  futures[Self(b)] \subseteq futures'[Self(b)]
        <4>1. Self(b) \in Owners
          BY <3>2, <1>i, StarterOwns
        <4> QED BY <4>1, <1>6, <1>7
      <3> QED BY <3>1, <3>2, <1>2, <1>5, SpawnedOthers DEF RefInv
    <2>2. CASE m = n
      <3>1. agenda'[a] = <<Schedule(n)>>
        BY <1>3, <1>5
      <3>2. Self(a)' = x
        BY <1>1 DEF Self
      <3>3. Range(node'[n].deps) \subseteq futures'[x]
        BY <1>1, <1>6
      <3>4. StartedBy(n, a)'
        BY <3>1, <3>2, <3>3 DEF StartedBy
      <3> QED BY <3>4, <2>2 DEF SpawnedOf
    <2> QED BY <2>1, <2>2
  <1>12. \A m \in Tasks : IsInjective(node'[m].deps)
    BY DEF RefInv
  <1> QED BY <1>10, <1>11, <1>12 DEF RefInv

LEMMA RefSpawn ==
  ASSUME TaskInv, Types', RefInv, NEW a \in Actors, NEW n \in Tasks, Spawn(a, n)
  PROVE  RefInv'
  <1>1. /\ InUserCode(a) /\ Fresh(n)
        /\ agenda' = [agenda EXCEPT ![a] = <<Schedule(n)>>] /\ running' = running
    BY DEF Spawn
  <1>2. PICK deps \in Seq(Tasks), given \in SUBSET futures[Self(a)] :
           /\ Range(deps) \subseteq futures[Self(a)] /\ Len(deps) <= 1
           /\ \A m \in Tasks : m # n =>
                /\ m \notin given => node'[m] = node[m]
                /\ m \in given => node'[m].ref = node[m].ref + 1
                /\ node'[m].kind = node[m].kind /\ node'[m].deps = node[m].deps
                /\ node'[m].flag = node[m].flag /\ node'[m].consumed = node[m].consumed
           /\ Hands(Self(a), n, given)
           /\ node'[n].kind = "runnable" /\ node'[n].ref = 2 /\ node'[n].deps = deps
           /\ ~node'[n].flag /\ ~node'[n].consumed
    BY SpawnEffect
  <1>3. IsInjective(deps)
    <2>1. DOMAIN deps = 1 .. Len(deps) /\ Len(deps) \in Nat
      OBVIOUS
    <2>2. \A i, j \in DOMAIN deps : i = j
      BY <2>1, <1>2
    <2> QED BY <2>2 DEF IsInjective
  <1>4. PICK lent \in SUBSET Tasks : lent = {}
    OBVIOUS
  <1>5. \A p \in Tasks : Lends(node'[n], p) <=> p \in lent
    BY <1>2, <1>4 DEF Lends
  <1>6. \A m \in Tasks : m # n =>
            /\ node'[m].kind = node[m].kind /\ node'[m].deps = node[m].deps
            /\ node'[m].flag = node[m].flag /\ node'[m].consumed = node[m].consumed
            /\ m \in lent \cup given => node'[m].ref = node[m].ref + 1
            /\ m \notin lent \cup given => node'[m].ref = node[m].ref
    BY <1>2, <1>4
  <1>7. lent \subseteq futures[Self(a)] /\ lent \cap given = {} /\ node'[n].kind \in {"runnable", "aggregate"}
    BY <1>2, <1>4
  <1>8. /\ Range(deps) \subseteq futures[Self(a)] /\ node'[n].ref = 2 /\ node'[n].deps = deps
        /\ ~node'[n].flag /\ ~node'[n].consumed
    BY <1>2
  <1>9. Hands(Self(a), n, given)
    BY <1>2
  <1> QED BY <1>1, <1>3, <1>5, <1>6, <1>7, <1>8, <1>9, RefCreate, ZenonT(60)

LEMMA RefWhenAll ==
  ASSUME TaskInv, Types', RefInv, NEW a \in Actors, NEW n \in Tasks, WhenAll(a, n)
  PROVE  RefInv'
  <1>1. /\ InUserCode(a) /\ Fresh(n)
        /\ agenda' = [agenda EXCEPT ![a] = <<Schedule(n)>>] /\ running' = running
    BY DEF WhenAll
  <1>2. PICK deps \in Seq(Tasks) :
           /\ IsInjective(deps) /\ deps # <<>> /\ n \notin Range(deps)
           /\ Range(deps) \subseteq futures[Self(a)]
           /\ node' \in [Tasks -> NodeType]
           /\ \A m \in Tasks : m # n =>
                /\ m \notin Range(deps) => node'[m] = node[m]
                /\ m \in Range(deps) => node'[m].ref = node[m].ref + 1
                /\ node'[m].kind = node[m].kind /\ node'[m].deps = node[m].deps
                /\ node'[m].flag = node[m].flag /\ node'[m].wait = node[m].wait
                /\ node'[m].consumed = node[m].consumed /\ node'[m].after = node[m].after
           /\ node'[n].kind = "aggregate" /\ node'[n].ref = 2 /\ node'[n].deps = deps
           /\ ~node'[n].flag /\ node'[n].wait = <<>> /\ ~node'[n].consumed
           /\ node'[n].after = Range(deps)
           /\ Hands(Self(a), n, {})
    BY WhenAllEffect, Zenon
  <1>3. PICK lent \in SUBSET Tasks : lent = Range(deps)
    <2>1. Range(deps) \subseteq Tasks
      BY DEF Range
    <2> QED BY <2>1
  <1>g. PICK given : given = {} /\ Hands(Self(a), n, given) /\ lent \cap given = {}
    BY <1>2
  <1>4. \A p \in Tasks : Lends(node'[n], p) <=> p \in lent
    BY <1>2, <1>3 DEF Lends
  <1>5. \A m \in Tasks : m # n =>
            /\ node'[m].kind = node[m].kind /\ node'[m].deps = node[m].deps
            /\ node'[m].flag = node[m].flag /\ node'[m].consumed = node[m].consumed
            /\ m \in lent \cup given => node'[m].ref = node[m].ref + 1
            /\ m \notin lent \cup given => node'[m].ref = node[m].ref
    BY <1>2, <1>3, <1>g
  <1>6. lent \subseteq futures[Self(a)] /\ node'[n].kind \in {"runnable", "aggregate"}
    BY <1>2, <1>3
  <1>7. /\ Range(deps) \subseteq futures[Self(a)] /\ node'[n].ref = 2 /\ node'[n].deps = deps
        /\ ~node'[n].flag /\ ~node'[n].consumed /\ IsInjective(deps)
    BY <1>2
  <1>8. Hands(Self(a), n, given) /\ lent \cap given = {}
    BY <1>g
  <1> QED BY <1>1, <1>4, <1>5, <1>6, <1>7, <1>8, RefCreate, ZenonT(60)

LEMMA InitRef == ASSUME TaskInit PROVE RefInv
  <1>1. /\ node = [n \in Tasks |-> Unused] /\ agenda = [a \in Actors |-> <<>>]
        /\ futures = [x \in Tasks \cup {Host} |-> {}]
    BY DEF TaskInit
  <1>2. ASSUME NEW p \in Tasks
        PROVE  node[p].kind = "unused" /\ node[p].ref = 0 /\ node[p].deps = <<>>
    BY <1>1 DEF Unused
  <1>3. ASSUME NEW p \in Tasks PROVE RefOf(p) /\ FreedOf(p)
    <2>1. Pending(p) = {}
      BY <1>1, NoElement DEF Pending
    <2>2. Holders(p) = {}
      BY <1>1 DEF Holders, Owners
    <2>3. Borrowers(p) = {}
      BY <1>2, NoElement DEF Borrowers, Lends
    <2>4. Bit(Owned(node[p])) = 0
      BY <1>2 DEF Bit, Owned
    <2>5. IsFiniteSet(Pending(p)) /\ Cardinality(Pending(p)) = 0 /\ Cardinality(Holders(p)) = 0
          /\ Cardinality(Borrowers(p)) = 0
      BY <2>1, <2>2, <2>3, FS_EmptySet
    <2>6. References(p) = 0
      BY <2>4, <2>5, RefParts
    <2> QED BY <2>5, <2>6, <1>2 DEF RefOf, FreedOf
  <1>4. \A n \in Tasks : IsInjective(node[n].deps) /\ SpawnedOf(n)
    BY <1>2, NoElement DEF IsInjective, SpawnedOf, Starts
  <1> QED BY <1>3, <1>4 DEF RefInv

LEMMA StepRef == ASSUME TaskInv, RefInv, [TaskNext]_taskVars PROVE RefInv'
  <1>t. Types'
    BY StepNumbered
  <1>1. CASE UNCHANGED taskVars \/ ExecuteTasks
    <2>1. agenda' = agenda /\ node' = node /\ futures' = futures /\ running' = running
      BY <1>1 DEF taskVars, ExecuteTasks
    <2>2. ASSUME NEW p \in Tasks PROVE RefOf(p)' /\ FreedOf(p)'
      BY <2>1, RefStays DEF RefInv
    <2>3. ASSUME NEW n \in Tasks PROVE SpawnedOf(n)'
      BY <2>1 DEF RefInv, SpawnedOf, StartedBy, Self
    <2> QED BY <2>1, <2>2, <2>3 DEF RefInv
  <1>2. ASSUME NEW a \in Actors, Run(a) \/ Leave(a) PROVE RefInv'
    <2>1. agenda[a] = <<>> /\ agenda' = agenda /\ node' = node /\ futures' = futures
      BY <1>2 DEF Run, Leave, Resting
    <2>2. \A b \in Actors : b # a => running'[b] = running[b]
      BY <1>2 DEF Run, Leave, TaskInv, Types
    <2> QED BY <2>1, <2>2, RefRuns
  <1>3. ASSUME NEW a \in Actors,
               PushReady(a) \/ AggregateDone(a) \/ DecrementReadyCount(a) \/ ScheduleReady(a)
        PROVE  RefInv'
    BY <1>3, <1>t, RefPush, RefReady
  <1>4. ASSUME NEW a \in Actors, ScheduleDependent(a) \/ ScheduleAggregate(a) PROVE RefInv'
    BY <1>4, <1>t, RefDependent, RefAggregate
  <1>5. ASSUME NEW a \in Actors, Deallocates(a) \/ CompleteTask(a) PROVE RefInv'
    BY <1>5, <1>t, RefDeallocates, RefComplete
  <1>6. ASSUME NEW a \in Actors, DropFutures(a) \/ Finish(a) \/ Respawn(a) PROVE RefInv'
    BY <1>6, <1>t, RefDropFutures, RefFinish, RefRespawn
  <1>7. ASSUME NEW a \in Actors, NEW n \in Tasks, Spawn(a, n) \/ WhenAll(a, n) PROVE RefInv'
    BY <1>7, <1>t, RefSpawn, RefWhenAll
  <1> QED BY <1>1, <1>2, <1>3, <1>4, <1>5, <1>6, <1>7, NextCases

\* The reference counts stay right, in every state that can be reached.
THEOREM TaskReferences == TaskSpec => [](TaskInv /\ RefInv)
  <1>1. TaskInit => TaskInv /\ RefInv
    BY InitTask, InitRef
  <1>2. TaskInv /\ RefInv /\ [TaskNext]_taskVars => TaskInv' /\ RefInv'
    BY StepTask, StepRef
  <1> QED BY <1>1, <1>2, PTL DEF TaskSpec

LEMMA InvReferences == ASSUME TaskInv, RefInv PROVE ReferencesCounted
  <1>1. ASSUME NEW p \in Tasks
        PROVE  node[p].ref = References(p) /\ (node[p].kind = "freed" => References(p) = 0)
    BY DEF RefInv, RefOf, FreedOf
  <1> QED BY <1>1 DEF ReferencesCounted

\* A task that is referred to, or not complete, exists.
LEMMA InvTouches == ASSUME TaskInv, RefInv PROVE TouchesLiveTasks
  <1>i. Types /\ Numbered /\ Placed
    BY DEF TaskInv
  <1>p. PICK at, by : PlacedAs(at, by)
    BY <1>i DEF Placed
  <1>1. ASSUME NEW n \in Created, node[n].kind # "freed" PROVE Live(n)
    <2>1. n \in Tasks /\ node[n].kind # "unused"
      BY DEF Created
    <2>2. node[n].kind \in NodeKinds
      BY <2>1, <1>i, FieldTypes DEF Types
    <2> QED BY <2>1, <2>2, <1>1 DEF Live, NodeKinds
  <1>2. ASSUME NEW n \in Tasks, at[n] \notin {"new", "done"} PROVE Live(n)
    <2>1. Stands(n, at[n], by[n])
      BY <1>p DEF PlacedAs
    <2>2. n \in Created /\ ~node[n].consumed
      BY <2>1, <1>2 DEF Stands
    <2>3. node[n].kind # "freed"
      BY <2>2 DEF RefInv, FreedOf
    <2> QED BY <2>2, <2>3, <1>1
  <1>3. ASSUME NEW a \in Actors, NEW i \in DOMAIN agenda[a], agenda[a][i].do # "countdown"
        PROVE  Live(agenda[a][i].n)
    <2>1. agenda[a] \in Seq(Entry)
      BY <1>i DEF Types
    <2>2. PICK y \in Entry : y = agenda[a][i]
      BY <2>1
    <2>3. y \in [do : {"schedule", "push", "complete", "release"}, n : Tasks]
      BY <2>2, <1>3 DEF Entry, CountDown
    <2>4. y.n \in Tasks /\ y.n \in Created /\ y.do \in {"schedule", "push", "complete", "release"}
      BY <2>2, <2>3, <1>3, <1>i DEF Numbered
    <2>5. CASE y.do = "release"
      <3>1. y = Release(y.n)
        BY <2>3, <2>5 DEF Release
      <3>2. RefOf(y.n) /\ FreedOf(y.n)
        BY <2>4 DEF RefInv
      <3>3. \E b \in Actors : \E j \in DOMAIN agenda[b] : agenda[b][j] = Release(y.n)
        BY <3>1, <2>2
      <3>4. node[y.n].kind # "freed"
        BY <3>2, <3>3, <2>4, <1>i, NotGone
      <3> QED BY <3>4, <2>2, <2>4, <1>1
    <2>6. CASE y.do # "release"
      <3>1. Carrier(agenda[a][i])
        BY <2>2, <2>4, <2>6 DEF Carrier
      <3>2. at[agenda[a][i].n] = "todo"
        BY <3>1, <1>p DEF PlacedAs, CarriedBy
      <3> QED BY <3>2, <2>2, <2>4, <1>2
    <2> QED BY <2>5, <2>6
  <1>4. ASSUME NEW a \in Actors, Do(a, "schedule"), NEW p \in Range(node[The(a)].deps)
        PROVE  Live(p)
    <2>1. PICK n \in Tasks : n = The(a) /\ agenda[a][1].n = n
      BY <1>4, <1>i, HeadEntry
    <2>2. p \in Created /\ p \in Tasks
      BY <2>1, <1>i DEF Numbered, Created
    <2>3. RefOf(p) /\ FreedOf(p) /\ SpawnedOf(n)
      BY <2>2 DEF RefInv
    <2>4. CASE Lends(node[n], p)
      <3>1. node[p].kind # "freed"
        BY <2>2, <2>3, <2>4, <1>i, NotGone
      <3> QED BY <3>1, <2>2, <1>1
    <2>5. CASE ~Lends(node[n], p)
      <3>1. Starts(node[n])
        BY <2>1, <2>5, NoElement DEF Lends, Starts
      <3>2. PICK b \in Actors : StartedBy(n, b)
        BY <3>1, <2>3 DEF SpawnedOf
      <3>3. p \in futures[Self(b)]
        BY <3>2, <2>1 DEF StartedBy
      <3>4. Self(b) \in Owners
        BY <3>2, <1>i, StarterOwns DEF TaskInv, StartedBy
      <3>5. node[p].kind # "freed"
        BY <3>3, <3>4, <2>2, <2>3, <1>i, NotGone
      <3> QED BY <3>5, <2>2, <1>1
    <2> QED BY <2>4, <2>5
  <1>5. ASSUME NEW a \in Actors, running[a] # 0 PROVE Live(running[a])
    <2>1. PICK n \in Tasks : running[a] = n
      BY <1>5, <1>i, MaxWorkAssumption DEF Types, Tasks
    <2>2. at[n] = "runs"
      BY <2>1, <1>p DEF PlacedAs, Stands
    <2> QED BY <2>1, <2>2, <1>2
  <1>6. ASSUME NEW n \in ready PROVE Live(n)
    <2>1. n \in Tasks
      BY <1>i DEF Types
    <2>2. at[n] = "ready"
      BY <2>1, <1>p DEF PlacedAs, Stands
    <2> QED BY <2>1, <2>2, <1>2
  <1> QED BY <1>3, <1>4, <1>5, <1>6 DEF TouchesLiveTasks

\* A task is deallocated when, and not before, its completion, every future,
\* every aggregate and every respawn that waits for it have let go of it.
THEOREM TaskReferencesCounted == TaskSpec => []ReferencesCounted
  <1>1. TaskInv /\ RefInv => ReferencesCounted
    BY InvReferences
  <1> QED BY <1>1, TaskReferences, PTL

\* No code of the scheduler goes on with a task that was deallocated: neither
\* with one that it is about to schedule, push, complete or release, nor with a
\* predecessor that it is about to look at.
THEOREM TaskTouchesLiveTasks == TaskSpec => []TouchesLiveTasks
  <1>1. TaskInv /\ RefInv => TouchesLiveTasks
    BY InvTouches
  <1> QED BY <1>1, TaskReferences, PTL

LEMMA InvTypes == ASSUME TaskInv, RefInv PROVE TaskTypeOK
  <1>i. Types /\ Numbered /\ Counted
    BY DEF TaskInv
  <1>1. ASSUME NEW n \in Tasks
        PROVE  /\ node[n].kind \in {"unused", "runnable", "aggregate", "freed"}
               /\ node[n].ref \in Nat
               /\ node[n].deps \in Seq(Tasks) /\ node[n].wait \in Seq(Tasks)
               /\ node[n].flag \in BOOLEAN /\ node[n].consumed \in BOOLEAN
               /\ node[n].after \subseteq Tasks
    <2>1. node[n] \in NodeType
      BY <1>i DEF Types
    <2>2. /\ node[n].kind \in NodeKinds
          /\ node[n].deps \in Seq(Tasks) /\ node[n].wait \in Seq(Tasks)
          /\ node[n].flag \in BOOLEAN /\ node[n].consumed \in BOOLEAN
          /\ node[n].after \in SUBSET Tasks
      BY <2>1, FieldTypes
    <2>3. IsFiniteSet(Pending(n)) /\ node[n].ref = References(n)
      BY DEF RefInv, RefOf
    <2>4. References(n) \in Nat
      BY <2>3, <1>i, RefNeeds
    <2> QED BY <2>2, <2>3, <2>4 DEF NodeKinds
  <1>2. m_ready_count \in Nat
    <2>1. /\ IsFiniteSet(ready) /\ IsFiniteSet(Runners) /\ IsFiniteSet(Enders) /\ IsFiniteSet(Pushers)
      BY <1>i, FiniteActors
    <2>2. /\ Cardinality(ready) \in Nat /\ Cardinality(Runners) \in Nat
          /\ Cardinality(Enders) \in Nat /\ Cardinality(Pushers) \in Nat
      BY <2>1, FS_CardinalityType
    <2> QED BY <2>2, <1>i DEF Counted
  <1>3. ASSUME NEW a \in Actors, NEW i \in DOMAIN agenda[a] PROVE agenda[a][i].n \in 0 .. MaxWork
    <2>1. agenda[a] \in Seq(Entry)
      BY <1>i DEF Types
    <2>2. PICK y \in Entry : y = agenda[a][i]
      BY <2>1
    <2>3. y.n \in Tasks \/ y.n = 0
      BY DEF Entry, CountDown
    <2> QED BY <2>2, <2>3, MaxWorkAssumption DEF Tasks
  <1>4. respawns \in 0 .. MaxWork
    BY <1>i, MaxWorkAssumption DEF Types, Numbered
  <1>5. /\ ready \subseteq Tasks /\ running \in [Actors -> 0 .. MaxWork]
        /\ futures \in [Tasks \cup {Host} -> SUBSET Tasks] /\ inside \subseteq Workers
    BY <1>i DEF Types, Owners
  <1> QED BY <1>1, <1>2, <1>3, <1>4, <1>5 DEF TaskTypeOK

\* Every variable of the scheduler keeps its type; in particular no reference
\* count and no ready count ever goes below zero.
THEOREM TaskTypes == TaskSpec => []TaskTypeOK
  <1>1. TaskInv /\ RefInv => TaskTypeOK
    BY InvTypes
  <1> QED BY <1>1, TaskReferences, PTL

\* The types of both, when a program uses the instance or the scheduler: they share
\* no state, so each invariant is left alone by the steps of the other.
THEOREM OpenMPTypes == OpenMPSpec => []OpenMPTypeOK
  <1> DEFINE Inv == TypeInv /\ TaskInv /\ RefInv
  <1>1. OpenMPInit => Inv
    BY InitType, InitTask, InitRef DEF OpenMPInit
  <1>2. Inv /\ [DispatchStep \/ TaskStep]_allVars => Inv'
    <2> SUFFICES ASSUME Inv, [DispatchStep \/ TaskStep]_allVars PROVE Inv'
      OBVIOUS
    <2>1. [Next]_vars /\ [TaskNext]_taskVars
      BY DEF DispatchStep, TaskStep, allVars, Zenon
    <2> QED BY <2>1, StepType, StepTask, StepRef
  <1>3. Inv => OpenMPTypeOK
    BY InvTypes DEF TypeInv, OpenMPTypeOK
  <1> HIDE DEF Inv
  <1> QED BY <1>1, <1>2, <1>3, PTL DEF OpenMPSpec
=============================================================================
