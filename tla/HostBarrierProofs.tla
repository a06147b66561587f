------------------------- MODULE HostBarrierProofs --------------------------
(***************************************************************************)
(* Proofs about the host barrier, for every number of threads, every int   *)
(* width and every choice of sources.                                      *)
(***************************************************************************)
EXTENDS HostBarrier, FiniteSetTheorems, TLAPS

\* The counter arithmetic of the barrier: counting up stays in range and never
\* stands still, so two consecutive rounds are told apart whatever the width.
LEMMA IncProperties ==
  ASSUME NEW k \in Count
  PROVE  Inc(k) \in Count /\ Inc(k) # k
  <1>1. CASE k + 1 = Wrap
    <2>1. Inc(k) = 0  BY <1>1, WrapAssumption DEF Inc, Count
    <2> QED BY <1>1, <2>1, WrapAssumption DEF Count
  <1>2. CASE k + 1 # Wrap
    <2>1. k + 1 < Wrap /\ k \in Nat /\ k + 1 \in Nat
      BY <1>2, WrapAssumption DEF Count
    <2>2. Inc(k) = k + 1
      BY <2>1, WrapAssumption DEF Inc
    <2> QED BY <2>1, <2>2, WrapAssumption DEF Count
  <1> QED BY <1>1, <1>2

\* The threads are finitely many: there are Size of them.
LEMMA ThreadsFinite == IsFiniteSet(Threads) /\ Cardinality(Threads) = Size
  BY FS_Interval, SizeAssumption DEF Threads

-----------------------------------------------------------------------------
\* What the program counters say about the rounds.
StepInv ==
    \A t \in Threads :
        /\ step[t] = wait \/ InRound(t)
        /\ phase[t] = "out" => step[t] = wait
        /\ phase[t] \in {"arriving", "signal", "alone", "releasing"} => InRound(t)
        /\ phase[t] = "waiting" /\ step[t] = wait => Source[step[t]] # t

\* arrive_idx counts the threads of the round until split_release resets it.
CountInv ==
    arrive = IF \E t \in Threads : phase[t] = "releasing"
             THEN 0 ELSE Cardinality(Arrived)

\* The last thread to arrive, and the thread that runs alone, see a full round,
\* and there is one of them.
FullInv ==
    \A t \in Threads : (phase[t] = "signal" \/ Running(t)) =>
        /\ Arrived = Threads
        /\ \A u \in Threads : u # t => phase[u] = "waiting"
        /\ Running(t) => Source[step[t]] \in {t, Last}

\* master_idx runs ahead of wait_idx exactly while a full round is signalled.
MasterInv ==
    master = IF Arrived = Threads /\ \A t \in Threads : phase[t] # "signal"
             THEN Inc(wait) ELSE wait

IndInv == TypeOK /\ StepInv /\ CountInv /\ FullInv /\ MasterInv

\* The barrier's memory before the first round: everyone is out, nobody counted.
LEMMA InitInd == Init => IndInv
<1> SUFFICES ASSUME Init PROVE IndInv
  OBVIOUS
<1>1. 0 \in Count /\ Inc(0) # 0
  <2>1. 0 \in Count  BY WrapAssumption DEF Count
  <2> QED BY <2>1, IncProperties
<1>2. TypeOK
  BY <1>1, SizeAssumption DEF Init, TypeOK
<1>3. Arrived = {}
  BY <1>1 DEF Init, Arrived, InRound
<1>4. 0 \in Threads
  BY SizeAssumption DEF Threads
<1> QED BY <1>1, <1>2, <1>3, <1>4, FS_EmptySet
        DEF Init, IndInv, StepInv, CountInv, FullInv, MasterInv, InRound, Running

\* Every atomic access to the barrier's memory preserves the invariant.
LEMMA StepInd == IndInv /\ [Next]_vars => IndInv'
<1> SUFFICES ASSUME IndInv, [Next]_vars PROVE IndInv'
  OBVIOUS
<1> DEFINE w == wait
           Phases == {"out", "arriving", "signal", "waiting", "alone", "releasing"}
<1>w. w \in Count /\ Inc(w) \in Count /\ Inc(w) # w /\ Inc(Inc(w)) \in Count
      /\ Inc(Inc(w)) # Inc(w)
  BY IncProperties DEF IndInv, TypeOK
<1>f. IsFiniteSet(Arrived) /\ Cardinality(Arrived) \in Nat
  BY ThreadsFinite, FS_Subset, FS_CardinalityType DEF Arrived
<1>n. Threads # {}
  BY SizeAssumption DEF Threads
<1>t. TypeOK /\ StepInv /\ CountInv /\ FullInv /\ MasterInv
  BY DEF IndInv
<1>1. ASSUME NEW t \in Threads, Enter(t) PROVE IndInv'
  <2>1. TypeOK'
    BY <1>1, <1>t, IncProperties DEF Enter, TypeOK
  <2>2. step[t] = w /\ step'[t] = Inc(w) /\ phase'[t] = "arriving"
        /\ \A u \in Threads \ {t} : step'[u] = step[u] /\ phase'[u] = phase[u]
    BY <1>1, <1>t DEF Enter, TypeOK, StepInv
  <2>3. Arrived' = Arrived /\ t \notin Arrived
    BY <1>1, <2>2, <1>w DEF Arrived, InRound, Enter
  <2>4. StepInv'
    BY <1>1, <1>t, <1>w, <2>2 DEF StepInv, InRound, Enter
  <2>5. CountInv'
    BY <1>1, <1>t, <2>2, <2>3 DEF CountInv, Enter
  <2>6. FullInv'
    BY <1>1, <1>t, <2>2, <2>3 DEF FullInv, Running, Enter
  <2>7. MasterInv'
    BY <1>1, <1>t, <2>2, <2>3 DEF MasterInv, Enter
  <2> QED BY <2>1, <2>4, <2>5, <2>6, <2>7 DEF IndInv
<1>2. ASSUME NEW t \in Threads, CountIn(t) PROVE IndInv'
  <2>2. step' = step /\ wait' = w /\ InRound(t) /\ master' = master
        /\ \A u \in Threads \ {t} : phase'[u] = phase[u]
    BY <1>2, <1>t DEF CountIn, TypeOK, StepInv
  <2>3. t \notin Arrived
    BY <1>2 DEF Arrived, CountIn
  <2>4. phase'[t] = IF IsLast(arrive) THEN "signal" ELSE "waiting"
    BY <1>2, <1>t DEF CountIn, TypeOK
  <2>5. Arrived' = Arrived \cup {t}
    BY <2>2, <2>4 DEF Arrived, InRound
  <2>6. \A u \in Threads : phase[u] # "signal" /\ ~Running(u)
    BY <1>t, <2>3 DEF FullInv
  <2>7. arrive = Cardinality(Arrived)
    BY <1>t, <2>6 DEF CountInv, Running
  <2>8. Cardinality(Arrived') = Cardinality(Arrived) + 1
    BY <2>3, <2>5, <1>f, FS_AddElement
  <2>9. StepInv'
    BY <1>t, <1>w, <2>2, <2>4 DEF StepInv, InRound
  <2>10. CountInv'
    BY <1>2, <2>2, <2>4, <2>6, <2>7, <2>8 DEF CountInv, CountIn, Running
  <2>11. IsLast(arrive) <=> Arrived' = Threads
    <3>1. Arrived' \in SUBSET Threads
      BY DEF Arrived
    <3>2. Cardinality(Arrived') = Size <=> Arrived' = Threads
      BY <3>1, ThreadsFinite, FS_Subset
    <3> QED BY <3>2, <2>7, <2>8, <1>f, SizeAssumption DEF IsLast
  <2>1. TypeOK'
    <3>1. Arrived' \in SUBSET Threads
      BY DEF Arrived
    <3>2. Cardinality(Arrived') <= Size
      BY <3>1, ThreadsFinite, FS_Subset
    <3>3. arrive' \in 0 .. Size
      BY <1>2, <2>7, <2>8, <3>2, <1>f, SizeAssumption DEF CountIn
    <3> QED BY <3>3, <1>2, <1>t DEF CountIn, TypeOK
  <2>12. FullInv'
    <3>1. CASE IsLast(arrive)
      <4>1. \A u \in Threads \ {t} : phase'[u] = "waiting"
        <5> SUFFICES ASSUME NEW u \in Threads, u # t PROVE phase[u] = "waiting"
          BY <2>2
        <5>1. u \in Arrived
          BY <3>1, <2>11, <2>5
        <5> QED BY <5>1, <2>6, <1>w, <1>t DEF Arrived, Running, StepInv, TypeOK, InRound
      <4> QED BY <3>1, <4>1, <2>4, <2>11 DEF FullInv, Running
    <3>2. CASE ~IsLast(arrive)
      BY <3>2, <2>2, <2>4, <2>6 DEF FullInv, Running
    <3> QED BY <3>1, <3>2
  <2>13. MasterInv'
    <3>1. master = w
      BY <1>t, <2>3 DEF MasterInv
    <3> QED BY <3>1, <2>2, <2>4, <2>11 DEF MasterInv
  <2> QED BY <2>1, <2>9, <2>10, <2>12, <2>13 DEF IndInv
<1>3. ASSUME NEW t \in Threads, Signal(t) PROVE IndInv'
  <2>1. TypeOK'
    BY <1>3, <1>t, IncProperties DEF Signal, TypeOK
  <2>2. step' = step /\ wait' = w /\ InRound(t) /\ arrive' = arrive
        /\ \A u \in Threads \ {t} : phase'[u] = phase[u]
    BY <1>3, <1>t DEF Signal, TypeOK, StepInv
  <2>3. phase[t] = "signal" /\ phase'[t] \in {"alone", "waiting"}
        /\ (phase'[t] = "alone" => Source[step[t]] = Last)
    BY <1>3, <1>t DEF Signal, TypeOK
  <2>4. Arrived = Threads /\ \A u \in Threads \ {t} : phase[u] = "waiting"
    BY <1>t, <2>3 DEF FullInv
  <2>5. Arrived' = Threads
    BY <2>2, <2>3, <2>4 DEF Arrived, InRound
  <2>6. master = w /\ master' = Inc(w)
    BY <1>3, <1>t, <2>3 DEF MasterInv, Signal
  <2>7. StepInv'
    BY <1>t, <1>w, <2>2, <2>3 DEF StepInv, InRound
  <2>8. CountInv'
    BY <1>t, <2>2, <2>3, <2>4, <2>5 DEF CountInv
  <2>9. FullInv'
    BY <2>2, <2>3, <2>4, <2>5 DEF FullInv, Running
  <2>10. MasterInv'
    BY <2>2, <2>3, <2>4, <2>5, <2>6 DEF MasterInv
  <2> QED BY <2>1, <2>7, <2>8, <2>9, <2>10 DEF IndInv
<1>4. ASSUME NEW t \in Threads, MasterWait(t) PROVE IndInv'
  <2>1. TypeOK'
    BY <1>4, <1>t DEF MasterWait, TypeOK
  <2>2. /\ step' = step /\ wait' = w /\ arrive' = arrive /\ master' = master
        /\ phase[t] = "waiting" /\ phase'[t] = "alone" /\ Source[step[t]] = t
        /\ \A u \in Threads \ {t} : phase'[u] = phase[u]
    BY <1>4, <1>t DEF MasterWait, TypeOK
  <2>3. InRound(t) /\ master = Inc(w)
    BY <1>4, <1>t, <2>2 DEF MasterWait, StepInv, InRound
  <2>4. Arrived = Threads /\ \A u \in Threads : phase[u] # "signal"
    BY <1>t, <1>w, <2>3 DEF MasterInv
  <2>5. ASSUME NEW u \in Threads, u # t PROVE phase[u] = "waiting"
    <3>1. InRound(u) /\ phase[u] # "arriving" /\ phase[u] # "out"
      BY <2>4, <1>t, <1>w DEF Arrived, StepInv, InRound
    <3>2. Source[step[u]] = t /\ t # Last
      BY <3>1, <2>2, <2>3, LastAssumption DEF InRound
    <3>3. ~Running(u)
      BY <3>2, <2>5, <1>t DEF FullInv
    <3> QED BY <3>1, <3>3, <2>4, <1>t DEF Running, TypeOK
  <2>6. Arrived' = Threads
    BY <2>2, <2>4 DEF Arrived, InRound
  <2>7. StepInv'
    BY <1>t, <1>w, <2>2, <2>3 DEF StepInv, InRound
  <2>8. CountInv'
    BY <1>t, <2>2, <2>4, <2>6 DEF CountInv
  <2>9. FullInv'
    BY <2>2, <2>5, <2>6 DEF FullInv, Running
  <2>10. MasterInv'
    BY <2>2, <2>3, <2>4, <2>6 DEF MasterInv
  <2> QED BY <2>1, <2>7, <2>8, <2>9, <2>10 DEF IndInv
<1>5. ASSUME NEW t \in Threads, Wait(t) PROVE IndInv'
  <2>1. TypeOK'
    BY <1>5, <1>t DEF Wait, TypeOK
  <2>2. /\ step' = step /\ wait' = w /\ arrive' = arrive /\ master' = master
        /\ phase[t] = "waiting" /\ phase'[t] = "out" /\ step[t] = w
        /\ \A u \in Threads \ {t} : phase'[u] = phase[u]
    BY <1>5, <1>t DEF Wait, TypeOK
  <2>3. Arrived' = Arrived /\ t \notin Arrived
    BY <2>2, <1>w DEF Arrived, InRound
  <2>4. \A u \in Threads : phase[u] # "signal" /\ ~Running(u)
    BY <1>t, <2>3 DEF FullInv
  <2>5. StepInv'
    BY <1>t, <1>w, <2>2 DEF StepInv, InRound
  <2>6. CountInv'
    BY <1>t, <2>2, <2>3 DEF CountInv
  <2>7. FullInv'
    BY <2>2, <2>4 DEF FullInv, Running
  <2>8. MasterInv'
    BY <1>t, <2>2, <2>3 DEF MasterInv
  <2> QED BY <2>1, <2>5, <2>6, <2>7, <2>8 DEF IndInv
<1>6. ASSUME NEW t \in Threads, Reset(t) PROVE IndInv'
  <2>2. /\ step' = step /\ wait' = w /\ master' = master
        /\ phase[t] = "alone" /\ phase'[t] = "releasing"
        /\ \A u \in Threads \ {t} : phase'[u] = phase[u]
    BY <1>6, <1>t DEF Reset, TypeOK
  <2>3. /\ Arrived = Threads /\ \A u \in Threads \ {t} : phase[u] = "waiting"
        /\ Source[step[t]] \in {t, Last}
    BY <1>t, <2>2 DEF FullInv, Running
  <2>4. Arrived' = Threads
    BY <2>2, <2>3 DEF Arrived, InRound
  <2>5. arrive = Size /\ arrive' = 0
    BY <1>6, <1>t, <2>2, <2>3, ThreadsFinite, SizeAssumption DEF CountInv, Reset
  <2>1. TypeOK'
    BY <1>6, <1>t, <2>5, SizeAssumption DEF Reset, TypeOK
  <2>6. StepInv'
    BY <1>t, <1>w, <2>2 DEF StepInv, InRound
  <2>7. CountInv'
    BY <2>2, <2>5 DEF CountInv
  <2>8. FullInv'
    BY <2>2, <2>3, <2>4 DEF FullInv, Running
  <2>9. MasterInv'
    BY <1>t, <2>2, <2>3, <2>4 DEF MasterInv
  <2> QED BY <2>1, <2>6, <2>7, <2>8, <2>9 DEF IndInv
<1>7. ASSUME NEW t \in Threads, Free(t) PROVE IndInv'
  <2>1. TypeOK'
    BY <1>7, <1>t, IncProperties DEF Free, TypeOK
  <2>2. /\ step' = step /\ wait' = Inc(w) /\ master' = master /\ arrive' = arrive
        /\ phase[t] = "releasing"
        /\ phase'[t] = IF Source[step[t]] = Last THEN "waiting" ELSE "out"
        /\ \A u \in Threads \ {t} : phase'[u] = phase[u]
    BY <1>7, <1>t DEF Free, TypeOK
  <2>3. /\ Arrived = Threads /\ \A u \in Threads \ {t} : phase[u] = "waiting"
        /\ Source[step[t]] \in {t, Last}
    BY <1>t, <2>2 DEF FullInv, Running
  <2>4. \A u \in Threads : step'[u] = Inc(w)
    BY <2>2, <2>3 DEF Arrived, InRound
  <2>5. Arrived' = {}
    BY <2>2, <2>4, <1>w DEF Arrived, InRound
  <2>6. StepInv'
    BY <2>2, <2>3, <2>4, LastAssumption DEF StepInv, InRound
  <2>7. CountInv'
    <3>1. arrive = 0
      BY <1>t, <2>2 DEF CountInv
    <3> QED BY <3>1, <2>2, <2>3, <2>5, FS_EmptySet DEF CountInv
  <2>8. FullInv'
    BY <2>2, <2>3 DEF FullInv, Running
  <2>9. MasterInv'
    <3>1. master = Inc(w)
      BY <1>t, <2>2, <2>3 DEF MasterInv
    <3> QED BY <3>1, <2>2, <2>5, <1>n DEF MasterInv
  <2> QED BY <2>1, <2>6, <2>7, <2>8, <2>9 DEF IndInv
<1>8. CASE UNCHANGED vars
  BY <1>8 DEF vars, IndInv, TypeOK, StepInv, CountInv, FullInv, MasterInv,
              Arrived, InRound, Running
<1> QED BY <1>1, <1>2, <1>3, <1>4, <1>5, <1>6, <1>7, <1>8 DEF Next, Step

\* The inductive invariant holds for ever.
LEMMA IndInvariant == Spec => []IndInv
  BY InitInd, StepInd, PTL DEF Spec

\* The counters of the buffer and the steps of the threads keep their ranges.
THEOREM BarrierTypeCorrect == Spec => []TypeOK
  BY IndInvariant, PTL DEF IndInv

\* A thread that the barrier lets run is alone: every other thread waits in the
\* same round.
THEOREM BarrierRunsAlone == Spec => []RunsAlone
<1>1. IndInv => RunsAlone
  <2> SUFFICES ASSUME IndInv, NEW t \in Threads, NEW u \in Threads,
                      Running(t), u # t
               PROVE  phase[u] = "waiting" /\ InRound(u) /\ step[u] = step[t]
    BY DEF RunsAlone
  <2>1. Arrived = Threads /\ phase[u] = "waiting"
    BY DEF IndInv, FullInv
  <2> QED BY <2>1 DEF Arrived, InRound
<1> QED BY <1>1, IndInvariant, PTL

\* No thread laps another, however often the counters wrap: everyone is in the
\* released round or in the one after it.
THEOREM BarrierNobodyLaps == Spec => []AtMostOneRoundApart
<1>1. IndInv => AtMostOneRoundApart
  BY DEF IndInv, StepInv, AtMostOneRoundApart, InRound
<1> QED BY <1>1, IndInvariant, PTL

-----------------------------------------------------------------------------
\* The abstract master is the thread that runs alone, if there is one.
LEMMA MasterIsRunning ==
  ASSUME IndInv
  PROVE  /\ \A t \in Threads : Running(t) => AbsMaster = t
         /\ (\A t \in Threads : ~Running(t)) => AbsMaster = Last
<1>1. \A t, u \in Threads : Running(t) /\ Running(u) => t = u
  BY DEF IndInv, FullInv, Running
<1> QED BY <1>1 DEF AbsMaster

\* Every step of the barrier is a step of the rendezvous or leaves it alone.
LEMMA StepRefines ==
  ASSUME IndInv, IndInv', [Next]_vars
  PROVE  [R!RNext]_(R!rvars)
<1> USE DEF R!RNext, R!RStep, R!rvars
<1>w. wait \in Count /\ Inc(wait) \in Count /\ Inc(wait) # wait
      /\ Inc(Inc(wait)) # Inc(wait)
  BY IncProperties DEF IndInv, TypeOK
<1>t. TypeOK /\ StepInv /\ CountInv /\ FullInv /\ MasterInv
  BY DEF IndInv
<1>m. /\ \A t \in Threads : Running(t) => AbsMaster = t
      /\ (\A t \in Threads : ~Running(t)) => AbsMaster = Last
  BY MasterIsRunning
<1>n. /\ \A t \in Threads : Running(t)' => AbsMaster' = t
      /\ (\A t \in Threads : ~Running(t)') => AbsMaster' = Last
  <2>1. \A t, u \in Threads : Running(t)' /\ Running(u)' => t = u
    BY DEF IndInv, FullInv, Running
  <2> QED BY <2>1 DEF AbsMaster
<1>l. Last \notin Threads
  BY LastAssumption
<1>1. ASSUME NEW t \in Threads, Enter(t) PROVE UNCHANGED R!rvars
  <2>1. /\ phase[t] = "out" /\ step[t] = wait /\ phase'[t] = "arriving" /\ wait' = wait
        /\ step'[t] = Inc(wait)
        /\ \A u \in Threads \ {t} : phase'[u] = phase[u] /\ step'[u] = step[u]
    BY <1>1, <1>t DEF Enter, TypeOK, StepInv
  <2>2. AbsIn' = AbsIn
    BY <2>1, <1>w DEF AbsIn, Arrived, InRound
  <2>3. AbsLeaving' = AbsLeaving
    BY <2>1, <1>w DEF AbsLeaving
  <2>4. AbsMaster' = AbsMaster
    BY <2>1, <1>m, <1>n DEF Running
  <2> QED BY <2>2, <2>3, <2>4
<1>2. ASSUME NEW t \in Threads, CountIn(t) PROVE R!Arrive(t)
  <2>1. /\ phase[t] = "arriving" /\ step[t] = Inc(wait) /\ wait' = wait /\ step' = step
        /\ phase'[t] \in {"signal", "waiting"}
        /\ \A u \in Threads \ {t} : phase'[u] = phase[u]
    BY <1>2, <1>t DEF CountIn, TypeOK, StepInv, InRound
  <2>2. t \notin AbsIn \cup AbsLeaving
    BY <2>1, <1>w DEF AbsIn, AbsLeaving, Arrived
  <2>3. AbsIn' = AbsIn \cup {t}
    BY <2>1 DEF AbsIn, Arrived, InRound
  <2>4. AbsLeaving' = AbsLeaving
    BY <2>1, <1>w DEF AbsLeaving
  <2>5. AbsMaster' = AbsMaster
    BY <2>1, <1>m, <1>n DEF Running
  <2> QED BY <2>2, <2>3, <2>4, <2>5 DEF R!Arrive
<1>3. ASSUME NEW t \in Threads, Signal(t) PROVE R!Elect(t) \/ UNCHANGED R!rvars
  <2>1. /\ phase[t] = "signal" /\ step[t] = Inc(wait) /\ wait' = wait /\ step' = step
        /\ phase'[t] \in {"alone", "waiting"}
        /\ \A u \in Threads \ {t} : phase'[u] = phase[u] /\ phase[u] = "waiting"
    BY <1>3, <1>t DEF Signal, TypeOK, StepInv, FullInv, InRound
  <2>2. AbsIn' = AbsIn /\ AbsIn = Threads
    BY <2>1, <1>t DEF AbsIn, Arrived, InRound, FullInv
  <2>3. AbsLeaving' = AbsLeaving
    BY <2>1, <1>w DEF AbsLeaving
  <2>4. AbsMaster = Last
    BY <2>1, <1>m DEF Running
  <2>5. CASE phase'[t] = "alone"
    <3>1. AbsMaster' = t
      BY <2>5, <1>n DEF Running
    <3> QED BY <3>1, <2>2, <2>3, <2>4 DEF R!Elect
  <2>6. CASE phase'[t] = "waiting"
    <3>1. AbsMaster' = Last
      BY <2>1, <2>6, <1>n DEF Running
    <3> QED BY <3>1, <2>2, <2>3, <2>4
  <2> QED BY <2>1, <2>5, <2>6
<1>4. ASSUME NEW t \in Threads, MasterWait(t) PROVE R!Elect(t)
  <2>1. /\ phase[t] = "waiting" /\ phase'[t] = "alone" /\ Source[step[t]] = t
        /\ wait' = wait /\ step' = step
        /\ \A u \in Threads \ {t} : phase'[u] = phase[u]
    BY <1>4, <1>t DEF MasterWait, TypeOK
  <2>2. AbsIn' = AbsIn
    BY <2>1 DEF AbsIn, Arrived, InRound
  <2>3. AbsIn' = Threads /\ \A u \in Threads \ {t} : phase'[u] = "waiting"
    BY <2>1, IndInv' DEF IndInv, FullInv, Running, AbsIn
  <2>4. step[t] = Inc(wait)
    BY <2>1, <2>2, <2>3 DEF AbsIn, Arrived, InRound
  <2>5. AbsLeaving' = AbsLeaving
    BY <2>1, <2>4, <1>w DEF AbsLeaving
  <2>6. AbsMaster = Last
    BY <2>1, <2>3, <1>m DEF Running
  <2>7. AbsMaster' = t
    BY <2>1, <1>n DEF Running
  <2> QED BY <2>2, <2>3, <2>5, <2>6, <2>7 DEF R!Elect
<1>5. ASSUME NEW t \in Threads, Wait(t) PROVE R!Leave(t)
  <2>1. /\ phase[t] = "waiting" /\ phase'[t] = "out" /\ step[t] = wait
        /\ wait' = wait /\ step' = step
        /\ \A u \in Threads \ {t} : phase'[u] = phase[u]
    BY <1>5, <1>t DEF Wait, TypeOK
  <2>2. AbsIn' = AbsIn
    BY <2>1, <1>w DEF AbsIn, Arrived, InRound
  <2>3. t \in AbsLeaving /\ AbsLeaving' = AbsLeaving \ {t}
    BY <2>1 DEF AbsLeaving
  <2>4. AbsMaster' = AbsMaster
    BY <2>1, <1>m, <1>n DEF Running
  <2> QED BY <2>2, <2>3, <2>4 DEF R!Leave
<1>6. ASSUME NEW t \in Threads, Reset(t) PROVE UNCHANGED R!rvars
  <2>1. /\ phase[t] = "alone" /\ phase'[t] = "releasing" /\ wait' = wait /\ step' = step
        /\ \A u \in Threads \ {t} : phase'[u] = phase[u]
    BY <1>6, <1>t DEF Reset, TypeOK
  <2>2. AbsIn' = AbsIn /\ AbsLeaving' = AbsLeaving
    BY <2>1 DEF AbsIn, AbsLeaving, Arrived, InRound
  <2>3. AbsMaster = t /\ AbsMaster' = t
    BY <2>1, <1>m, <1>n DEF Running
  <2> QED BY <2>2, <2>3
<1>7. ASSUME NEW t \in Threads, Free(t) PROVE R!Release(t)
  <2>1. /\ phase[t] = "releasing" /\ wait' = Inc(wait) /\ step' = step
        /\ phase'[t] \in {"waiting", "out"}
        /\ \A u \in Threads \ {t} : phase'[u] = phase[u]
    BY <1>7, <1>t DEF Free, TypeOK
  <2>2. /\ \A u \in Threads : step[u] = Inc(wait)
        /\ \A u \in Threads \ {t} : phase[u] = "waiting"
    BY <2>1, <1>t DEF FullInv, Running, Arrived, InRound
  <2>3. AbsIn' = {}
    BY <2>1, <2>2, <1>w DEF AbsIn, Arrived, InRound
  <2>4. AbsLeaving' \in {Threads, Threads \ {t}}
    BY <2>1, <2>2 DEF AbsLeaving
  <2>5. AbsMaster = t
    BY <2>1, <1>m DEF Running
  <2>6. AbsMaster' = Last
    BY <2>1, <2>2, <1>n DEF Running
  <2> QED BY <2>3, <2>4, <2>5, <2>6 DEF R!Release
<1>8. CASE UNCHANGED vars
  BY <1>8 DEF vars, AbsIn, AbsLeaving, AbsMaster, Arrived, InRound, Running
<1> QED BY <1>1, <1>2, <1>3, <1>4, <1>5, <1>6, <1>7, <1>8 DEF Next, Step

\* Whatever the interleaving, the three counters behave as the rendezvous:
\* no thread leaves a round that some thread has not entered, and nobody
\* moves while the elected thread runs.
THEOREM BarrierRefinesRendezvous == Spec => ImplementsRendezvous
<1>1. Init => R!RInit
  <2> SUFFICES ASSUME Init PROVE R!RInit
    OBVIOUS
  <2>1. Inc(0) # 0
    BY IncProperties, WrapAssumption DEF Count
  <2>2. AbsIn = {} /\ AbsLeaving = {} /\ AbsMaster = Last
    BY <2>1 DEF Init, AbsIn, AbsLeaving, AbsMaster, Arrived, InRound, Running
  <2> QED BY <2>2 DEF R!RInit
<1>2. IndInv /\ IndInv' /\ [Next]_vars => [R!RNext]_(R!rvars)
  BY StepRefines
<1> QED BY <1>1, <1>2, IndInvariant, PTL DEF Spec, ImplementsRendezvous, R!RSpec
=============================================================================
