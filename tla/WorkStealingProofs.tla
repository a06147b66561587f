------------------------- MODULE WorkStealingProofs -------------------------
(***************************************************************************)
(* Proofs about the dynamic schedule, for every pool, team size, range and *)
(* chunk size.                                                             *)
(***************************************************************************)
EXTENDS WorkStealing, FiniteSetTheorems, TLAPS

\* The quotient of a division by a positive number.
LEMMA DivFacts ==
  ASSUME NEW a \in Nat, NEW b \in Nat \ {0}
  PROVE  /\ a \div b \in Nat
         /\ b * (a \div b) <= a /\ a < b * (a \div b) + b
         /\ a % b = 0 => b * (a \div b) = a
<1>1. a \div b \in Nat
  OBVIOUS
<1>2. b * (a \div b) <= a
  BY Z3
<1>3. a < b * (a \div b) + b
  OBVIOUS
<1>4. a % b = 0 => b * (a \div b) = a
  BY Z3
<1> QED BY <1>1, <1>2, <1>3, <1>4

\* Multiplication by a natural number is monotone.
LEMMA MulMono ==
  ASSUME NEW a \in Nat, NEW b \in Nat, NEW k \in Nat, a <= b
  PROVE  k * a \in Nat /\ k * b \in Nat /\ k * a <= k * b
  OBVIOUS

\* The product with the successor.
LEMMA MulSucc ==
  ASSUME NEW a \in Nat, NEW b \in Nat
  PROVE  a * (b + 1) = a * b + a /\ a * b \in Nat
  OBVIOUS

\* A multiple of b has remainder 0, and its quotient is the factor.
LEMMA Multiple ==
  ASSUME NEW k \in Nat, NEW b \in Nat \ {0}
  PROVE  (b * k) % b = 0 /\ (b * k) \div b = k
<1>1. (b * k) \div b = k
  BY Z3
<1>2. (b * k) % b = 0
  BY Z3
<1> QED BY <1>1, <1>2

\* organize_team makes at least one team, and each owns room for its threads.
LEMMA LayoutFacts ==
  /\ LeagueSize \in Nat \ {0} /\ Alloc \in Nat /\ Alloc >= TeamSize
  /\ LeagueSize * Alloc <= PoolSize
<1> USE PoolAssumption, TeamAssumption
<1>1. TeamSize \in Nat \ {0} /\ PoolSize \in Nat
  OBVIOUS
<1>2. LeagueSize \in Nat /\ TeamSize * LeagueSize <= PoolSize
      /\ PoolSize < TeamSize * LeagueSize + TeamSize
  BY <1>1, DivFacts DEF LeagueSize
<1>3. LeagueSize # 0
  BY <1>1, <1>2
<1>4. Alloc \in Nat /\ LeagueSize * Alloc <= PoolSize
      /\ PoolSize < LeagueSize * Alloc + LeagueSize
  BY <1>1, <1>2, <1>3, DivFacts DEF Alloc
<1>5. Alloc >= TeamSize
  <2> SUFFICES ASSUME Alloc < TeamSize PROVE FALSE
    BY <1>1, <1>4
  <2>1. LeagueSize * (Alloc + 1) <= LeagueSize * TeamSize
    BY <1>1, <1>2, <1>4, MulMono
  <2>2. LeagueSize * (Alloc + 1) = LeagueSize * Alloc + LeagueSize
    BY <1>2, <1>4, MulSucc
  <2>3. LeagueSize * TeamSize = TeamSize * LeagueSize
    BY <1>1, <1>2
  <2> QED BY <1>1, <1>2, <1>4, <2>1, <2>2, <2>3
<1> QED BY <1>2, <1>3, <1>4, <1>5

\* A master is the first thread of a full team: its rank is a multiple of Alloc.
LEMMA MasterFacts ==
  ASSUME NEW p \in Masters
  PROVE  /\ p \in Nat /\ LeagueRank(p) \in Nat
         /\ p = Alloc * LeagueRank(p) /\ p + TeamSize <= PoolSize
<1>1. p \in Nat /\ Alloc \in Nat \ {0} /\ TeamSize \in Nat \ {0} /\ PoolSize \in Nat
  BY LayoutFacts, PoolAssumption, TeamAssumption DEF Masters, PoolRanks
<1>2. p % Alloc = 0 /\ TeamBase(p) + TeamSize <= PoolSize
  BY DEF Masters, TeamRank
<1>3. LeagueRank(p) \in Nat /\ Alloc * LeagueRank(p) = p
  BY <1>1, <1>2, DivFacts DEF LeagueRank
<1>4. TeamBase(p) = Alloc * LeagueRank(p)
  BY <1>1, <1>3 DEF TeamBase
<1> QED BY <1>1, <1>2, <1>3, <1>4

\* Any multiple of Alloc with room for a team behind it is a master's rank.
LEMMA MultipleIsMaster ==
  ASSUME NEW k \in Nat, Alloc * k + TeamSize <= PoolSize
  PROVE  Alloc * k \in Masters /\ LeagueRank(Alloc * k) = k
<1> DEFINE p == Alloc * k
<1>1. p \in Nat /\ Alloc \in Nat \ {0} /\ TeamSize \in Nat \ {0} /\ PoolSize \in Nat
  BY LayoutFacts, PoolAssumption, TeamAssumption
<1>2. p % Alloc = 0 /\ LeagueRank(p) = k
  BY <1>1, Multiple DEF LeagueRank
<1>3. TeamBase(p) = p
  BY <1>1, <1>2 DEF TeamBase
<1>4. p \in PoolRanks
  BY <1>1 DEF PoolRanks
<1>5. TeamRank(p) = 0
  BY <1>1, <1>2, <1>3 DEF TeamRank
<1> QED BY <1>2, <1>4, <1>5 DEF Masters

\* Stealing moves from master to master.
LEMMA NextStealIsMaster ==
  ASSUME NEW b \in Masters
  PROVE  NextSteal(b) \in Masters
<1>1. Alloc \in Nat /\ TeamSize \in Nat /\ PoolSize \in Nat
  BY LayoutFacts, PoolAssumption, TeamAssumption
<1>2. b \in Nat /\ LeagueRank(b) \in Nat /\ b = Alloc * LeagueRank(b)
  BY MasterFacts
<1>3. CASE b + Alloc + TeamSize <= PoolSize
  <2>1. Alloc * (LeagueRank(b) + 1) = b + Alloc
    BY <1>1, <1>2, MulSucc
  <2>2. b + Alloc \in Masters
    BY <1>1, <1>2, <1>3, <2>1, MultipleIsMaster
  <2> QED BY <1>3, <2>2 DEF NextSteal
<1>4. CASE ~(b + Alloc + TeamSize <= PoolSize)
  <2>1. Alloc * 0 = 0
    BY <1>1
  <2>2. 0 \in Masters
    BY <1>1, <2>1, TeamAssumption, MultipleIsMaster
  <2> QED BY <1>4, <2>2 DEF NextSteal
<1> QED BY <1>3, <1>4

-----------------------------------------------------------------------------
\* The chunks set_work_partition gives to p are Lo(p) .. Hi(p) - 1.
Lo(p) == Part * LeagueRank(p)
Hi(p) == Lo(p) + Part

\* The number of chunks is a number.
LEMMA PartFacts == Part \in Nat /\ \A p \in Masters : Lo(p) \in Nat /\ Hi(p) \in Nat
<1>1. ChunkMin \in Nat
  BY LengthAssumption, IntMaxAssumption, DivFacts DEF ChunkMin
<1>2. WorkChunk \in Nat \ {0}
  BY <1>1, ChunkAssumption DEF WorkChunk
<1>3. Num \in Nat
  BY <1>2, LengthAssumption, DivFacts DEF Num
<1>4. Part \in Nat
  BY <1>3, LayoutFacts, DivFacts DEF Part
<1>5. ASSUME NEW p \in Masters PROVE Lo(p) \in Nat
  BY <1>4, MasterFacts, MulSucc DEF Lo
<1> QED BY <1>4, <1>5 DEF Hi

\* The initial ranges of two teams do not overlap.
LEMMA RangesDisjoint ==
  ASSUME NEW p \in Masters, NEW q \in Masters, p # q
  PROVE  Hi(p) <= Lo(q) \/ Hi(q) <= Lo(p)
<1>1. ASSUME NEW a \in Masters, NEW b \in Masters, LeagueRank(a) < LeagueRank(b)
      PROVE  Hi(a) <= Lo(b)
  <2>1. LeagueRank(a) \in Nat /\ LeagueRank(b) \in Nat /\ Part \in Nat
    BY MasterFacts, PartFacts
  <2>2. Part * (LeagueRank(a) + 1) <= Part * LeagueRank(b)
    BY <1>1, <2>1, MulMono
  <2>3. Part * (LeagueRank(a) + 1) = Part * LeagueRank(a) + Part
    BY <2>1, MulSucc
  <2> QED BY <2>2, <2>3 DEF Hi, Lo
<1>2. LeagueRank(p) \in Nat /\ LeagueRank(q) \in Nat /\ LeagueRank(p) # LeagueRank(q)
  BY MasterFacts
<1>3. LeagueRank(p) < LeagueRank(q) \/ LeagueRank(q) < LeagueRank(p)
  BY <1>2
<1> QED BY <1>1, <1>3

\* Together the initial ranges hold every chunk.
LEMMA RangesCover ==
  ASSUME NEW c \in AllChunks
  PROVE  \E p \in Masters : Lo(p) <= c /\ c < Hi(p)
<1>1. /\ Part \in Nat /\ LeagueSize \in Nat \ {0} /\ Alloc \in Nat
      /\ TeamSize \in Nat /\ PoolSize \in Nat /\ TeamSize <= Alloc
  BY LayoutFacts, PartFacts, PoolAssumption, TeamAssumption
<1>2. c \in Nat /\ c < Part * LeagueSize /\ Part # 0
  BY <1>1 DEF AllChunks
<1> DEFINE k == c \div Part
<1>3. k \in Nat /\ Part * k <= c /\ c < Part * k + Part
  BY <1>1, <1>2, DivFacts
<1>4. k + 1 <= LeagueSize
  <2> SUFFICES ASSUME LeagueSize <= k PROVE FALSE
    BY <1>1, <1>3
  <2>1. Part * LeagueSize <= Part * k
    BY <1>1, <1>3, MulMono
  <2>2. Part * LeagueSize \in Nat /\ Part * k \in Nat
    BY <1>1, <1>3, MulSucc
  <2> QED BY <1>2, <1>3, <2>1, <2>2
<1>5. Alloc * k + TeamSize <= PoolSize
  <2>1. Alloc * (k + 1) <= Alloc * LeagueSize
    BY <1>1, <1>3, <1>4, MulMono
  <2>2. Alloc * (k + 1) = Alloc * k + Alloc /\ Alloc * k \in Nat
    BY <1>1, <1>3, MulSucc
  <2>3. Alloc * LeagueSize = LeagueSize * Alloc /\ LeagueSize * Alloc <= PoolSize
    BY <1>1, LayoutFacts
  <2>4. Alloc * k + Alloc <= PoolSize
    BY <1>1, <2>1, <2>2, <2>3
  <2> QED BY <1>1, <2>2, <2>4
<1>6. Alloc * k \in Masters /\ LeagueRank(Alloc * k) = k
  BY <1>3, <1>5, MultipleIsMaster
<1> QED BY <1>3, <1>6 DEF Lo, Hi

-----------------------------------------------------------------------------
\* A range only shrinks inside what the partition gave it.
RangeInv ==
    \A p \in Masters :
        /\ pc[p] = "setsecond" => first[p] = Lo(p)
        /\ pc[p] \notin {"setfirst", "setsecond"} =>
              Lo(p) <= first[p] /\ first[p] <= second[p] /\ second[p] <= Hi(p)

\* Until the rendezvous opens nothing is taken.
NotReadyInv ==
    ~Ready => /\ handed = {}
              /\ \A p \in Masters :
                    /\ pc[p] \in {"setfirst", "setsecond", "meet"}
                    /\ pc[p] = "meet" => first[p] = Lo(p) /\ second[p] = Hi(p)

\* A chunk of p's partition has left p's range exactly when it was handed out.
HandedInv ==
    Ready => \A p \in Masters : \A c \in Int :
        Lo(p) <= c /\ c < Hi(p) => (c \in handed <=> ~Offers(p, c))

\* The pair a compare-exchange starts from is no pair yet, or was once viable.
PairInv ==
    \A p \in Masters :
        pc[p] \in {"own", "steal"} => w[p] = Invalid \/ w[p][1] < w[p][2]

IndInv == TypeOK /\ RangeInv /\ NotReadyInv /\ HandedInv /\ PairInv

\* At the start nobody has a range.
LEMMA InitInd == Init => IndInv
<1> SUFFICES ASSUME Init PROVE IndInv
  OBVIOUS
<1>1. 0 \in Masters
  <2>1. Alloc * 0 = 0 /\ 0 + TeamSize <= PoolSize
    BY LayoutFacts, TeamAssumption, PoolAssumption
  <2> QED BY <2>1, MultipleIsMaster
<1>2. TypeOK
  <2>1. Invalid \in Int \X Int
    BY DEF Invalid
  <2>2. w \in [Masters -> Int \X Int]
    BY <2>1 DEF Init
  <2>3. first \in [Masters -> Int] /\ second \in [Masters -> Int]
    BY DEF Init
  <2> QED BY <1>1, <2>2, <2>3 DEF Init, TypeOK
<1>3. ~Ready
  BY <1>1 DEF Init, Ready
<1> QED BY <1>2, <1>3 DEF Init, IndInv, RangeInv, NotReadyInv, HandedInv, PairInv

\* A successful or failed compare-exchange on a viable range q of chunk c, seen
\* from the invariant: c leaves q's range and enters handed.
LEMMA TakeKeepsHanded ==
  ASSUME IndInv, Ready, NEW q \in Masters, NEW c \in Int,
         NEW f \in [Masters -> Int], NEW s \in [Masters -> Int],
         first[q] < second[q],
         \/ c = first[q] /\ f = [first EXCEPT ![q] = first[q] + 1] /\ s = second
         \/ c = second[q] - 1 /\ f = first /\ s = [second EXCEPT ![q] = second[q] - 1]
  PROVE  /\ c \notin handed
         /\ \A p \in Masters : Lo(p) <= f[p] /\ f[p] <= s[p] /\ s[p] <= Hi(p)
         /\ \A p \in Masters : \A d \in Int : Lo(p) <= d /\ d < Hi(p) =>
               (d \in handed \cup {c} <=> ~(f[p] <= d /\ d < s[p]))
<1>1. TypeOK /\ RangeInv /\ HandedInv
  BY DEF IndInv
<1>2. \A p \in Masters : /\ first[p] \in Int /\ second[p] \in Int
                         /\ Lo(p) \in Nat /\ Hi(p) \in Nat
                         /\ Lo(p) <= first[p] /\ first[p] <= second[p]
                         /\ second[p] <= Hi(p)
  BY <1>1, PartFacts DEF TypeOK, RangeInv, Ready
<1>3. Lo(q) <= c /\ c < Hi(q) /\ first[q] <= c /\ c < second[q]
  BY <1>2
<1>4. c \notin handed
  BY <1>1, <1>3 DEF HandedInv, Offers
<1>5. /\ \A p \in Masters \ {q} : f[p] = first[p] /\ s[p] = second[p]
      /\ f[q] \in {first[q], first[q] + 1} /\ s[q] \in {second[q], second[q] - 1}
      /\ f[q] <= s[q]
      /\ \A d \in Int : (f[q] <= d /\ d < s[q]) <=> (first[q] <= d /\ d < second[q] /\ d # c)
  <2>1. CASE c = first[q] /\ f = [first EXCEPT ![q] = first[q] + 1] /\ s = second
    <3>1. f[q] = first[q] + 1 /\ s[q] = second[q]
          /\ \A p \in Masters \ {q} : f[p] = first[p] /\ s[p] = second[p]
      BY <1>1, <2>1 DEF TypeOK
    <3> QED BY <1>2, <2>1, <3>1
  <2>2. CASE c = second[q] - 1 /\ f = first /\ s = [second EXCEPT ![q] = second[q] - 1]
    <3>1. f[q] = first[q] /\ s[q] = second[q] - 1
          /\ \A p \in Masters \ {q} : f[p] = first[p] /\ s[p] = second[p]
      BY <1>1, <2>2 DEF TypeOK
    <3> QED BY <1>2, <2>2, <3>1
  <2> QED BY <2>1, <2>2
<1>6. \A p \in Masters : Lo(p) <= f[p] /\ f[p] <= s[p] /\ s[p] <= Hi(p)
  BY <1>2, <1>5
<1>7. ASSUME NEW p \in Masters, NEW d \in Int, Lo(p) <= d, d < Hi(p)
      PROVE  d \in handed \cup {c} <=> ~(f[p] <= d /\ d < s[p])
  <2>1. d \in handed <=> ~(first[p] <= d /\ d < second[p])
    BY <1>1, <1>7 DEF HandedInv, Offers
  <2>2. CASE p = q
    BY <2>1, <2>2, <1>3, <1>4, <1>5
  <2>3. CASE p # q
    <3>1. Hi(p) <= Lo(q) \/ Hi(q) <= Lo(p)
      BY <2>3, RangesDisjoint
    <3>2. d # c
      BY <1>2, <1>3, <1>7, <3>1
    <3> QED BY <2>1, <2>3, <3>2, <1>5
  <2> QED BY <2>2, <2>3
<1> QED BY <1>4, <1>6, <1>7

\* Every step of every thread preserves the invariant.
LEMMA StepInd == IndInv /\ [Next]_vars => IndInv'
<1> SUFFICES ASSUME IndInv, [Next]_vars PROVE IndInv'
  OBVIOUS
<1>t. TypeOK /\ RangeInv /\ NotReadyInv /\ HandedInv /\ PairInv
  BY DEF IndInv
<1>l. Part \in Nat /\ \A p \in Masters : Lo(p) \in Nat /\ Hi(p) \in Nat
  BY PartFacts
<1>i. Invalid \in Int \X Int /\ Invalid[1] = -1
  BY DEF Invalid
<1>1. ASSUME NEW p \in Masters, SetFirst(p) PROVE IndInv'
  <2>1. /\ pc[p] = "setfirst" /\ pc'[p] = "setsecond" /\ first'[p] = Lo(p)
        /\ \A q \in Masters \ {p} : pc'[q] = pc[q] /\ first'[q] = first[q]
        /\ second' = second /\ handed' = handed /\ w' = w
    BY <1>1, <1>t DEF SetFirst, TypeOK, Lo
  <2>2. TypeOK'
    <3>1. first' \in [Masters -> Int]
      BY <1>1, <1>t, <1>l DEF SetFirst, TypeOK, Lo
    <3> QED BY <1>1, <1>t, <3>1 DEF SetFirst, TypeOK
  <2>3. ~Ready /\ ~Ready'
    BY <2>1 DEF Ready
  <2> QED BY <2>1, <2>2, <2>3, <1>t
          DEF IndInv, RangeInv, NotReadyInv, HandedInv, PairInv
<1>2. ASSUME NEW p \in Masters, SetSecond(p) PROVE IndInv'
  <2>1. /\ pc[p] = "setsecond" /\ pc'[p] = "meet" /\ second'[p] = Hi(p)
        /\ first[p] = Lo(p)
        /\ \A q \in Masters \ {p} : pc'[q] = pc[q] /\ second'[q] = second[q]
        /\ first' = first /\ handed' = handed /\ w' = w
    BY <1>2, <1>t DEF SetSecond, TypeOK, Hi, RangeInv
  <2>2. TypeOK'
    <3>1. second' \in [Masters -> Int]
      BY <1>2, <1>t, <1>l DEF SetSecond, TypeOK
    <3>2. steal' \in [Masters -> Masters]
      BY <1>2, <1>t, NextStealIsMaster DEF SetSecond, TypeOK
    <3> QED BY <1>2, <1>t, <3>1, <3>2 DEF SetSecond, TypeOK
  <2>3. ~Ready
    BY <2>1 DEF Ready
  <2>4. /\ handed = {}
        /\ \A q \in Masters : /\ pc'[q] \in {"setfirst", "setsecond", "meet"}
                              /\ pc'[q] = "meet" => first'[q] = Lo(q) /\ second'[q] = Hi(q)
    BY <2>1, <2>3, <1>t DEF NotReadyInv
  <2>5. RangeInv'
    <3>1. \A q \in Masters : Lo(q) <= Hi(q)
      BY <1>l DEF Hi
    <3>2. \A q \in Masters : pc'[q] = "setsecond" => first'[q] = Lo(q)
      BY <2>1, <1>t DEF RangeInv
    <3> QED BY <3>1, <3>2, <2>4, <1>l DEF RangeInv
  <2>6. NotReadyInv' /\ PairInv'
    BY <2>1, <2>4 DEF NotReadyInv, PairInv
  <2>7. HandedInv'
    <3> SUFFICES ASSUME Ready' PROVE HandedInv'
      BY DEF HandedInv
    <3>1. \A q \in Masters : first'[q] = Lo(q) /\ second'[q] = Hi(q)
      BY <2>4 DEF Ready
    <3> QED BY <3>1, <2>1, <2>4 DEF HandedInv, Offers
  <2> QED BY <2>2, <2>5, <2>6, <2>7 DEF IndInv
<1>3. ASSUME NEW p \in Masters, Meet(p) \/ Begin(p) \/ Leave(p) \/ Exec(p) PROVE IndInv'
  <2>1. /\ first' = first /\ second' = second /\ handed' = handed /\ steal' = steal
        /\ pc[p] \in {"meet", "begin", "leave", "exec"}
        /\ pc'[p] \in {"begin", "own", "steal", "leave", "done"}
        /\ \A q \in Masters \ {p} : pc'[q] = pc[q] /\ w'[q] = w[q]
        /\ w'[p] \in {w[p], Invalid}
        /\ pc'[p] \in {"own", "steal"} => w'[p] = Invalid
    BY <1>3, <1>t DEF Meet, Begin, Leave, Exec, TypeOK, NoOwnWork
  <2>2. Ready
    BY <1>3, <1>t, <2>1 DEF Meet, Begin, Leave, Exec, Ready, NotReadyInv
  <2>3. Ready'
    BY <2>1, <2>2 DEF Ready
  <2>4. TypeOK'
    <3>1. pc' \in [Masters -> {"setfirst", "setsecond", "meet", "begin", "own",
                               "steal", "exec", "leave", "done"}]
      BY <1>3, <1>t DEF Meet, Begin, Leave, Exec, TypeOK, NoOwnWork
    <3>2. w' \in [Masters -> Int \X Int]
      BY <1>3, <1>t, <1>i DEF Meet, Begin, Leave, Exec, TypeOK
    <3>3. runs' \in [Items -> Nat] /\ stray' \in BOOLEAN /\ region' = region
      <4>1. CASE Meet(p) \/ Begin(p) \/ Leave(p)
        BY <4>1, <1>t DEF Meet, Begin, Leave, TypeOK
      <4>2. CASE Exec(p)
        <5>1. PICK b \in ChunkBegin(w[p][1]) :
                /\ runs' = [x \in Items |->
                     IF b <= x /\ x < ChunkEnd(b) THEN runs[x] + 1 ELSE runs[x]]
                /\ stray' = (stray \/ b < 0)
          BY <4>2 DEF Exec
        <5>2. \A x \in Items : runs[x] \in Nat /\ runs[x] + 1 \in Nat
          BY <1>t DEF TypeOK
        <5>3. stray' \in BOOLEAN
          BY <5>1, <1>t DEF TypeOK
        <5>4. runs' \in [Items -> Nat]
          BY <5>1, <5>2
        <5> QED BY <4>2, <5>3, <5>4 DEF Exec
      <4> QED BY <1>3, <4>1, <4>2
    <3> QED BY <1>t, <2>1, <3>1, <3>2, <3>3 DEF TypeOK
  <2>5. RangeInv'
    BY <2>1, <2>2, <2>3, <1>t DEF RangeInv, Ready
  <2>6. NotReadyInv' /\ HandedInv' /\ PairInv'
    BY <2>1, <2>2, <2>3, <1>t DEF NotReadyInv, HandedInv, PairInv, Offers
  <2> QED BY <2>4, <2>5, <2>6 DEF IndInv
<1>4. ASSUME NEW p \in Masters, TakeOwn(p) \/ TakeOther(p) PROVE IndInv'
  <2> DEFINE q == IF pc[p] = "own" THEN p ELSE steal[p]
             old == <<first[q], second[q]>>
             c == IF pc[p] = "own" THEN first[q] ELSE second[q] - 1
  <2>1. /\ pc[p] \in {"own", "steal"} /\ q \in Masters
        /\ pc[p] = "own" => TakeOwn(p)
        /\ pc[p] = "steal" => TakeOther(p)
    BY <1>4, <1>t DEF TakeOwn, TakeOther, TypeOK
  <2>2. Ready /\ first[q] \in Int /\ second[q] \in Int /\ w[p] \in Int \X Int
        /\ 0 <= first[q] /\ c \in Int
    BY <2>1, <1>t, <1>l DEF Ready, NotReadyInv, TypeOK, RangeInv
  <2>3. \A r \in Masters \ {p} : pc'[r] = pc[r] /\ w'[r] = w[r]
    BY <2>1, <1>t DEF TakeOwn, TakeOther, TypeOK
  <2>4. runs' = runs /\ stray' = stray /\ region' = region
    BY <2>1 DEF TakeOwn, TakeOther
  <2>5. CASE first[q] < second[q] /\ old = w[p]
    <3>1. /\ pc'[p] = "exec" /\ handed' = handed \cup {c} /\ steal' = steal
          /\ pc' = [pc EXCEPT ![p] = "exec"]
      <4>1. CASE pc[p] = "own"
        <5>1. old[1] < old[2] /\ old = w[p] /\ c = old[1]
          BY <2>5, <4>1
        <5> QED BY <2>1, <4>1, <5>1, <1>t DEF TakeOwn, TypeOK
      <4>2. CASE pc[p] = "steal"
        <5>1. old[1] < old[2] /\ old = w[p] /\ c = StealIndex(old)
          BY <2>5, <4>2 DEF StealIndex
        <5> QED BY <2>1, <4>2, <5>1, <1>t DEF TakeOther, TypeOK
      <4> QED BY <2>1, <4>1, <4>2
    <3>2. \/ /\ c = first[q] /\ first' = [first EXCEPT ![q] = first[q] + 1]
             /\ second' = second
          \/ /\ c = second[q] - 1 /\ first' = first
             /\ second' = [second EXCEPT ![q] = second[q] - 1]
      <4>1. w[p][1] = first[q] /\ w[p][2] = second[q]
        BY <2>5
      <4>2. first = [first EXCEPT ![q] = first[q]] /\ second = [second EXCEPT ![q] = second[q]]
        BY <1>t DEF TypeOK
      <4>3. CASE pc[p] = "own"
        BY <2>1, <2>5, <4>1, <4>2, <4>3 DEF TakeOwn, Cas
      <4>4. CASE pc[p] = "steal"
        BY <2>1, <2>5, <4>1, <4>2, <4>4 DEF TakeOther, Cas
      <4> QED BY <2>1, <4>3, <4>4
    <3>3. first' \in [Masters -> Int] /\ second' \in [Masters -> Int]
      BY <2>2, <3>2, <1>t DEF TypeOK
    <3>4. /\ \A r \in Masters : Lo(r) <= first'[r] /\ first'[r] <= second'[r]
                                /\ second'[r] <= Hi(r)
          /\ \A r \in Masters : \A d \in Int : Lo(r) <= d /\ d < Hi(r) =>
                (d \in handed \cup {c} <=> ~(first'[r] <= d /\ d < second'[r]))
      BY <2>1, <2>2, <2>5, <3>2, <3>3, TakeKeepsHanded
    <3>5. w'[p] \in Int \X Int
      <4>1. CASE pc[p] = "own"
        BY <2>1, <2>2, <2>5, <4>1, <1>t DEF TakeOwn, TypeOK
      <4>2. CASE pc[p] = "steal"
        BY <2>1, <2>2, <2>5, <4>2, <1>t DEF TakeOther, TypeOK, StealIndex
      <4> QED BY <2>1, <4>1, <4>2
    <3>6. w' \in [Masters -> Int \X Int]
      BY <2>1, <2>3, <3>5, <1>t DEF TakeOwn, TakeOther, TypeOK
    <3>7. TypeOK'
      BY <1>t, <2>2, <2>4, <3>1, <3>3, <3>6 DEF TypeOK
    <3>8. Ready'
      BY <2>2, <2>3, <3>1 DEF Ready
    <3>9. RangeInv'
      BY <3>4, <3>8 DEF RangeInv, Ready
    <3>10. HandedInv'
      BY <3>1, <3>4 DEF HandedInv, Offers
    <3>11. NotReadyInv' /\ PairInv'
      BY <1>t, <2>3, <3>1, <3>8 DEF NotReadyInv, PairInv
    <3> QED BY <3>7, <3>9, <3>10, <3>11 DEF IndInv
  <2>6. CASE ~(first[q] < second[q] /\ old = w[p])
    <3>1. old # w[p]
      <4> SUFFICES ASSUME old = w[p], first[q] >= second[q] PROVE FALSE
        BY <2>2, <2>6
      <4>1. w[p][1] = first[q] /\ w[p][2] = second[q]
        OBVIOUS
      <4>2. w[p] = Invalid \/ w[p][1] < w[p][2]
        BY <2>1, <1>t DEF PairInv
      <4> QED BY <2>2, <4>1, <4>2, <1>i
    <3>2. first' = first /\ second' = second
      BY <2>1, <3>1 DEF TakeOwn, TakeOther, Cas
    <3>3. /\ handed' = handed /\ pc'[p] \in {"own", "steal", "leave"}
          /\ w'[p] = Invalid \/ (w'[p] = old /\ first[q] < second[q])
          /\ pc' \in [Masters -> {"setfirst", "setsecond", "meet", "begin", "own",
                                  "steal", "exec", "leave", "done"}]
      BY <2>1, <2>2, <3>1, <1>t DEF TakeOwn, TakeOther, NoOwnWork, TypeOK
    <3>4. w' \in [Masters -> Int \X Int]
      <4>1. w'[p] \in Int \X Int
        BY <2>2, <3>3, <1>i
      <4> QED BY <2>1, <2>3, <4>1, <1>t DEF TakeOwn, TakeOther, TypeOK
    <3>5. steal' \in [Masters -> Masters]
      BY <2>1, <1>t, NextStealIsMaster DEF TakeOwn, TakeOther, TypeOK
    <3>6. TypeOK'
      BY <1>t, <2>4, <3>2, <3>3, <3>4, <3>5 DEF TypeOK
    <3>7. Ready'
      BY <2>2, <2>3, <3>3 DEF Ready
    <3>8. RangeInv'
      BY <1>t, <2>2, <3>2, <3>7 DEF RangeInv, Ready
    <3>9. HandedInv' /\ NotReadyInv'
      BY <1>t, <2>2, <3>2, <3>3, <3>7 DEF HandedInv, NotReadyInv, Offers
    <3>10. PairInv'
      BY <1>t, <2>2, <2>3, <3>3 DEF PairInv
    <3> QED BY <3>6, <3>8, <3>9, <3>10 DEF IndInv
  <2> QED BY <2>5, <2>6
<1>5. ASSUME NextRegion PROVE IndInv'
  <2>1. Masters # {}
    <3>1. Alloc * 0 = 0 /\ 0 + TeamSize <= PoolSize
      BY LayoutFacts, TeamAssumption, PoolAssumption
    <3> QED BY <3>1, MultipleIsMaster
  <2>2. TypeOK'
    BY <1>5, <1>t DEF NextRegion, TypeOK
  <2>3. ~Ready'
    BY <1>5, <2>1 DEF NextRegion, Ready
  <2> QED BY <1>5, <2>2, <2>3
          DEF NextRegion, IndInv, RangeInv, NotReadyInv, HandedInv, PairInv
<1>6. CASE Finished \/ UNCHANGED vars
  BY <1>6, <1>t DEF Finished, vars, IndInv, TypeOK, RangeInv, NotReadyInv,
                    HandedInv, PairInv, Ready, Offers
<1> QED BY <1>1, <1>2, <1>3, <1>4, <1>5, <1>6 DEF Next, Step

\* The inductive invariant holds for ever.
LEMMA IndInvariant == Spec => []IndInv
  BY InitInd, StepInd, PTL DEF Spec

\* The work ranges keep their types, and stealing only ever visits team masters.
THEOREM StealingTypeCorrect == Spec => []TypeOK
  BY IndInvariant, PTL DEF IndInv

\* Whatever the interleaving of owners and thieves, no chunk is lost and none is
\* in two ranges or handed out while still offered.
THEOREM StealingConservesChunks == Spec => []ChunksConserved
<1>1. IndInv => ChunksConserved
  <2> SUFFICES ASSUME IndInv, Ready, NEW c \in AllChunks
               PROVE  /\ c \in handed => \A p \in Masters : ~Offers(p, c)
                      /\ c \notin handed => \E p \in Masters : Offers(p, c)
                      /\ \A p, q \in Masters : Offers(p, c) /\ Offers(q, c) => p = q
    BY DEF ChunksConserved
  <2>1. c \in Int
    BY DEF AllChunks
  <2>2. \A p \in Masters : /\ first[p] \in Int /\ second[p] \in Int
                           /\ Lo(p) \in Nat /\ Hi(p) \in Nat
                           /\ Lo(p) <= first[p] /\ second[p] <= Hi(p)
    BY PartFacts DEF IndInv, TypeOK, RangeInv, Ready
  <2>3. \A p \in Masters : Offers(p, c) => Lo(p) <= c /\ c < Hi(p)
    BY <2>1, <2>2 DEF Offers
  <2>4. \A p \in Masters : Lo(p) <= c /\ c < Hi(p) => (c \in handed <=> ~Offers(p, c))
    BY <2>1 DEF IndInv, HandedInv
  <2>5. c \in handed => \A p \in Masters : ~Offers(p, c)
    BY <2>3, <2>4
  <2>6. c \notin handed => \E p \in Masters : Offers(p, c)
    BY <2>4, RangesCover
  <2>7. ASSUME NEW p \in Masters, NEW q \in Masters, Offers(p, c), Offers(q, c), p # q
        PROVE  FALSE
    BY <2>1, <2>2, <2>3, <2>7, RangesDisjoint
  <2> QED BY <2>5, <2>6, <2>7
<1> QED BY <1>1, IndInvariant, PTL

\* Every chunk that get_work_stealing returns is one it never returned before.
THEOREM StealingHandsOutFresh == Spec => HandsOutFreshChunks
<1> DEFINE Fresh == \A p \in Masters :
                       (pc[p] # "exec" /\ pc'[p] = "exec") => handed' # handed
<1>1. ASSUME IndInv, [Next]_vars PROVE [Fresh]_vars
  <2> SUFFICES ASSUME NEW p \in Masters, pc[p] # "exec", pc'[p] = "exec"
               PROVE  handed' # handed
    OBVIOUS
  <2>t. TypeOK /\ RangeInv /\ NotReadyInv /\ HandedInv
    BY <1>1 DEF IndInv
  <2>1. TakeOwn(p) \/ TakeOther(p)
    <3>1. ASSUME NEW r \in Masters, SetFirst(r) \/ SetSecond(r) \/ Meet(r) \/ Leave(r)
          PROVE  FALSE
      BY <3>1, <2>t DEF SetFirst, SetSecond, Meet, Leave, TypeOK
    <3>2. ASSUME NEW r \in Masters, Begin(r) PROVE FALSE
      BY <3>2, <2>t DEF Begin, NoOwnWork, TypeOK
    <3>3. ASSUME NEW r \in Masters, Exec(r) PROVE FALSE
      BY <3>3, <2>t DEF Exec, TypeOK
    <3>4. ASSUME NEW r \in Masters, TakeOwn(r) \/ TakeOther(r), r # p PROVE FALSE
      BY <3>4, <2>t DEF TakeOwn, TakeOther, TypeOK
    <3>5. CASE NextRegion \/ Finished \/ UNCHANGED vars
      BY <3>5 DEF NextRegion, Finished, vars
    <3> QED BY <1>1, <3>1, <3>2, <3>3, <3>4, <3>5 DEF Next, Step
  <2>2. Ready
    BY <2>1, <2>t DEF TakeOwn, TakeOther, NotReadyInv
  <2> DEFINE q == IF pc[p] = "own" THEN p ELSE steal[p]
             c == IF pc[p] = "own" THEN first[q] ELSE second[q] - 1
  <2>3. q \in Masters /\ first[q] \in Int /\ second[q] \in Int /\ c \in Int
    BY <2>t DEF TypeOK
  <2>4. first[q] < second[q] /\ handed' = handed \cup {c}
    <3>1. CASE TakeOwn(p)
      BY <3>1, <2>t, <2>3 DEF TakeOwn, NoOwnWork, TypeOK
    <3>2. CASE TakeOther(p)
      BY <3>2, <2>t, <2>3 DEF TakeOther, StealIndex, TypeOK
    <3> QED BY <2>1, <3>1, <3>2
  <2>5. Offers(q, c) /\ Lo(q) <= c /\ c < Hi(q)
    <3>1. Lo(q) \in Nat /\ Hi(q) \in Nat /\ Lo(q) <= first[q] /\ second[q] <= Hi(q)
      BY <2>2, <2>3, <2>t, PartFacts DEF RangeInv, Ready
    <3> QED BY <2>3, <2>4, <3>1 DEF Offers
  <2>6. c \notin handed
    BY <2>2, <2>3, <2>5, <2>t DEF HandedInv
  <2> QED BY <2>4, <2>6
<1> QED BY <1>1, IndInvariant, PTL DEF Spec, HandsOutFreshChunks

-----------------------------------------------------------------------------
\* What get_work_stealing_chunk needs: the first item of every chunk that was
\* distributed is an int.
NoOverflow == \A c \in AllChunks : WorkChunk * c <= IntMax

\* Item x is in chunk c.
InChunk(c, x) == WorkChunk * c <= x /\ x < WorkChunk * c + WorkChunk

\* p is between get_work_stealing's return of chunk c and the end of exec_range.
Executing(p, c) == pc[p] = "exec" /\ w[p][1] = c

\* The chunks that were handed out and whose exec_range is over.
Executed(c) == c \in handed /\ \A p \in Masters : ~Executing(p, c)

\* Only distributed chunks are handed out, and nobody holds another's chunk.
HolderInv ==
    /\ handed \subseteq AllChunks
    /\ \A p \in Masters : pc[p] = "exec" => w[p][1] \in handed
    /\ \A p, q \in Masters : pc[p] = "exec" /\ Executing(q, w[p][1]) => p = q

\* An item ran once if its chunk was executed, and did not run otherwise.
RunsInv ==
    \A x \in Items : \A c \in Nat :
        InChunk(c, x) => runs[x] = IF Executed(c) THEN 1 ELSE 0

\* Who looks at other ranges, or stops looking, has an empty range.
EmptyInv ==
    \A p \in Masters : pc[p] \in {"steal", "leave", "done"} => second[p] <= first[p]

\* Before the first thread passes the rendezvous, every range is the partition.
MeetInv ==
    (\A p \in Masters : pc[p] = "meet") =>
        \A p \in Masters : first[p] = Lo(p) /\ second[p] = Hi(p)

OnceInv == ~stray /\ HolderInv /\ RunsInv /\ EmptyInv /\ MeetInv

\* The granularity is positive, and the distributed chunks cover the range.
LEMMA ChunkFacts ==
  /\ WorkChunk \in Nat \ {0} /\ Num \in Nat /\ Length \in Nat
  /\ Length <= WorkChunk * Num /\ Num <= Part * LeagueSize
<1>1. ChunkMin \in Nat /\ Length \in Nat
  BY LengthAssumption, IntMaxAssumption, DivFacts DEF ChunkMin
<1>2. WorkChunk \in Nat \ {0}
  BY <1>1, ChunkAssumption DEF WorkChunk
<1>3. Length + WorkChunk - 1 \in Nat
  BY <1>1, <1>2
<1>4. Num \in Nat /\ Length + WorkChunk - 1 < WorkChunk * Num + WorkChunk
  BY <1>2, <1>3, DivFacts DEF Num
<1>5. WorkChunk * Num \in Nat
  BY <1>2, <1>4, MulSucc
<1>6. Length <= WorkChunk * Num
  BY <1>1, <1>2, <1>4, <1>5
<1>7. LeagueSize \in Nat \ {0} /\ Num + LeagueSize - 1 \in Nat
  BY <1>4, LayoutFacts
<1>8. Part \in Nat /\ Num + LeagueSize - 1 < LeagueSize * Part + LeagueSize
  BY <1>7, DivFacts DEF Part
<1>9. LeagueSize * Part \in Nat /\ LeagueSize * Part = Part * LeagueSize
  BY <1>7, <1>8, MulSucc
<1>10. Num <= Part * LeagueSize
  BY <1>4, <1>7, <1>8, <1>9
<1> QED BY <1>1, <1>2, <1>4, <1>6, <1>10

\* A partition is a part of the distributed chunks.
LEMMA HiBound ==
  ASSUME NEW p \in Masters
  PROVE  Hi(p) <= Part * LeagueSize
<1>1. /\ p \in Nat /\ LeagueRank(p) \in Nat /\ p = Alloc * LeagueRank(p)
      /\ p + TeamSize <= PoolSize
  BY MasterFacts
<1>2. /\ LeagueSize \in Nat \ {0} /\ Alloc \in Nat /\ TeamSize <= Alloc
      /\ TeamSize \in Nat \ {0} /\ PoolSize \in Nat /\ Part \in Nat
  BY LayoutFacts, PartFacts, PoolAssumption, TeamAssumption
<1>3. PoolSize < TeamSize * LeagueSize + TeamSize
  BY <1>2, DivFacts DEF LeagueSize
<1>4. LeagueRank(p) + 1 <= LeagueSize
  <2> SUFFICES ASSUME LeagueSize <= LeagueRank(p) PROVE FALSE
    BY <1>1, <1>2
  <2>1. Alloc * LeagueSize \in Nat /\ Alloc * LeagueSize <= p
    BY <1>1, <1>2, MulMono
  <2>2. LeagueSize * TeamSize \in Nat /\ LeagueSize * TeamSize <= LeagueSize * Alloc
    BY <1>2, MulMono
  <2>3. LeagueSize * TeamSize = TeamSize * LeagueSize
        /\ LeagueSize * Alloc = Alloc * LeagueSize
    BY <1>2
  <2> QED BY <1>1, <1>2, <1>3, <2>1, <2>2, <2>3
<1>5. Part * (LeagueRank(p) + 1) <= Part * LeagueSize
  BY <1>1, <1>2, <1>4, MulMono
<1>6. Part * (LeagueRank(p) + 1) = Part * LeagueRank(p) + Part
  BY <1>1, <1>2, MulSucc
<1> QED BY <1>5, <1>6 DEF Hi, Lo

\* Every item is in a distributed chunk.
LEMMA HasChunk ==
  ASSUME NEW x \in Items
  PROVE  \E c \in AllChunks : InChunk(c, x)
<1>1. /\ WorkChunk \in Nat \ {0} /\ Num \in Nat /\ Length \in Nat
      /\ Length <= WorkChunk * Num /\ Num <= Part * LeagueSize
  BY ChunkFacts
<1>2. x \in Nat /\ x < Length
  BY <1>1 DEF Items
<1>3. PICK c \in Nat : WorkChunk * c <= x /\ x < WorkChunk * c + WorkChunk
  BY <1>1, <1>2, DivFacts
<1>4. c < Num
  <2> SUFFICES ASSUME Num <= c PROVE FALSE
    BY <1>1
  <2>1. WorkChunk * Num \in Nat /\ WorkChunk * c \in Nat /\ WorkChunk * Num <= WorkChunk * c
    BY <1>1, MulMono
  <2> QED BY <1>1, <1>2, <1>3, <2>1
<1>5. Part * LeagueSize \in Nat
  BY PartFacts, LayoutFacts, MulSucc
<1>6. c \in AllChunks
  BY <1>1, <1>4, <1>5 DEF AllChunks
<1> QED BY <1>3, <1>6 DEF InChunk

\* No item is in two chunks.
LEMMA OneChunk ==
  ASSUME NEW x \in Items, NEW c \in Nat, NEW d \in Nat, InChunk(c, x), InChunk(d, x)
  PROVE  c = d
<1>1. WorkChunk \in Nat \ {0} /\ x \in Int
  BY ChunkFacts DEF Items
<1>2. ASSUME NEW a \in Nat, NEW b \in Nat, a < b, InChunk(a, x), InChunk(b, x)
      PROVE  FALSE
  <2>1. WorkChunk * (a + 1) <= WorkChunk * b /\ WorkChunk * b \in Nat
    BY <1>1, <1>2, MulMono
  <2>2. WorkChunk * (a + 1) = WorkChunk * a + WorkChunk /\ WorkChunk * a \in Nat
    BY <1>1, MulSucc
  <2>3. WorkChunk * b <= x /\ x < WorkChunk * a + WorkChunk
    BY <1>2 DEF InChunk
  <2> QED BY <1>1, <2>1, <2>2, <2>3
<1>3. ~(c < d) /\ ~(d < c)
  BY <1>2
<1> QED BY <1>3

\* Without overflow the multiplication has one result, and exec_range runs the
\* items of the chunk.
LEMMA ChunkBeginFits ==
  ASSUME NoOverflow, NEW c \in AllChunks, NEW b \in ChunkBegin(c)
  PROVE  b \in Nat /\ \A x \in Items : (b <= x /\ x < ChunkEnd(b)) <=> InChunk(c, x)
<1>1. WorkChunk \in Nat \ {0} /\ c \in Nat /\ IntMax \in Nat \ {0} /\ Length \in Nat
  BY ChunkFacts, IntMaxAssumption DEF AllChunks
<1>2. PICK wide \in Nat : wide = WorkChunk * c
  BY <1>1, MulSucc
<1>3. wide <= IntMax
  BY <1>2 DEF NoOverflow
<1>4. ASSUME NEW m \in Nat, NEW n \in Nat \ {0}, m < n PROVE m % n = m
  BY <1>4, Z3
<1>5. (wide + IntMax + 1) % (2 * (IntMax + 1)) = wide + IntMax + 1
  <2>1. wide + IntMax + 1 \in Nat /\ 2 * (IntMax + 1) \in Nat \ {0}
        /\ wide + IntMax + 1 < 2 * (IntMax + 1)
    BY <1>1, <1>3
  <2> QED BY <1>4, <2>1
<1>6. b = wide
  <2>1. b = wide \/ b = ((wide + IntMax + 1) % (2 * (IntMax + 1))) - (IntMax + 1)
    BY <1>2 DEF ChunkBegin
  <2> QED BY <1>1, <1>5, <2>1
<1>7. ASSUME NEW x \in Items
      PROVE  (b <= x /\ x < ChunkEnd(b)) <=> InChunk(c, x)
  <2>1. x \in Int /\ x < Length
    BY <1>1 DEF Items
  <2> QED BY <1>1, <1>2, <1>6, <2>1 DEF ChunkEnd, InChunk
<1> QED BY <1>6, <1>7

\* At the start nothing was handed out and nothing ran.
LEMMA InitOnce == Init => OnceInv
<1> SUFFICES ASSUME Init PROVE OnceInv
  OBVIOUS
<1>1. ~stray /\ handed = {} /\ \A x \in Items : runs[x] = 0
  BY DEF Init
<1>2. \A p \in Masters : pc[p] = "setfirst"
  BY DEF Init
<1>3. 0 \in Masters
  <2>1. Alloc * 0 = 0 /\ 0 + TeamSize <= PoolSize
    BY LayoutFacts, TeamAssumption, PoolAssumption
  <2> QED BY <2>1, MultipleIsMaster
<1>4. HolderInv /\ EmptyInv /\ MeetInv
  BY <1>1, <1>2, <1>3 DEF HolderInv, EmptyInv, MeetInv
<1>5. RunsInv
  BY <1>1 DEF RunsInv, Executed
<1> QED BY <1>1, <1>4, <1>5 DEF OnceInv

\* A step that hands nothing out and ends no exec_range keeps the accounts.
LEMMA QuietStep ==
  ASSUME HolderInv, RunsInv, handed' = handed, runs' = runs,
         \A q \in Masters : /\ pc'[q] = "exec" <=> pc[q] = "exec"
                            /\ pc[q] = "exec" => w'[q] = w[q]
  PROVE  HolderInv' /\ RunsInv'
<1>1. \A q \in Masters : \A c : Executing(q, c)' <=> Executing(q, c)
  BY DEF Executing
<1>2. HolderInv'
  BY DEF HolderInv, Executing
<1>3. \A c : Executed(c)' <=> Executed(c)
  BY <1>1 DEF Executed
<1>4. RunsInv'
  BY <1>3 DEF RunsInv, InChunk
<1> QED BY <1>2, <1>4

\* What a compare-exchange does: it takes a chunk out of one range, or nothing.
LEMMA TakeCases ==
  ASSUME IndInv, NEW p \in Masters, TakeOwn(p) \/ TakeOther(p)
  PROVE  /\ Ready /\ pc[p] \in {"own", "steal"}
         /\ runs' = runs /\ stray' = stray
         /\ \A r \in Masters \ {p} : pc'[r] = pc[r] /\ w'[r] = w[r]
         /\ \/ \E q \in Masters : \E c \in Int :
                  /\ first[q] < second[q] /\ Offers(q, c)
                  /\ handed' = handed \cup {c}
                  /\ pc'[p] = "exec" /\ w'[p][1] = c
                  /\ \A r \in Masters \ {q} : first'[r] = first[r] /\ second'[r] = second[r]
            \/ /\ first' = first /\ second' = second /\ handed' = handed
               /\ pc'[p] \in {"own", "steal", "leave"}
               /\ pc[p] = "own" /\ pc'[p] # "own" => second[p] <= first[p]
<1>t. TypeOK /\ RangeInv /\ NotReadyInv /\ HandedInv /\ PairInv
  BY DEF IndInv
<1>l. \A r \in Masters : Lo(r) \in Nat /\ Hi(r) \in Nat
  BY PartFacts
<1>1. PICK q \in Masters : q = IF pc[p] = "own" THEN p ELSE steal[p]
  BY <1>t DEF TypeOK
<1>2. /\ pc[p] \in {"own", "steal"}
      /\ pc[p] = "own" => TakeOwn(p) /\ q = p
      /\ pc[p] = "steal" => TakeOther(p) /\ q = steal[p]
  BY <1>1 DEF TakeOwn, TakeOther
<1>3. Ready /\ first[q] \in Int /\ second[q] \in Int /\ w[p] \in Int \X Int
      /\ 0 <= first[q]
  BY <1>2, <1>t, <1>l DEF Ready, NotReadyInv, TypeOK, RangeInv
<1>4. /\ runs' = runs /\ stray' = stray
      /\ \A r \in Masters \ {p} : pc'[r] = pc[r] /\ w'[r] = w[r]
  BY <1>2, <1>t DEF TakeOwn, TakeOther, TypeOK
<1>5. PICK old : old = <<first[q], second[q]>>
  OBVIOUS
<1>6. CASE first[q] < second[q] /\ old = w[p]
  <2>1. PICK c \in Int : c = IF pc[p] = "own" THEN first[q] ELSE second[q] - 1
    BY <1>3
  <2>2. Offers(q, c)
    BY <1>3, <1>6, <2>1 DEF Offers
  <2>3. old[1] < old[2] /\ old[1] = first[q] /\ old[2] = second[q]
    BY <1>5, <1>6
  <2>4. handed' = handed \cup {c} /\ pc'[p] = "exec" /\ w'[p][1] = c
    <3>1. CASE pc[p] = "own"
      BY <1>2, <1>3, <1>5, <1>6, <2>1, <2>3, <3>1, <1>t DEF TakeOwn, TypeOK
    <3>2. CASE pc[p] = "steal"
      BY <1>2, <1>3, <1>5, <1>6, <2>1, <2>3, <3>2, <1>t DEF TakeOther, StealIndex, TypeOK
    <3> QED BY <1>2, <3>1, <3>2
  <2>5. \A r \in Masters \ {q} : first'[r] = first[r] /\ second'[r] = second[r]
    BY <1>2, <1>5, <1>6, <1>t DEF TakeOwn, TakeOther, Cas, TypeOK
  <2> QED BY <1>2, <1>3, <1>4, <1>6, <2>2, <2>4, <2>5
<1>7. CASE ~(first[q] < second[q] /\ old = w[p])
  <2>1. old # w[p]
    <3> SUFFICES ASSUME old = w[p], first[q] >= second[q] PROVE FALSE
      BY <1>3, <1>7
    <3>1. w[p][1] = first[q] /\ w[p][2] = second[q]
      BY <1>5
    <3>2. w[p] = Invalid \/ w[p][1] < w[p][2]
      BY <1>2, <1>t DEF PairInv
    <3>3. Invalid[1] = -1
      BY DEF Invalid
    <3> QED BY <1>3, <3>1, <3>2, <3>3
  <2>2. first' = first /\ second' = second
    BY <1>2, <1>5, <2>1 DEF TakeOwn, TakeOther, Cas
  <2>3. /\ handed' = handed /\ pc'[p] \in {"own", "steal", "leave"}
        /\ pc[p] = "own" /\ pc'[p] # "own" => second[p] <= first[p]
    BY <1>2, <1>3, <1>5, <2>1, <1>t DEF TakeOwn, TakeOther, NoOwnWork, TypeOK
  <2> QED BY <1>2, <1>3, <1>4, <2>2, <2>3
<1> QED BY <1>6, <1>7

\* Every step of every thread keeps the accounts of chunks and items.
LEMMA StepOnce ==
  ASSUME NoOverflow, IndInv, OnceInv, [Next]_vars
  PROVE  OnceInv'
<1>t. /\ TypeOK /\ RangeInv /\ NotReadyInv /\ HandedInv
      /\ ~stray /\ HolderInv /\ RunsInv /\ EmptyInv /\ MeetInv
  BY DEF IndInv, OnceInv
<1>n. \A p \in Masters : first[p] \in Int /\ second[p] \in Int
  BY <1>t DEF TypeOK
<1>1. ASSUME NEW p \in Masters, SetFirst(p) PROVE OnceInv'
  <2>1. /\ pc[p] = "setfirst" /\ pc'[p] = "setsecond"
        /\ \A q \in Masters \ {p} : pc'[q] = pc[q] /\ first'[q] = first[q]
        /\ second' = second /\ handed' = handed /\ w' = w
        /\ runs' = runs /\ stray' = stray
    BY <1>1, <1>t DEF SetFirst, TypeOK
  <2>2. HolderInv' /\ RunsInv'
    BY <2>1, <1>t, QuietStep
  <2>3. EmptyInv' /\ MeetInv'
    BY <2>1, <1>t DEF EmptyInv, MeetInv
  <2> QED BY <2>1, <2>2, <2>3, <1>t DEF OnceInv
<1>2. ASSUME NEW p \in Masters, SetSecond(p) PROVE OnceInv'
  <2>1. /\ pc[p] = "setsecond" /\ pc'[p] = "meet"
        /\ first[p] = Lo(p) /\ second'[p] = Hi(p)
        /\ \A q \in Masters \ {p} : pc'[q] = pc[q] /\ second'[q] = second[q]
        /\ first' = first /\ handed' = handed /\ w' = w
        /\ runs' = runs /\ stray' = stray
    BY <1>2, <1>t DEF SetSecond, TypeOK, Hi, RangeInv
  <2>2. HolderInv' /\ RunsInv'
    BY <2>1, <1>t, QuietStep
  <2>3. ~Ready
    BY <2>1 DEF Ready
  <2>4. MeetInv'
    BY <2>1, <2>3, <1>t DEF MeetInv, NotReadyInv
  <2>5. EmptyInv'
    BY <2>1, <1>t DEF EmptyInv
  <2> QED BY <2>1, <2>2, <2>4, <2>5, <1>t DEF OnceInv
<1>3. ASSUME NEW p \in Masters, Meet(p) \/ Begin(p) \/ Leave(p) PROVE OnceInv'
  <2>1. /\ first' = first /\ second' = second /\ handed' = handed
        /\ runs' = runs /\ stray' = stray
        /\ pc[p] \in {"meet", "begin", "leave"}
        /\ pc'[p] \in {"begin", "own", "steal", "leave", "done"}
        /\ \A q \in Masters \ {p} : pc'[q] = pc[q] /\ w'[q] = w[q]
    BY <1>3, <1>t DEF Meet, Begin, Leave, TypeOK, NoOwnWork
  <2>2. HolderInv' /\ RunsInv'
    BY <2>1, <1>t, QuietStep
  <2>3. pc'[p] \in {"steal", "leave", "done"} => second[p] <= first[p]
    BY <1>3, <1>t, <1>n DEF Meet, Begin, Leave, TypeOK, EmptyInv
  <2>4. EmptyInv' /\ MeetInv'
    BY <2>1, <2>3, <1>t DEF EmptyInv, MeetInv
  <2> QED BY <2>1, <2>2, <2>4, <1>t DEF OnceInv
<1>4. ASSUME NEW p \in Masters, TakeOwn(p) \/ TakeOther(p) PROVE OnceInv'
  <2>1. /\ Ready /\ pc[p] \in {"own", "steal"}
        /\ runs' = runs /\ stray' = stray
        /\ \A r \in Masters \ {p} : pc'[r] = pc[r] /\ w'[r] = w[r]
    BY <1>4, TakeCases
  <2>2. CASE /\ first' = first /\ second' = second /\ handed' = handed
             /\ pc'[p] \in {"own", "steal", "leave"}
             /\ pc[p] = "own" /\ pc'[p] # "own" => second[p] <= first[p]
    <3>1. HolderInv' /\ RunsInv'
      BY <2>1, <2>2, <1>t, QuietStep
    <3>2. EmptyInv' /\ MeetInv'
      BY <2>1, <2>2, <1>t DEF EmptyInv, MeetInv
    <3> QED BY <2>1, <3>1, <3>2, <1>t DEF OnceInv
  <2>3. ASSUME NEW q \in Masters, NEW c \in Int,
               first[q] < second[q], Offers(q, c), handed' = handed \cup {c},
               pc'[p] = "exec", w'[p][1] = c,
               \A r \in Masters \ {q} : first'[r] = first[r] /\ second'[r] = second[r]
        PROVE  OnceInv'
    <3>1. /\ Lo(q) \in Nat /\ Hi(q) \in Nat /\ Hi(q) <= Part * LeagueSize
          /\ Part * LeagueSize \in Nat
      BY PartFacts, HiBound, LayoutFacts, MulSucc
    <3>2. Lo(q) <= c /\ c < Hi(q)
      BY <2>1, <2>3, <3>1, <1>n, <1>t DEF RangeInv, Ready, Offers
    <3>3. c \in AllChunks /\ c \notin handed
      BY <2>1, <2>3, <3>1, <3>2, <1>t DEF AllChunks, HandedInv
    <3>4. HolderInv'
      BY <2>1, <2>3, <3>3, <1>t DEF HolderInv, Executing
    <3>5. \A d : Executed(d)' <=> Executed(d)
      <4>1. ASSUME NEW d PROVE Executed(d)' <=> Executed(d)
        <5>1. CASE d = c
          BY <5>1, <2>1, <2>3, <3>3 DEF Executed, Executing
        <5>2. CASE d # c
          BY <5>2, <2>1, <2>3 DEF Executed, Executing
        <5> QED BY <5>1, <5>2
      <4> QED BY <4>1
    <3>6. RunsInv'
      BY <2>1, <3>5, <1>t DEF RunsInv, InChunk
    <3>7. EmptyInv'
      <4>1. pc'[q] \notin {"steal", "leave", "done"}
        BY <2>1, <2>3, <1>n, <1>t DEF EmptyInv
      <4> QED BY <2>1, <2>3, <4>1, <1>t DEF EmptyInv
    <3>8. MeetInv'
      BY <2>3 DEF MeetInv
    <3> QED BY <2>1, <3>4, <3>6, <3>7, <3>8, <1>t DEF OnceInv
  <2> QED BY <1>4, <2>2, <2>3, TakeCases
<1>5. ASSUME NEW p \in Masters, Exec(p) PROVE OnceInv'
  <2>1. PICK c \in AllChunks : c = w[p][1] /\ c \in handed /\ pc[p] = "exec"
    BY <1>5, <1>t DEF Exec, HolderInv
  <2>2. PICK b \in ChunkBegin(c) :
          /\ runs' = [x \in Items |->
                        IF b <= x /\ x < ChunkEnd(b) THEN runs[x] + 1 ELSE runs[x]]
          /\ stray' = (stray \/ b < 0)
          /\ pc' = [pc EXCEPT ![p] = IF b >= 0 THEN "begin" ELSE "done"]
    BY <1>5, <2>1 DEF Exec
  <2>3. b \in Nat /\ \A x \in Items : (b <= x /\ x < ChunkEnd(b)) <=> InChunk(c, x)
    BY ChunkBeginFits
  <2>4. /\ ~stray' /\ pc'[p] = "begin"
        /\ \A q \in Masters \ {p} : pc'[q] = pc[q]
        /\ first' = first /\ second' = second /\ w' = w /\ handed' = handed
    BY <1>5, <2>2, <2>3, <1>t DEF Exec, TypeOK
  <2>5. HolderInv'
    BY <2>4, <1>t DEF HolderInv, Executing
  <2>6. ~Executed(c) /\ Executed(c)'
    BY <2>1, <2>4, <1>t DEF Executed, Executing, HolderInv
  <2>7. \A d : d # c => (Executed(d)' <=> Executed(d))
    BY <2>1, <2>4 DEF Executed, Executing
  <2>8. ASSUME NEW x \in Items, NEW d \in Nat, InChunk(d, x)
        PROVE  runs'[x] = IF Executed(d)' THEN 1 ELSE 0
    <3>1. c \in Nat
      BY PartFacts, LayoutFacts DEF AllChunks
    <3>2. runs'[x] = IF InChunk(c, x) THEN runs[x] + 1 ELSE runs[x]
      BY <2>2, <2>3
    <3>3. runs[x] = IF Executed(d) THEN 1 ELSE 0
      BY <2>8, <1>t DEF RunsInv
    <3>4. CASE d = c
      BY <2>6, <2>8, <3>2, <3>3, <3>4
    <3>5. CASE d # c
      BY <2>7, <2>8, <3>1, <3>2, <3>3, <3>5, OneChunk
    <3> QED BY <3>4, <3>5
  <2>9. RunsInv'
    BY <2>8 DEF RunsInv, InChunk
  <2>10. EmptyInv' /\ MeetInv'
    BY <2>4, <1>t DEF EmptyInv, MeetInv
  <2> QED BY <2>4, <2>5, <2>9, <2>10 DEF OnceInv
<1>6. ASSUME NextRegion PROVE OnceInv'
  <2>1. /\ \A p \in Masters : pc'[p] = "setfirst"
        /\ handed' = {} /\ stray' = stray /\ \A x \in Items : runs'[x] = 0
    BY <1>6 DEF NextRegion
  <2>2. Masters # {}
    <3>1. Alloc * 0 = 0 /\ 0 + TeamSize <= PoolSize
      BY LayoutFacts, TeamAssumption, PoolAssumption
    <3> QED BY <3>1, MultipleIsMaster
  <2>3. HolderInv' /\ EmptyInv' /\ MeetInv'
    BY <2>1, <2>2 DEF HolderInv, EmptyInv, MeetInv
  <2>4. RunsInv'
    BY <2>1 DEF RunsInv, Executed
  <2> QED BY <2>1, <2>3, <2>4, <1>t DEF OnceInv
<1>7. CASE Finished \/ UNCHANGED vars
  <2>1. UNCHANGED vars
    BY <1>7 DEF Finished
  <2>2. HolderInv' /\ RunsInv'
    BY <2>1, <1>t, QuietStep DEF vars
  <2> QED BY <2>1, <2>2, <1>t DEF vars, OnceInv, EmptyInv, MeetInv
<1> QED BY <1>1, <1>2, <1>3, <1>4, <1>5, <1>6, <1>7 DEF Next, Step

\* In the static schedule of the same partition each item has one team.
LEMMA StaticOnce ==
  ASSUME NEW x \in Items, TypeOK,
         \A p \in Masters : first[p] = Lo(p) /\ second[p] = Hi(p)
  PROVE  Cardinality({p \in Masters : PartitionBegin(p) <= x /\ x < PartitionEnd(p)}) = 1
<1>1. WorkChunk \in Nat \ {0} /\ Length \in Nat /\ x \in Nat /\ x < Length
  BY ChunkFacts DEF Items
<1>2. PICK c \in AllChunks : InChunk(c, x)
  BY HasChunk
<1>3. c \in Nat /\ WorkChunk * c <= x /\ x < WorkChunk * c + WorkChunk
  BY <1>2, PartFacts, LayoutFacts DEF AllChunks, InChunk
<1>4. ASSUME NEW p \in Masters
      PROVE  (PartitionBegin(p) <= x /\ x < PartitionEnd(p)) <=> (Lo(p) <= c /\ c < Hi(p))
  <2>1. Lo(p) \in Nat /\ Hi(p) \in Nat
    BY PartFacts
  <2>2. ASSUME NEW n \in Nat PROVE n * WorkChunk \in Nat /\ (n * WorkChunk <= x <=> n <= c)
    <3>1. n * WorkChunk = WorkChunk * n /\ WorkChunk * n \in Nat /\ WorkChunk * c \in Nat
      BY <1>1, <1>3, MulSucc
    <3>2. CASE n <= c
      BY <1>1, <1>3, <3>1, <3>2, MulMono
    <3>3. CASE ~(n <= c)
      <4>1. WorkChunk * (c + 1) <= WorkChunk * n
        BY <1>1, <1>3, <3>3, MulMono
      <4>2. WorkChunk * (c + 1) = WorkChunk * c + WorkChunk
        BY <1>1, <1>3, MulSucc
      <4> QED BY <1>1, <1>3, <3>1, <3>3, <4>1, <4>2
    <3> QED BY <3>2, <3>3
  <2>3. /\ PartitionBegin(p) = Lo(p) * WorkChunk
        /\ PartitionEnd(p) = IF Hi(p) * WorkChunk < Length THEN Hi(p) * WorkChunk ELSE Length
    BY DEF PartitionBegin, PartitionEnd
  <2> QED BY <1>1, <1>3, <2>1, <2>2, <2>3
<1>5. PICK p \in Masters : Lo(p) <= c /\ c < Hi(p)
  BY <1>2, RangesCover
<1>6. ASSUME NEW q \in Masters, Lo(q) <= c, c < Hi(q) PROVE q = p
  <2>1. Lo(p) \in Nat /\ Hi(p) \in Nat /\ Lo(q) \in Nat /\ Hi(q) \in Nat
    BY PartFacts
  <2> QED BY <1>3, <1>5, <1>6, <2>1, RangesDisjoint
<1>7. {q \in Masters : PartitionBegin(q) <= x /\ x < PartitionEnd(q)} = {p}
  BY <1>4, <1>5, <1>6
<1> QED BY <1>7, FS_Singleton

\* The accounts say that the dynamic schedule executes every item once.
LEMMA OnceMeansOnce == IndInv /\ OnceInv => EveryItemOnce
<1> SUFFICES ASSUME IndInv, OnceInv PROVE EveryItemOnce
  OBVIOUS
<1>t. /\ TypeOK /\ HandedInv
      /\ ~stray /\ HolderInv /\ RunsInv /\ EmptyInv /\ MeetInv
  BY DEF IndInv, OnceInv
<1>1. \A c \in AllChunks : c \in Nat
  BY PartFacts, LayoutFacts DEF AllChunks
<1>2. ASSUME NEW x \in Items PROVE runs[x] <= 1
  <2>1. PICK c \in AllChunks : InChunk(c, x)
    BY HasChunk
  <2>2. runs[x] = 0 \/ runs[x] = 1
    BY <1>1, <2>1, <1>t DEF RunsInv
  <2> QED BY <2>2
<1>3. ASSUME AllDone, NEW x \in Items PROVE runs[x] = 1
  <2>1. PICK c \in AllChunks : InChunk(c, x)
    BY HasChunk
  <2>2. PICK p \in Masters : Lo(p) <= c /\ c < Hi(p)
    BY RangesCover
  <2>3. Ready /\ second[p] <= first[p] /\ first[p] \in Int /\ second[p] \in Int
    BY <1>3, <1>t DEF AllDone, Ready, EmptyInv, TypeOK
  <2>4. c \in Int /\ c \in handed
    BY <1>1, <2>2, <2>3, <1>t DEF HandedInv, Offers
  <2>5. Executed(c)
    BY <1>3, <2>4 DEF Executed, Executing, AllDone
  <2> QED BY <1>1, <2>1, <2>5, <1>t DEF RunsInv
<1>4. ASSUME \A p \in Masters : pc[p] = "meet", NEW x \in Items
      PROVE  Cardinality({p \in Masters : PartitionBegin(p) <= x /\ x < PartitionEnd(p)}) = 1
  BY <1>4, <1>t, StaticOnce DEF MeetInv
<1> QED BY <1>2, <1>3, <1>4, <1>t DEF EveryItemOnce

\* As long as the first item of a chunk fits an int, the dynamic schedule runs
\* every item of the policy's range exactly once and nothing else, in every
\* region and whichever teams steal; and the static schedule gives every item
\* to one team.
THEOREM StealingRunsItemsOnce == NoOverflow => (Spec => []EveryItemOnce)
<1> SUFFICES ASSUME NoOverflow PROVE Spec => []EveryItemOnce
  OBVIOUS
<1>1. OnceInv /\ IndInv /\ [Next]_vars => OnceInv'
  BY StepOnce
<1> QED BY <1>1, InitOnce, IndInvariant, OnceMeansOnce, PTL DEF Spec
=============================================================================
