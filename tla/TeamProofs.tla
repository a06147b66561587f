----------------------------- MODULE TeamProofs -----------------------------
(***************************************************************************)
(* That the collectives of a host team return what they should, for every  *)
(* team and every program of calls.  All members are in the same           *)
(* rendezvous, or one call on if they have passed it; TeamInv says what the *)
(* two words of each member hold at every place of a call, and so what a   *)
(* member that reads them late still finds there.                          *)
(*                                                                         *)
(* First induction, and what SumFunctionOnSet computes.  A property that is *)
(* proved by induction is given as the set of those that have it.          *)
(***************************************************************************)
EXTENDS MCHostTeam, Functions, FiniteSetTheorems, WellFoundedInduction, TLAPS

\* A nonempty set of natural numbers has a least element.
LEMMA LeastNatural ==
  ASSUME NEW S \in SUBSET Nat, S # {}
  PROVE  \E m \in S : \A l \in S : m <= l
  <1>1. IsWellFoundedOn(OpToRel(<, Nat), Nat)
    BY NatLessThanWellFounded
  <1>2. PICK less : less = OpToRel(<, Nat)
    OBVIOUS
  <1>3. \A l, m \in Nat : l < m => <<l, m>> \in less
    BY <1>2 DEF OpToRel
  <1>4. IsWellFoundedOn(less, Nat)
    BY <1>1, <1>2
  <1>5. PICK m \in S : \A l \in S : ~(<<l, m>> \in less)
    BY <1>4, WFMin
  <1>6. ASSUME NEW l \in S PROVE m <= l
    <2>1. l \in Nat /\ m \in Nat
      OBVIOUS
    <2>2. ~(l < m)
      BY <2>1, <1>3, <1>5, Zenon
    <2> QED BY <2>1, <2>2
  <1> QED BY <1>6

\* Induction, with the set of the numbers that have the property.
LEMMA NatSetInduction ==
  ASSUME NEW S, 0 \in S, \A n \in Nat : n \in S => n + 1 \in S
  PROVE  \A n \in Nat : n \in S
  <1> DEFINE T == Nat \ S
  <1> SUFFICES ASSUME T # {} PROVE FALSE
    OBVIOUS
  <1>1. PICK x \in T : \A y \in T : x <= y
    BY LeastNatural
  <1> QED BY <1>1

\* Induction over the subsets of a finite set, with the set of those that have the property.
LEMMA SubsetInduction ==
  ASSUME NEW S, IsFiniteSet(S), NEW Q,
         \A T \in SUBSET S : (\A U \in SUBSET T : U # T => U \in Q) => T \in Q
  PROVE  S \in Q
  <1> DEFINE N == {n \in Nat : \A T \in SUBSET S : Cardinality(T) <= n => T \in Q}
  <1>0. \A T \in SUBSET S : IsFiniteSet(T) /\ Cardinality(T) \in Nat
    BY FS_Subset, FS_CardinalityType
  <1>1. 0 \in N
    <2> SUFFICES ASSUME NEW T \in SUBSET S, Cardinality(T) <= 0 PROVE T \in Q
      OBVIOUS
    <2>1. T = {}
      BY <1>0, FS_EmptySet
    <2> QED BY <2>1
  <1>2. ASSUME NEW n \in Nat, n \in N PROVE n + 1 \in N
    <2> SUFFICES ASSUME NEW T \in SUBSET S, Cardinality(T) <= n + 1 PROVE T \in Q
      OBVIOUS
    <2>1. ASSUME NEW U \in SUBSET T, U # T PROVE U \in Q
      <3>1. Cardinality(U) <= Cardinality(T) /\ Cardinality(U) # Cardinality(T)
        BY <1>0, <2>1, FS_Subset
      <3>2. U \in SUBSET S /\ Cardinality(U) <= n
        BY <1>0, <3>1
      <3> QED BY <3>2, <1>2
    <2> QED BY <2>1
  <1> HIDE DEF N
  <1>3. Cardinality(S) \in N
    BY <1>0, <1>1, <1>2, NatSetInduction
  <1> QED BY <1>0, <1>3 DEF N

-----------------------------------------------------------------------------
\* SumFunctionOnSet takes one element after the other.

OneOf(s) == CHOOSE x \in s : TRUE
SumsUp(f, s, g) == g[s] = IF s = {} THEN 0 ELSE f[OneOf(s)] + g[s \ {OneOf(s)}]
SumsAll(f, S, g) ==
  g = [s \in SUBSET S |-> IF s = {} THEN 0 ELSE f[OneOf(s)] + g[s \ {OneOf(s)}]]

LEMMA SumIs ==
  ASSUME NEW f, NEW S
  PROVE  SumFunctionOnSet(f, S) = (CHOOSE g : SumsAll(f, S, g))[S]
  BY DEF SumFunctionOnSet, FoldFunctionOnSet, MapThenFoldSet, SumsAll, OneOf

LEMMA SumsExist ==
  ASSUME NEW f, NEW S, IsFiniteSet(S)
  PROVE  \E g : SumsAll(f, S, g)
  <1>0. \A T \in SUBSET S : IsFiniteSet(T) /\ Cardinality(T) \in Nat
    BY FS_Subset, FS_CardinalityType
  <1> DEFINE Up(g, n) == /\ g = [s \in SUBSET S |-> g[s]]
                         /\ \A s \in SUBSET S : Cardinality(s) <= n => SumsUp(f, s, g)
  <1> DEFINE N == {n \in Nat : \E g : Up(g, n)}
  <1>1. 0 \in N
    <2> DEFINE g == [s \in SUBSET S |-> 0]
    <2>1. \A s \in SUBSET S : Cardinality(s) <= 0 => s = {}
      BY <1>0, FS_EmptySet
    <2>2. \A s \in SUBSET S : Cardinality(s) <= 0 => SumsUp(f, s, g)
      BY <2>1 DEF SumsUp
    <2>3. g = [s \in SUBSET S |-> g[s]]
      OBVIOUS
    <2> QED BY <2>2, <2>3
  <1>2. ASSUME NEW n \in Nat, n \in N PROVE n + 1 \in N
    <2>1. PICK g : /\ g = [s \in SUBSET S |-> g[s]]
                   /\ \A s \in SUBSET S : Cardinality(s) <= n => SumsUp(f, s, g)
      BY <1>2
    <2> DEFINE h == [s \in SUBSET S |->
                       IF Cardinality(s) = n + 1 THEN f[OneOf(s)] + g[s \ {OneOf(s)}] ELSE g[s]]
    <2>2. h = [s \in SUBSET S |-> h[s]]
      OBVIOUS
    <2>3. ASSUME NEW s \in SUBSET S, Cardinality(s) <= n + 1 PROVE SumsUp(f, s, h)
      <3>1. CASE s = {}
        <4>1. Cardinality(s) = 0
          BY <3>1, FS_EmptySet
        <4>2. SumsUp(f, s, g)
          <5>1. Cardinality(s) <= n
            BY <4>1
          <5> QED BY <5>1, <2>1, Zenon
        <4>3. h[s] = g[s]
          BY <4>1
        <4> QED BY <3>1, <4>2, <4>3 DEF SumsUp
      <3>2. CASE s # {}
        <4>1. OneOf(s) \in s
          BY <3>2 DEF OneOf
        <4> PICK x : x = OneOf(s)
          OBVIOUS
        <4>2. s \ {x} \in SUBSET S /\ Cardinality(s \ {x}) = Cardinality(s) - 1
          BY <1>0, <4>1, FS_RemoveElement
        <4>3. h[s \ {x}] = g[s \ {x}]
          BY <4>2, <2>3, <1>0
        <4>4. h[s] = f[x] + g[s \ {x}]
          <5>1. CASE Cardinality(s) = n + 1
            BY <5>1
          <5>2. CASE Cardinality(s) <= n
            BY <5>2, <2>1, <3>2 DEF SumsUp
          <5> QED BY <5>1, <5>2, <2>3, <1>0
        <4> QED BY <4>3, <4>4, <3>2 DEF SumsUp
      <3> QED BY <3>1, <3>2
    <2>4. Up(h, n + 1)
      BY <2>2, <2>3
    <2> HIDE DEF h, Up
    <2> QED BY <2>4
  <1> HIDE DEF N, Up
  <1>3. Cardinality(S) \in N
    BY <1>0, <1>1, <1>2, NatSetInduction
  <1>4. PICK g : /\ g = [s \in SUBSET S |-> g[s]]
                 /\ \A s \in SUBSET S : Cardinality(s) <= Cardinality(S) => SumsUp(f, s, g)
    BY <1>3 DEF N, Up
  <1>5. \A s \in SUBSET S : SumsUp(f, s, g)
    BY <1>4, FS_Subset
  <1>6. SumsAll(f, S, g)
    BY <1>4, <1>5 DEF SumsAll, SumsUp
  <1> QED BY <1>6

LEMMA SumFn ==
  ASSUME NEW f, NEW S, IsFiniteSet(S)
  PROVE  \E g : SumsAll(f, S, g) /\ SumFunctionOnSet(f, S) = g[S]
  <1> DEFINE g == CHOOSE h : SumsAll(f, S, h)
  <1>1. SumsAll(f, S, g)
    BY SumsExist
  <1>2. SumFunctionOnSet(f, S) = g[S]
    BY SumIs
  <1> QED BY <1>1, <1>2

\* Functions that sum up the same values agree, wherever they are defined.
LEMMA SumsAgree ==
  ASSUME NEW f, NEW f2, NEW S, NEW S2, IsFiniteSet(S), IsFiniteSet(S2),
         NEW g, NEW g2, SumsAll(f, S, g), SumsAll(f2, S2, g2),
         NEW T \in SUBSET (S \cap S2), \A x \in T : f[x] = f2[x]
  PROVE  g[T] = g2[T]
  <1> DEFINE Q == {U \in SUBSET T : g[U] = g2[U]}
  <1>0. IsFiniteSet(T)
    BY FS_Subset
  <1>1. \A U \in SUBSET T : /\ g[U] = IF U = {} THEN 0 ELSE f[OneOf(U)] + g[U \ {OneOf(U)}]
                            /\ g2[U] = IF U = {} THEN 0 ELSE f2[OneOf(U)] + g2[U \ {OneOf(U)}]
    <2> SUFFICES ASSUME NEW U \in SUBSET T
                 PROVE  /\ g[U] = IF U = {} THEN 0 ELSE f[OneOf(U)] + g[U \ {OneOf(U)}]
                        /\ g2[U] = IF U = {} THEN 0 ELSE f2[OneOf(U)] + g2[U \ {OneOf(U)}]
      OBVIOUS
    <2>1. U \in SUBSET S /\ U \in SUBSET S2
      OBVIOUS
    <2>2. g[U] = IF U = {} THEN 0 ELSE f[OneOf(U)] + g[U \ {OneOf(U)}]
      BY <2>1 DEF SumsAll
    <2>3. g2[U] = IF U = {} THEN 0 ELSE f2[OneOf(U)] + g2[U \ {OneOf(U)}]
      BY <2>1 DEF SumsAll
    <2> QED BY <2>2, <2>3
  <1>2. {} \in Q
    BY <1>1
  <1>3. ASSUME NEW U \in SUBSET T, \A V \in SUBSET U : V # U => V \in Q PROVE U \in Q
    <2> SUFFICES ASSUME U # {} PROVE U \in Q
      BY <1>2
    <2>1. OneOf(U) \in U
      BY DEF OneOf
    <2>2. g[U \ {OneOf(U)}] = g2[U \ {OneOf(U)}] /\ f[OneOf(U)] = f2[OneOf(U)]
      BY <2>1, <1>3
    <2> QED BY <2>2, <1>1, <1>3
  <1> HIDE DEF Q
  <1>4. T \in Q
    BY <1>0, <1>3, SubsetInduction
  <1> QED BY <1>4 DEF Q

\* The sum depends on the values at the indices alone.
LEMMA SumSame ==
  ASSUME NEW f, NEW f2, NEW T, IsFiniteSet(T), \A x \in T : f[x] = f2[x]
  PROVE  SumFunctionOnSet(f, T) = SumFunctionOnSet(f2, T)
  <1>1. PICK g : SumsAll(f, T, g) /\ SumFunctionOnSet(f, T) = g[T]
    BY SumFn
  <1>2. PICK g2 : SumsAll(f2, T, g2) /\ SumFunctionOnSet(f2, T) = g2[T]
    BY SumFn
  <1>3. T \in SUBSET (T \cap T)
    OBVIOUS
  <1> QED BY <1>1, <1>2, <1>3, SumsAgree

LEMMA SumEmpty ==
  ASSUME NEW f
  PROVE  SumFunctionOnSet(f, {}) = 0
  <1>1. IsFiniteSet({})
    BY FS_EmptySet
  <1>2. PICK g : SumsAll(f, {}, g) /\ SumFunctionOnSet(f, {}) = g[{}]
    BY <1>1, SumFn
  <1> QED BY <1>2 DEF SumsAll

LEMMA SumFirst ==
  ASSUME NEW f, NEW T, IsFiniteSet(T), T # {}
  PROVE  /\ OneOf(T) \in T
         /\ SumFunctionOnSet(f, T) = f[OneOf(T)] + SumFunctionOnSet(f, T \ {OneOf(T)})
  <1> PICK x : x = OneOf(T)
    OBVIOUS
  <1>1. x \in T
    BY DEF OneOf
  <1> PICK U : U = T \ {x}
    OBVIOUS
  <1>2. IsFiniteSet(U)
    BY FS_RemoveElement
  <1>3. PICK g : SumsAll(f, T, g) /\ SumFunctionOnSet(f, T) = g[T]
    BY SumFn
  <1>4. PICK h : SumsAll(f, U, h) /\ SumFunctionOnSet(f, U) = h[U]
    BY <1>2, SumFn
  <1>5. g[T] = f[x] + g[U]
    BY <1>3 DEF SumsAll
  <1>6. g[U] = h[U]
    <2>1. U \in SUBSET (T \cap U)
      OBVIOUS
    <2> QED BY <2>1, <1>2, <1>3, <1>4, SumsAgree
  <1> QED BY <1>1, <1>3, <1>4, <1>5, <1>6

\* Any element can be taken first.
LEMMA SumTakes ==
  ASSUME NEW f, NEW S, IsFiniteSet(S), \A x \in S : f[x] \in Nat
  PROVE  /\ SumFunctionOnSet(f, S) \in Nat
         /\ \A x \in S : SumFunctionOnSet(f, S) = f[x] + SumFunctionOnSet(f, S \ {x})
  <1> DEFINE Sum(T) == SumFunctionOnSet(f, T)
  <1> DEFINE Q == {T \in SUBSET S : Sum(T) \in Nat /\ \A x \in T : Sum(T) = f[x] + Sum(T \ {x})}
  <1>1. {} \in Q
    BY SumEmpty
  <1>2. ASSUME NEW T \in SUBSET S, \A U \in SUBSET T : U # T => U \in Q
        PROVE  T \in Q
    <2> SUFFICES ASSUME T # {} PROVE T \in Q
      BY <1>1
    <2> PICK y : y = OneOf(T)
      OBVIOUS
    <2>0. IsFiniteSet(T)
      BY FS_Subset
    <2>1. y \in T /\ Sum(T) = f[y] + Sum(T \ {y})
      BY <1>2, <2>0, SumFirst
    <2> HIDE DEF Sum
    <2>2. Sum(T) \in Nat
      BY <1>2, <2>1
    <2>3. ASSUME NEW x \in T, x # y PROVE Sum(T) = f[x] + Sum(T \ {x})
      <3> DEFINE W == T \ {x, y}
      <3>1. (T \ {y}) \ {x} = W /\ (T \ {x}) \ {y} = W /\ x \in T \ {y} /\ y \in T \ {x}
        BY <2>1, <2>3
      <3>2. Sum(T \ {y}) = f[x] + Sum(W)
        <4>1. T \ {y} \in Q
          BY <1>2, <2>1
        <4> QED BY <4>1, <3>1
      <3>3. Sum(T \ {x}) = f[y] + Sum(W)
        <4>1. T \ {x} \in Q
          BY <1>2
        <4> QED BY <4>1, <3>1
      <3>4. Sum(T \ {y}) \in Nat /\ Sum(T \ {x}) \in Nat /\ f[x] \in Nat /\ f[y] \in Nat
        BY <1>2, <2>1
      <3>5. Sum(W) \in Nat
        <4>1. W \in SUBSET T /\ W # T
          BY <2>1
        <4> QED BY <4>1, <1>2
      <3> QED BY <2>1, <3>2, <3>3, <3>4, <3>5
    <2> QED BY <2>1, <2>2, <2>3
  <1> HIDE DEF Q
  <1>3. S \in Q
    BY <1>2, SubsetInduction
  <1> QED BY <1>3 DEF Q

-----------------------------------------------------------------------------
\* The sums of the team's module are these sums.
LEMMA TeamSums ==
  /\ \A f, S : Team!SumFunctionOnSet(f, S) = SumFunctionOnSet(f, S)
  /\ \A f : Team!SumFunction(f) = SumFunctionOnSet(f, DOMAIN f)
  <1>1. ASSUME NEW f, NEW S PROVE Team!SumFunctionOnSet(f, S) = (CHOOSE g : SumsAll(f, S, g))[S]
    BY DEF Team!SumFunctionOnSet, Team!FoldFunctionOnSet, Team!MapThenFoldSet, SumsAll, OneOf
  <1>2. \A f, S : Team!SumFunctionOnSet(f, S) = SumFunctionOnSet(f, S)
    BY <1>1, SumIs
  <1> QED BY <1>2 DEF Team!SumFunction

\* t is out of the rendezvous of its call, or may leave it.
Passed(t) == t \in leaving \/ at[t] = "return"

\* The rendezvous that t is before or in: all members have the same.
Round(t) == IF Passed(t) THEN k[t] + 1 ELSE k[t]

Places == {"deposit", "arrive", "wait", "combine", "release", "return", "done"}

Typed ==
  /\ in \in SUBSET Threads /\ leaving \in SUBSET Threads
  /\ alone \in Threads \cup {NoThread}
  /\ program \in [1 .. Programs -> Team!Calls]
  /\ k \in [Threads -> 1 .. Programs + 1]
  /\ at \in [Threads -> Places]
  /\ local \in [Threads -> Nat \X Nat]
  /\ global \in Nat
  /\ result \in [Threads -> Seq(Nat)]

\* Where a member is, and what the rendezvous knows of it.
Located(t) ==
  /\ t \in in <=> at[t] \in {"wait", "combine", "release"} /\ t \notin leaving
  /\ t \in leaving => at[t] = "wait" /\ t # program[k[t]].source
  /\ at[t] = "done" <=> k[t] = Programs + 1
  /\ at[t] \in {"combine", "release"} <=> alone = t
  /\ alone = t => in = Threads /\ t = program[k[t]].source

SameRound == \A t, u \in Threads : Round(t) = Round(u)

\* The source has combined the values of the call, and not released the others.
Combined == \E u \in Threads : at[u] = "release"

\* A member's contribution is in its own buffer until the source combines them.
Deposited(t) ==
  t # 0 /\ (at[t] = "arrive" \/ t \in in) /\ ~Combined =>
     /\ program[k[t]].op = "reduce" => local[t][1] = Team!Value(t, k[t])
     /\ program[k[t]].op \in {"scan", "scan_global"} => local[t][2] = Team!Value(t, k[t])

\* The word that a member will read has the result of its call.
WillReturn(t) == Passed(t) \/ Combined => Team!Returned(t) = Team!Expected(t, k[t])

Accumulated ==
  \A t \in Threads : global = Team!AddedBefore(IF Combined THEN Round(t) + 1 ELSE Round(t))

HasReturned(t) ==
  /\ Len(result[t]) = k[t] - 1
  /\ \A n \in 1 .. Len(result[t]) : result[t][n] = Team!Expected(t, n)

TeamInv ==
  /\ Typed /\ SameRound /\ Accumulated
  /\ \A t \in Threads : Located(t) /\ Deposited(t) /\ WillReturn(t) /\ HasReturned(t)

-----------------------------------------------------------------------------
\* Sums over the members, and over the calls.

LEMMA ThreadsFinite ==
  ASSUME Team!TeamParameters
  PROVE  /\ IsFiniteSet(Threads) /\ Threads \in SUBSET Nat /\ 0 \in Threads
         /\ \A T \in SUBSET Threads : IsFiniteSet(T)
  <1>1. Size \in Nat /\ Size > 1 /\ Threads = 0 .. Size - 1
    BY DEF Team!TeamParameters
  <1>2. IsFiniteSet(Threads)
    BY <1>1, FS_Interval
  <1>3. \A T \in SUBSET Threads : IsFiniteSet(T)
    BY <1>2, FS_Subset
  <1> QED BY <1>1, <1>2, <1>3

LEMMA ValueNat ==
  ASSUME Team!TeamParameters, NEW t \in Threads, NEW n \in Nat
  PROVE  Team!Value(t, n) \in Nat /\ Team!F(Team!Value(t, n)) \in Nat
  BY ThreadsFinite DEF Team!Value, Team!F

LEMMA SumOfNat ==
  ASSUME Team!TeamParameters, NEW n \in Nat, NEW T \in SUBSET Threads
  PROVE  /\ Team!SumOf(n, T) \in Nat
         /\ \A t \in T : Team!SumOf(n, T) = Team!Value(t, n) + Team!SumOf(n, T \ {t})
  <1> DEFINE f == [u \in Threads |-> Team!Value(u, n)]
  <1>1. \A t \in T : f[t] = Team!Value(t, n) /\ f[t] \in Nat
    BY ValueNat
  <1>2. IsFiniteSet(T)
    BY ThreadsFinite
  <1>3. /\ SumFunctionOnSet(f, T) \in Nat
        /\ \A t \in T : SumFunctionOnSet(f, T) = f[t] + SumFunctionOnSet(f, T \ {t})
    BY <1>1, <1>2, SumTakes
  <1> QED BY <1>1, <1>3, TeamSums DEF Team!SumOf

\* Any function that has the members' values has their sum.
LEMMA SumOfAny ==
  ASSUME Team!TeamParameters, NEW n \in Nat, NEW T \in SUBSET Threads, NEW f,
         \A u \in T : f[u] = Team!Value(u, n)
  PROVE  SumFunctionOnSet(f, T) = Team!SumOf(n, T)
  <1> DEFINE g == [u \in Threads |-> Team!Value(u, n)]
  <1>1. \A u \in T : f[u] = g[u]
    OBVIOUS
  <1>2. SumFunctionOnSet(f, T) = SumFunctionOnSet(g, T)
    BY <1>1, ThreadsFinite, SumSame
  <1> QED BY <1>2, TeamSums DEF Team!SumOf

\* What the accumulator holds before the first call, and after one more.
LEMMA AddedBeforeIs ==
  ASSUME Team!TeamParameters
  PROVE  /\ Team!AddedBefore(1) = 0
         /\ \A n \in 1 .. Programs :
               /\ Team!AddedBefore(n) \in Nat
               /\ Team!AddedBefore(n + 1) =
                     Team!AddedBefore(n) + IF program[n].op = "scan_global" THEN Team!SumOf(n, Threads) ELSE 0
  <1> DEFINE f == [m \in 1 .. Programs |-> Team!SumOf(m, Threads)]
  <1> DEFINE E(n) == {m \in 1 .. n - 1 : program[m].op = "scan_global"}
  <1>0. Programs \in Nat
    BY DEF Team!TeamParameters
  <1>1. \A n : Team!AddedBefore(n) = SumFunctionOnSet(f, E(n))
    BY TeamSums DEF Team!AddedBefore
  <1>2. Team!AddedBefore(1) = 0
    <2>1. E(1) = {}
      OBVIOUS
    <2> QED BY <2>1, <1>1, SumEmpty
  <1>3. ASSUME NEW n \in 1 .. Programs + 1
        PROVE  IsFiniteSet(E(n)) /\ E(n) \subseteq 1 .. Programs
    <2>1. IsFiniteSet(1 .. Programs)
      BY <1>0, FS_Interval
    <2>2. E(n) \in SUBSET (1 .. Programs)
      BY <1>0
    <2> QED BY <2>1, <2>2, FS_Subset
  <1>4. \A m \in 1 .. Programs : f[m] = Team!SumOf(m, Threads) /\ f[m] \in Nat
    BY <1>0, SumOfNat
  <1> HIDE DEF f
  <1>5. ASSUME NEW n \in 1 .. Programs + 1
        PROVE  /\ SumFunctionOnSet(f, E(n)) \in Nat
               /\ \A m \in E(n) : SumFunctionOnSet(f, E(n)) = f[m] + SumFunctionOnSet(f, E(n) \ {m})
    BY <1>3, <1>4, SumTakes
  <1>6. ASSUME NEW n \in 1 .. Programs
        PROVE  Team!AddedBefore(n + 1) =
                 Team!AddedBefore(n) + IF program[n].op = "scan_global" THEN Team!SumOf(n, Threads) ELSE 0
    <2>0. n \in 1 .. Programs + 1 /\ n + 1 \in 1 .. Programs + 1
      BY <1>0
    <2>1. Team!AddedBefore(n) \in Nat /\ Team!AddedBefore(n + 1) \in Nat
      BY <2>0, <1>1, <1>5
    <2>2. CASE program[n].op = "scan_global"
      <3>1. E(n + 1) \ {n} = E(n) /\ n \in E(n + 1)
        BY <2>2, <1>0
      <3>2. SumFunctionOnSet(f, E(n + 1)) = f[n] + SumFunctionOnSet(f, E(n))
        BY <2>0, <3>1, <1>5
      <3>3. Team!AddedBefore(n + 1) = Team!SumOf(n, Threads) + Team!AddedBefore(n)
        BY <3>2, <1>1, <1>4
      <3>4. Team!SumOf(n, Threads) \in Nat
        BY <1>0, SumOfNat
      <3> QED BY <2>1, <2>2, <3>3, <3>4
    <2>3. CASE program[n].op # "scan_global"
      <3>1. E(n + 1) = E(n)
        BY <2>3, <1>0
      <3>2. Team!AddedBefore(n + 1) = Team!AddedBefore(n)
        <4> HIDE DEF E
        <4> QED BY <3>1, <1>1
      <3> QED BY <3>2, <2>1, <2>3
    <2> QED BY <2>2, <2>3
  <1>7. \A n \in 1 .. Programs : Team!AddedBefore(n) \in Nat
    <2> SUFFICES ASSUME NEW n \in 1 .. Programs PROVE Team!AddedBefore(n) \in Nat
      OBVIOUS
    <2>1. n \in 1 .. Programs + 1
      BY <1>0
    <2> QED BY <2>1, <1>1, <1>5
  <1> QED BY <1>2, <1>6, <1>7

LEMMA ExpectedSame ==
  ASSUME program' = program, NEW t, NEW n
  PROVE  Team!Expected(t, n)' = Team!Expected(t, n) /\ Team!AddedBefore(n)' = Team!AddedBefore(n)
  BY DEF Team!Expected, Team!AddedBefore, Team!SumOf, Team!F, Team!Value

-----------------------------------------------------------------------------
LEMMA Facts ==
  ASSUME Team!TeamParameters, TeamInv, NEW t \in Threads
  PROVE  /\ k[t] \in 1 .. Programs + 1 /\ k[t] \in Nat /\ t \in Nat /\ Programs \in Nat
         /\ at[t] # "done" => k[t] \in 1 .. Programs /\ program[k[t]] \in Team!Calls
         /\ at[t] \in Places
         /\ Combined => /\ in = Threads
                        /\ \A u \in Threads : at[u] \in {"wait", "release"} /\ ~Passed(u)
         /\ in = Threads => \A u \in Threads : ~Passed(u) /\ k[u] = k[t] /\ at[u] \in {"wait", "combine", "release"}
         /\ local[t] \in Nat \X Nat /\ result[t] \in Seq(Nat)
  <1>1. k[t] \in 1 .. Programs + 1 /\ at[t] \in Places /\ Programs \in Nat
        /\ local[t] \in Nat \X Nat /\ result[t] \in Seq(Nat)
    BY DEF TeamInv, Typed, Team!TeamParameters
  <1>2. k[t] \in Nat /\ t \in Nat
    BY <1>1, ThreadsFinite
  <1>3. at[t] # "done" => k[t] \in 1 .. Programs
    <2>1. at[t] # "done" => k[t] # Programs + 1
      BY DEF TeamInv, Located
    <2> QED BY <2>1, <1>1
  <1>4. at[t] # "done" => program[k[t]] \in Team!Calls
    BY <1>3 DEF TeamInv, Typed
  <1>5. in = Threads => \A u \in Threads : ~Passed(u) /\ at[u] \in {"wait", "combine", "release"}
    BY DEF TeamInv, Located, Passed
  <1>6. in = Threads => \A u \in Threads : k[u] = k[t]
    BY <1>5 DEF TeamInv, SameRound, Round
  <1>7. Combined => in = Threads /\ \A u \in Threads : at[u] # "combine"
    BY DEF TeamInv, Located, Combined
  <1> QED BY <1>1, <1>2, <1>3, <1>4, <1>5, <1>6, <1>7

\* A member that a step does not touch.
LEMMA Others ==
  ASSUME TeamInv, NEW u \in Threads, UNCHANGED program,
         k'[u] = k[u], at'[u] = at[u], result'[u] = result[u],
         local'[u] = local[u], local'[0] = local[0],
         u \in in' <=> u \in in, u \in leaving' <=> u \in leaving,
         Combined' <=> Combined, alone' = u <=> alone = u, alone = u => in' = in
  PROVE  Located(u)' /\ Deposited(u)' /\ WillReturn(u)' /\ HasReturned(u)' /\ Round(u)' = Round(u)
  <1>1. Located(u)'
    BY DEF TeamInv, Located
  <1>2. Deposited(u)'
    BY DEF TeamInv, Deposited, Team!Value
  <1>3. Passed(u)' <=> Passed(u)
    BY DEF Passed
  <1>4. Team!Returned(u)' = Team!Returned(u)
    BY DEF Team!Returned, Team!Call, Team!MyValue, Team!Value, Team!F
  <1>5. Team!Expected(u, k[u])' = Team!Expected(u, k'[u])
    BY ExpectedSame
  <1>6. WillReturn(u)'
    BY <1>3, <1>4, ExpectedSame DEF TeamInv, WillReturn
  <1>7. HasReturned(u)'
    BY ExpectedSame DEF TeamInv, HasReturned
  <1>8. Round(u)' = Round(u)
    BY <1>3 DEF Round
  <1> QED BY <1>1, <1>2, <1>6, <1>7, <1>8

LEMMA RoundsStay ==
  ASSUME TeamInv, UNCHANGED <<program, global>>, \A u \in Threads : Round(u)' = Round(u),
         Combined' <=> Combined
  PROVE  SameRound' /\ Accumulated'
  <1>1. SameRound'
    BY DEF TeamInv, SameRound
  <1>2. Accumulated'
    BY ExpectedSame DEF TeamInv, Accumulated
  <1> QED BY <1>1, <1>2

LEMMA TeamInvInit ==
  ASSUME Team!TeamParameters, Team!Init
  PROVE  TeamInv
  <1>0. Programs \in Nat \ {0} /\ NoThread \notin Threads
    BY DEF Team!TeamParameters
  <1>1. Typed
    BY <1>0 DEF Team!Init, Team!RInit, Typed, Places
  <1>2. \A t \in Threads : k[t] = 1 /\ at[t] = "deposit" /\ result[t] = <<>>
        /\ t \notin in /\ t \notin leaving /\ alone # t
    BY <1>0 DEF Team!Init, Team!RInit
  <1>3. ~Combined /\ \A t \in Threads : ~Passed(t) /\ Round(t) = 1
    BY <1>2 DEF Combined, Passed, Round
  <1>4. SameRound
    BY <1>3 DEF SameRound
  <1>5. Accumulated
    BY <1>3, AddedBeforeIs DEF Accumulated, Team!Init
  <1>6. \A t \in Threads : Located(t)
    BY <1>0, <1>2 DEF Located
  <1>7. \A t \in Threads : Deposited(t) /\ WillReturn(t) /\ HasReturned(t)
    BY <1>2, <1>3 DEF Deposited, WillReturn, HasReturned
  <1> QED BY <1>1, <1>4, <1>5, <1>6, <1>7 DEF TeamInv

LEMMA DepositInv ==
  ASSUME Team!TeamParameters, TeamInv, NEW t \in Threads, Team!Deposit(t)
  PROVE  TeamInv'
  <1> PICK op : op = program[k[t]].op
    OBVIOUS
  <1>1. at[t] = "deposit" /\ at' = [at EXCEPT ![t] = "arrive"]
        /\ UNCHANGED <<in, leaving, alone, program, k, global, result>>
    BY DEF Team!Deposit, Team!rvars
  <1>2. k[t] \in Nat /\ local[t] \in Nat \X Nat /\ Team!Value(t, k[t]) \in Nat
    BY Facts, ValueNat
  <1> PICK words : words = CASE t # 0 /\ op = "reduce" -> <<Team!Value(t, k[t]), local[t][2]>>
                     [] t # 0 /\ op \in {"scan", "scan_global"} -> <<local[t][1], Team!Value(t, k[t])>>
                     [] OTHER -> local[t]
    OBVIOUS
  <1>3. local' = [local EXCEPT ![t] = words] /\ local \in [Threads -> Nat \X Nat]
    BY DEF Team!Deposit, Team!Call, Team!MyValue, TeamInv, Typed
  <1>4. words \in Nat \X Nat
    BY <1>2
  <1>5. /\ t # 0 /\ op = "reduce" => words[1] = Team!Value(t, k[t])
        /\ t # 0 /\ op \in {"scan", "scan_global"} => words[2] = Team!Value(t, k[t])
        /\ t = 0 => words = local[t]
    BY <1>2
  <1>6. local'[t] = words /\ local' \in [Threads -> Nat \X Nat] /\ local'[0] = local[0]
        /\ \A u \in Threads \ {t} : local'[u] = local[u]
    BY <1>3, <1>4, <1>5, ThreadsFinite
  <1>7. at'[t] = "arrive" /\ (\A u \in Threads \ {t} : at'[u] = at[u]) /\ at' \in [Threads -> Places]
    BY <1>1 DEF TeamInv, Typed, Places
  <1>8. t \notin in /\ t \notin leaving /\ alone # t /\ k[t] # Programs + 1
    BY <1>1 DEF TeamInv, Located
  <1>9. ~Combined /\ ~Combined'
    <2>1. ~Combined
      BY <1>8, Facts
    <2> QED BY <2>1, <1>7 DEF Combined
  <1>10. \A u \in Threads \ {t} :
            Located(u)' /\ Deposited(u)' /\ WillReturn(u)' /\ HasReturned(u)' /\ Round(u)' = Round(u)
    BY <1>1, <1>6, <1>7, <1>9, Others
  <1>11. Located(t)'
    BY <1>1, <1>7, <1>8 DEF Located
  <1>12. Deposited(t)'
    BY <1>1, <1>5, <1>6 DEF Deposited, Team!Value
  <1>13. ~Passed(t) /\ ~Passed(t)'
    BY <1>1, <1>7, <1>8 DEF Passed
  <1>14. WillReturn(t)' /\ Round(t)' = Round(t)
    BY <1>1, <1>9, <1>13 DEF WillReturn, Round
  <1>15. HasReturned(t)'
    BY <1>1, ExpectedSame DEF TeamInv, HasReturned
  <1>16. SameRound' /\ Accumulated'
    BY <1>1, <1>9, <1>10, <1>14, RoundsStay
  <1>17. Typed'
    BY <1>1, <1>6, <1>7 DEF TeamInv, Typed
  <1> QED BY <1>10, <1>11, <1>12, <1>14, <1>15, <1>16, <1>17 DEF TeamInv

LEMMA EnterInv ==
  ASSUME Team!TeamParameters, TeamInv, NEW t \in Threads, Team!Enter(t)
  PROVE  TeamInv'
  <1>1. at[t] = "arrive" /\ at' = [at EXCEPT ![t] = "wait"] /\ in' = in \cup {t}
        /\ t \notin in /\ t \notin leaving
        /\ UNCHANGED <<leaving, alone, program, k, local, global, result>>
    BY DEF Team!Enter, Team!Arrive
  <1>2. at'[t] = "wait" /\ (\A u \in Threads \ {t} : at'[u] = at[u]) /\ at' \in [Threads -> Places]
    BY <1>1 DEF TeamInv, Typed, Places
  <1>3. alone # t /\ k[t] # Programs + 1 /\ \A u \in Threads : alone # u
    BY <1>1 DEF TeamInv, Located
  <1>4. ~Combined /\ ~Combined'
    <2>1. ~Combined
      BY <1>1, Facts
    <2> QED BY <2>1, <1>2 DEF Combined
  <1>5. \A u \in Threads \ {t} :
            Located(u)' /\ Deposited(u)' /\ WillReturn(u)' /\ HasReturned(u)' /\ Round(u)' = Round(u)
    BY <1>1, <1>2, <1>3, <1>4, Others
  <1>6. Located(t)'
    BY <1>1, <1>2, <1>3 DEF Located
  <1>7. Deposited(t)'
    BY <1>1, <1>4 DEF TeamInv, Deposited, Team!Value
  <1>8. ~Passed(t) /\ ~Passed(t)'
    BY <1>1, <1>2 DEF Passed
  <1>9. WillReturn(t)' /\ Round(t)' = Round(t)
    BY <1>1, <1>4, <1>8 DEF WillReturn, Round
  <1>10. HasReturned(t)'
    BY <1>1, ExpectedSame DEF TeamInv, HasReturned
  <1>11. SameRound' /\ Accumulated'
    BY <1>1, <1>4, <1>5, <1>9, RoundsStay
  <1>12. Typed'
    BY <1>1, <1>2 DEF TeamInv, Typed
  <1> QED BY <1>5, <1>6, <1>7, <1>9, <1>10, <1>11, <1>12 DEF TeamInv

LEMMA RendezvousedInv ==
  ASSUME Team!TeamParameters, TeamInv, NEW t \in Threads, Team!Rendezvoused(t)
  PROVE  TeamInv'
  <1>1. at[t] = "wait" /\ t = program[k[t]].source /\ in = Threads /\ alone = NoThread /\ alone' = t
        /\ at' = [at EXCEPT ![t] = "combine"]
        /\ UNCHANGED <<in, leaving, program, k, local, global, result>>
    BY DEF Team!Rendezvoused, Team!Elect, Team!Call
  <1>2. at'[t] = "combine" /\ (\A u \in Threads \ {t} : at'[u] = at[u]) /\ at' \in [Threads -> Places]
    BY <1>1 DEF TeamInv, Typed, Places
  <1>3. \A u \in Threads : alone # u
    BY <1>1 DEF Team!TeamParameters
  <1>4. ~Combined /\ ~Combined'
    <2>1. ~Combined
      BY <1>3 DEF TeamInv, Located, Combined
    <2> QED BY <2>1, <1>2 DEF Combined
  <1>5. \A u \in Threads \ {t} :
            Located(u)' /\ Deposited(u)' /\ WillReturn(u)' /\ HasReturned(u)' /\ Round(u)' = Round(u)
    BY <1>1, <1>2, <1>3, <1>4, Others
  <1>6. t \notin leaving /\ k[t] # Programs + 1
    BY <1>1 DEF TeamInv, Located
  <1>7. Located(t)'
    BY <1>1, <1>2, <1>6 DEF Located
  <1>8. Deposited(t)'
    BY <1>1, <1>4 DEF TeamInv, Deposited, Team!Value
  <1>9. ~Passed(t) /\ ~Passed(t)'
    BY <1>1, <1>2, <1>6 DEF Passed
  <1>10. WillReturn(t)' /\ Round(t)' = Round(t)
    BY <1>1, <1>4, <1>9 DEF WillReturn, Round
  <1>11. HasReturned(t)'
    BY <1>1, ExpectedSame DEF TeamInv, HasReturned
  <1>12. SameRound' /\ Accumulated'
    BY <1>1, <1>4, <1>5, <1>10, RoundsStay
  <1>13. Typed'
    BY <1>1, <1>2 DEF TeamInv, Typed
  <1> QED BY <1>5, <1>7, <1>8, <1>10, <1>11, <1>12, <1>13 DEF TeamInv

LEMMA ReleasedInv ==
  ASSUME Team!TeamParameters, TeamInv, NEW t \in Threads, Team!Released(t)
  PROVE  TeamInv'
  <1>1. at[t] = "wait" /\ t \in leaving /\ leaving' = leaving \ {t}
        /\ at' = [at EXCEPT ![t] = "return"]
        /\ UNCHANGED <<in, alone, program, k, local, global, result>>
    BY DEF Team!Released, Team!Leave
  <1>2. at'[t] = "return" /\ (\A u \in Threads \ {t} : at'[u] = at[u]) /\ at' \in [Threads -> Places]
    BY <1>1 DEF TeamInv, Typed, Places
  <1>3. t \notin in /\ alone # t /\ k[t] # Programs + 1
    BY <1>1 DEF TeamInv, Located
  <1>4. ~Combined /\ ~Combined'
    <2>1. ~Combined
      BY <1>3, Facts
    <2> QED BY <2>1, <1>2 DEF Combined
  <1>5. \A u \in Threads \ {t} :
            Located(u)' /\ Deposited(u)' /\ WillReturn(u)' /\ HasReturned(u)' /\ Round(u)' = Round(u)
    BY <1>1, <1>2, <1>3, <1>4, Others
  <1>6. Located(t)' /\ Deposited(t)'
    BY <1>1, <1>2, <1>3 DEF Located, Deposited
  <1>7. Passed(t) /\ Passed(t)'
    BY <1>1, <1>2 DEF Passed
  <1>8. Round(t)' = Round(t)
    BY <1>1, <1>7 DEF Round
  <1>9. WillReturn(t)'
    <2>1. Team!Returned(t)' = Team!Returned(t)
      BY <1>1 DEF Team!Returned, Team!Call, Team!MyValue, Team!Value, Team!F
    <2> QED BY <2>1, <1>1, <1>7, ExpectedSame DEF TeamInv, WillReturn
  <1>10. HasReturned(t)'
    BY <1>1, ExpectedSame DEF TeamInv, HasReturned
  <1>11. SameRound' /\ Accumulated'
    BY <1>1, <1>4, <1>5, <1>8, RoundsStay
  <1>12. Typed'
    BY <1>1, <1>2 DEF TeamInv, Typed
  <1> QED BY <1>5, <1>6, <1>9, <1>10, <1>11, <1>12 DEF TeamInv

LEMMA ReleaseTeamInv ==
  ASSUME Team!TeamParameters, TeamInv, NEW t \in Threads, Team!ReleaseTeam(t)
  PROVE  TeamInv'
  <1>1. at[t] = "release" /\ alone = t /\ alone' = NoThread /\ in' = {} /\ leaving' = Threads \ {t}
        /\ at' = [at EXCEPT ![t] = "return"]
        /\ UNCHANGED <<program, k, local, global, result>>
    BY DEF Team!ReleaseTeam, Team!Release
  <1>2. at'[t] = "return" /\ (\A u \in Threads \ {t} : at'[u] = at[u]) /\ at' \in [Threads -> Places]
    BY <1>1 DEF TeamInv, Typed, Places
  <1>3. Combined /\ in = Threads /\ t = program[k[t]].source
    BY <1>1 DEF Combined, TeamInv, Located
  <1>4. \A u \in Threads : ~Passed(u) /\ k[u] = k[t] /\ at[u] \in {"wait", "release"}
    BY <1>3, Facts
  <1>5. \A u \in Threads \ {t} : at[u] = "wait"
    <2>1. \A u \in Threads \ {t} : at[u] # "release"
      BY <1>1 DEF TeamInv, Located
    <2> QED BY <2>1, <1>4
  <1>6. ~Combined'
    BY <1>2, <1>5 DEF Combined
  <1>7. \A u \in Threads : Passed(u)'
    BY <1>1, <1>2 DEF Passed
  <1>8. \A u \in Threads : Round(u) = k[t] /\ Round(u)' = k[t] + 1
    BY <1>1, <1>4, <1>7 DEF Round
  <1>9. SameRound'
    BY <1>8 DEF SameRound
  <1>10. Accumulated'
    <2>1. global = Team!AddedBefore(k[t] + 1)
      BY <1>3, <1>8 DEF TeamInv, Accumulated
    <2> QED BY <2>1, <1>1, <1>6, <1>8, ExpectedSame DEF Accumulated
  <1>11. NoThread \notin Threads
    BY DEF Team!TeamParameters
  <1>12. ASSUME NEW u \in Threads
         PROVE  Located(u)' /\ Deposited(u)' /\ WillReturn(u)' /\ HasReturned(u)'
    <2>1. k[u] # Programs + 1
      BY <1>4 DEF TeamInv, Located
    <2>2. Located(u)'
      BY <1>1, <1>2, <1>3, <1>4, <1>5, <1>11, <2>1 DEF Located
    <2>3. Deposited(u)'
      BY <1>1, <1>2, <1>5 DEF Deposited
    <2>4. Team!Returned(u)' = Team!Returned(u)
      BY <1>1 DEF Team!Returned, Team!Call, Team!MyValue, Team!Value, Team!F
    <2>5. WillReturn(u)'
      BY <1>1, <1>3, <2>4, ExpectedSame DEF TeamInv, WillReturn
    <2>6. HasReturned(u)'
      BY <1>1, ExpectedSame DEF TeamInv, HasReturned
    <2> QED BY <2>2, <2>3, <2>5, <2>6
  <1>13. Typed'
    BY <1>1, <1>2 DEF TeamInv, Typed
  <1> QED BY <1>9, <1>10, <1>12, <1>13 DEF TeamInv

\* What the members read are naturals.
LEMMA ReturnedNat ==
  ASSUME Team!TeamParameters, TeamInv, NEW t \in Threads
  PROVE  Team!Returned(t) \in Nat
  <1>1. Team!Value(t, k[t]) \in Nat /\ Team!F(Team!Value(t, k[t])) \in Nat
    BY Facts, ValueNat
  <1>2. local[t][1] \in Nat /\ local[0][1] \in Nat
    BY Facts, ThreadsFinite DEF TeamInv, Typed
  <1> PICK op : op = program[k[t]].op
    OBVIOUS
  <1>3. Team!Returned(t) = CASE op = "barrier" -> 0
                        [] op \in {"scan", "scan_global"} -> local[t][1]
                        [] op = "broadcast" /\ t = program[k[t]].source -> Team!Value(t, k[t])
                        [] op = "broadcast_f" /\ t = program[k[t]].source -> Team!F(Team!Value(t, k[t]))
                        [] OTHER -> local[0][1]
    BY DEF Team!Returned, Team!Call, Team!MyValue
  <1> QED BY <1>1, <1>2, <1>3

LEMMA ReturnInv ==
  ASSUME Team!TeamParameters, TeamInv, NEW t \in Threads, Team!Return(t)
  PROVE  TeamInv'
  <1> PICK v : v = Team!Returned(t)
    OBVIOUS
  <1> PICK place : place = IF k[t] = Programs THEN "done" ELSE "deposit"
    OBVIOUS
  <1>1. at[t] = "return" /\ result' = [result EXCEPT ![t] = Append(@, v)]
        /\ k' = [k EXCEPT ![t] = @ + 1] /\ at' = [at EXCEPT ![t] = place]
        /\ UNCHANGED <<in, leaving, alone, program, local, global>>
    BY DEF Team!Return, Team!rvars
  <1>2. at'[t] = place /\ (\A u \in Threads \ {t} : at'[u] = at[u]) /\ at' \in [Threads -> Places]
    BY <1>1 DEF TeamInv, Typed, Places
  <1>3. k[t] \in 1 .. Programs /\ Programs \in Nat /\ k \in [Threads -> 1 .. Programs + 1]
    BY <1>1, Facts DEF TeamInv, Typed
  <1>4. k'[t] = k[t] + 1 /\ (\A u \in Threads \ {t} : k'[u] = k[u]) /\ k' \in [Threads -> 1 .. Programs + 1]
    <2>1. k[t] + 1 \in 1 .. Programs + 1
      BY <1>3
    <2> QED BY <1>1, <1>3, <2>1
  <1>5. t \notin in /\ t \notin leaving /\ alone # t
    BY <1>1 DEF TeamInv, Located
  <1>6. ~Combined /\ ~Combined'
    <2>1. ~Combined
      BY <1>5, Facts
    <2> QED BY <2>1, <1>2 DEF Combined
  <1>7. v \in Nat /\ v = Team!Expected(t, k[t])
    BY <1>1, ReturnedNat DEF TeamInv, WillReturn, Passed
  <1>8. result \in [Threads -> Seq(Nat)]
    BY DEF TeamInv, Typed
  <1>9. result'[t] = Append(result[t], v) /\ (\A u \in Threads \ {t} : result'[u] = result[u])
        /\ result' \in [Threads -> Seq(Nat)]
    BY <1>1, <1>7, <1>8
  <1>10. \A u \in Threads \ {t} :
            Located(u)' /\ Deposited(u)' /\ WillReturn(u)' /\ HasReturned(u)' /\ Round(u)' = Round(u)
    BY <1>1, <1>2, <1>4, <1>6, <1>9, Others
  <1>11. Located(t)'
    BY <1>1, <1>2, <1>3, <1>4, <1>5 DEF Located
  <1>12. Deposited(t)'
    BY <1>1, <1>2, <1>5 DEF Deposited
  <1>13. Passed(t) /\ ~Passed(t)'
    BY <1>1, <1>2, <1>5 DEF Passed
  <1>14. WillReturn(t)' /\ Round(t)' = Round(t)
    BY <1>4, <1>6, <1>13 DEF WillReturn, Round
  <1>15. HasReturned(t)'
    <2> PICK r : r = result[t]
      OBVIOUS
    <2>1. r \in Seq(Nat) /\ Len(r) = k[t] - 1 /\ result'[t] = Append(r, v)
      BY <1>8, <1>9 DEF TeamInv, HasReturned
    <2>2. Len(Append(r, v)) = k[t]
      BY <2>1, <1>3
    <2>3. ASSUME NEW n \in 1 .. k[t] PROVE Append(r, v)[n] = Team!Expected(t, n)
      <3>1. CASE n = k[t]
        BY <3>1, <2>1, <1>3, <1>7
      <3>2. CASE n # k[t]
        <4>1. n \in 1 .. Len(r)
          BY <3>2, <2>1, <1>3
        <4>2. Append(r, v)[n] = r[n]
          BY <4>1, <2>1
        <4> QED BY <4>1, <4>2 DEF TeamInv, HasReturned
      <3> QED BY <3>1, <3>2
    <2>4. Len(result'[t]) = k'[t] - 1
      BY <2>1, <2>2, <1>3, <1>4
    <2>5. \A n \in 1 .. Len(result'[t]) : result'[t][n] = Team!Expected(t, n)
      BY <2>1, <2>2, <2>3
    <2>6. \A n : Team!Expected(t, n)' = Team!Expected(t, n)
      BY <1>1, ExpectedSame
    <2> QED BY <2>4, <2>5, <2>6 DEF HasReturned
  <1>16. SameRound' /\ Accumulated'
    BY <1>1, <1>6, <1>10, <1>14, RoundsStay
  <1>17. Typed'
    BY <1>1, <1>2, <1>4, <1>9 DEF TeamInv, Typed
  <1> QED BY <1>10, <1>11, <1>12, <1>14, <1>15, <1>16, <1>17 DEF TeamInv

-----------------------------------------------------------------------------
\* What the source computes while it is alone, for each of the collectives.

\* When it is alone, the source has every contribution.
LEMMA CombineFacts ==
  ASSUME Team!TeamParameters, TeamInv, NEW t \in Threads, at[t] = "combine"
  PROVE  /\ k[t] \in 1 .. Programs /\ k[t] \in Nat /\ program[k[t]] \in Team!Calls /\ t = program[k[t]].source
         /\ in = Threads /\ alone = t /\ ~Combined
         /\ \A u \in Threads : k[u] = k[t] /\ ~Passed(u)
         /\ \A u \in Threads : u # t => at[u] = "wait"
         /\ \A u \in Threads \ {0} :
              /\ program[k[t]].op = "reduce" => local[u][1] = Team!Value(u, k[t])
              /\ program[k[t]].op \in {"scan", "scan_global"} => local[u][2] = Team!Value(u, k[t])
         /\ program[k[t]].op \notin {"broadcast", "broadcast_f"} => t = 0
         /\ global = Team!AddedBefore(k[t])
  <1>1. alone = t /\ in = Threads /\ t = program[k[t]].source
    BY DEF TeamInv, Located
  <1>2. \A u \in Threads : k[u] = k[t] /\ ~Passed(u) /\ at[u] \in {"wait", "combine", "release"}
    BY <1>1, Facts
  <1>3. \A u \in Threads : u # t => at[u] = "wait"
    BY <1>1, <1>2 DEF TeamInv, Located
  <1>4. ~Combined
    BY <1>3 DEF Combined
  <1>5. k[t] \in 1 .. Programs /\ k[t] \in Nat /\ program[k[t]] \in Team!Calls
    BY Facts
  <1>6. \A u \in Threads \ {0} :
              /\ program[k[t]].op = "reduce" => local[u][1] = Team!Value(u, k[t])
              /\ program[k[t]].op \in {"scan", "scan_global"} => local[u][2] = Team!Value(u, k[t])
    BY <1>1, <1>2, <1>4 DEF TeamInv, Deposited
  <1>7. program[k[t]].op \notin {"broadcast", "broadcast_f"} => t = 0
    BY <1>1, <1>5 DEF Team!Calls
  <1>8. global = Team!AddedBefore(k[t])
    BY <1>2, <1>4 DEF TeamInv, Accumulated, Round
  <1> QED BY <1>1, <1>2, <1>3, <1>4, <1>5, <1>6, <1>7, <1>8

\* Writing the first word of member 0.
LEMMA FirstWord ==
  ASSUME Team!TeamParameters, NEW words \in [Threads -> Nat \X Nat], NEW v \in Nat,
         NEW new, new = [words EXCEPT ![0][1] = v]
  PROVE  new \in [Threads -> Nat \X Nat] /\ new[0][1] = v
  <1>1. 0 \in Threads /\ words[0] \in Nat \X Nat
    BY ThreadsFinite
  <1> PICK a \in Nat, b \in Nat : words[0] = <<a, b>>
    BY <1>1
  <1>2. [words[0] EXCEPT ![1] = v] = <<v, b>>
    OBVIOUS
  <1>3. new = [words EXCEPT ![0] = <<v, b>>]
    BY <1>2
  <1> QED BY <1>1, <1>3

LEMMA ReducedWords ==
  ASSUME Team!TeamParameters, TeamInv, NEW t \in Threads, at[t] = "combine", program[k[t]].op = "reduce"
  PROVE  Team!Reduced(t) \in [Threads -> Nat \X Nat] /\ Team!Reduced(t)[0][1] = Team!SumOf(k[t], Threads)
  <1> PICK n \in Nat : n = k[t]
    BY Facts
  <1> DEFINE others == [u \in Threads \ {t} |-> local[u][1]]
  <1>1. t = 0 /\ \A u \in Threads \ {t} : others[u] = Team!Value(u, n)
    BY CombineFacts
  <1>2. SumFunction(others) = SumFunctionOnSet(others, Threads \ {t})
    BY DEF SumFunction
  <1>3. SumFunction(others) = Team!SumOf(n, Threads \ {t})
    <2>1. Threads \ {t} \in SUBSET Threads
      OBVIOUS
    <2> HIDE DEF others
    <2> QED BY <1>1, <1>2, <2>1, SumOfAny
  <1>4. Team!Value(t, n) + SumFunction(others) = Team!SumOf(n, Threads) /\ Team!SumOf(n, Threads) \in Nat
    BY <1>3, SumOfNat
  <1>5. Team!Reduced(t) = [local EXCEPT ![0][1] = Team!Value(t, n) + SumFunction(others)]
    BY TeamSums DEF Team!Reduced, Team!MyValue, SumFunction
  <1>6. local \in [Threads -> Nat \X Nat]
    BY DEF TeamInv, Typed
  <1> HIDE DEF others
  <1> PICK v \in Nat : v = Team!SumOf(n, Threads)
    BY <1>4
  <1>7. Team!Reduced(t) = [local EXCEPT ![0][1] = v]
    BY <1>4, <1>5
  <1> QED BY <1>6, <1>7, FirstWord

LEMMA ScannedWords ==
  ASSUME Team!TeamParameters, TeamInv, NEW t \in Threads, at[t] = "combine",
         program[k[t]].op \in {"scan", "scan_global"}, NEW shift \in Nat
  PROVE  /\ Team!Scanned(t, shift) \in [Threads -> Nat \X Nat]
         /\ \A u \in Threads : Team!Scanned(t, shift)[u] =
               <<shift + Team!SumOf(k[t], {v \in Threads : v < u}), Team!Value(u, k[t])>>
  <1> PICK n \in Nat : n = k[t]
    BY Facts
  <1> DEFINE value == [u \in Threads |-> IF u = t THEN Team!MyValue(t) ELSE local[u][2]]
  <1>1. t = 0 /\ \A u \in Threads : value[u] = Team!Value(u, n)
    BY CombineFacts DEF Team!MyValue
  <1>2. Team!Scanned(t, shift) = [u \in Threads |->
            <<shift + SumFunctionOnSet(value, {v \in Threads : v < u}), value[u]>>]
    BY TeamSums DEF Team!Scanned
  <1> HIDE DEF value
  <1>3. ASSUME NEW u \in Threads
        PROVE  /\ SumFunctionOnSet(value, {v \in Threads : v < u}) = Team!SumOf(n, {v \in Threads : v < u})
               /\ Team!SumOf(n, {v \in Threads : v < u}) \in Nat /\ Team!Value(u, n) \in Nat
    <2> PICK T : T = {v \in Threads : v < u}
      OBVIOUS
    <2>1. T \in SUBSET Threads
      OBVIOUS
    <2>2. SumFunctionOnSet(value, T) = Team!SumOf(n, T)
      BY <2>1, <1>1, SumOfAny
    <2>3. Team!SumOf(n, T) \in Nat
      BY <2>1, SumOfNat
    <2> QED BY <2>2, <2>3, ValueNat
  <1>4. \A u \in Threads : Team!Scanned(t, shift)[u] = <<shift + Team!SumOf(n, {v \in Threads : v < u}), Team!Value(u, n)>>
    BY <1>1, <1>2, <1>3
  <1>5. ASSUME NEW u \in Threads PROVE Team!Scanned(t, shift)[u] \in Nat \X Nat
    <2> PICK a \in Nat, b \in Nat : a = Team!SumOf(n, {v \in Threads : v < u}) /\ b = Team!Value(u, n)
      BY <1>3
    <2>1. Team!Scanned(t, shift)[u] = <<shift + a, b>>
      BY <1>4
    <2> QED BY <2>1
  <1>6. Team!Scanned(t, shift) \in [Threads -> Nat \X Nat]
    BY <1>2, <1>5
  <1> QED BY <1>4, <1>6

\* The last member's words add up to the sum of all.
LEMMA ScanTotalIs ==
  ASSUME Team!TeamParameters, TeamInv, NEW t \in Threads, at[t] = "combine",
         program[k[t]].op = "scan_global"
  PROVE  Team!ScanTotal(t) = Team!SumOf(k[t], Threads)
  <1> PICK n \in Nat : n = k[t]
    BY Facts
  <1> PICK last : last = Size - 1
    OBVIOUS
  <1>1. last \in Threads /\ {v \in Threads : v < last} = Threads \ {last}
    BY DEF Team!TeamParameters
  <1>2. Team!Scanned(t, 0)[last] = <<0 + Team!SumOf(n, Threads \ {last}), Team!Value(last, n)>>
    <2>1. Team!Scanned(t, 0)[last] = <<0 + Team!SumOf(n, {v \in Threads : v < last}), Team!Value(last, n)>>
      BY <1>1, ScannedWords
    <2> QED BY <2>1, <1>1
  <1>3. Team!SumOf(n, Threads \ {last}) \in Nat /\ Team!Value(last, n) \in Nat
        /\ Team!SumOf(n, Threads) = Team!Value(last, n) + Team!SumOf(n, Threads \ {last})
    BY <1>1, SumOfNat, ValueNat
  <1>4. Team!ScanTotal(t) = Team!Scanned(t, 0)[last][1] + Team!Scanned(t, 0)[last][2]
    BY DEF Team!ScanTotal
  <1> QED BY <1>2, <1>3, <1>4

\* Every member will read what the call has to return, and the accumulator is right.
LEMMA CombineWords ==
  ASSUME Team!TeamParameters, TeamInv, NEW t \in Threads, Team!Combine(t)
  PROVE  /\ local' \in [Threads -> Nat \X Nat] /\ global' \in Nat
         /\ \A u \in Threads : Team!Returned(u)' = Team!Expected(u, k[t])
         /\ global' = Team!AddedBefore(k[t] + 1)
  <1>1. at[t] = "combine" /\ UNCHANGED <<program, k>>
    BY DEF Team!Combine
  <1> PICK n, op, source : n \in Nat /\ n = k[t] /\ op = program[n].op /\ source = program[n].source
    BY Facts
  <1>2. /\ n \in 1 .. Programs /\ program[n] \in Team!Calls /\ t = source
        /\ \A u \in Threads : k[u] = n
        /\ op \notin {"broadcast", "broadcast_f"} => t = 0
        /\ global = Team!AddedBefore(n)
    BY <1>1, CombineFacts
  <1>3. op \in {"barrier", "reduce", "scan", "scan_global", "broadcast", "broadcast_f"}
    BY <1>2 DEF Team!Calls
  <1>4. local \in [Threads -> Nat \X Nat] /\ global \in Nat
    BY DEF TeamInv, Typed
  <1>5. Team!Value(t, n) \in Nat /\ Team!F(Team!Value(t, n)) \in Nat
    BY ValueNat
  <1>6. local' = CASE op = "barrier" -> local
                  [] op = "broadcast" -> [local EXCEPT ![0][1] = Team!Value(t, n)]
                  [] op = "broadcast_f" -> [local EXCEPT ![0][1] = Team!F(Team!Value(t, n))]
                  [] op = "reduce" -> Team!Reduced(t)
                  [] op = "scan" -> Team!Scanned(t, 0)
                  [] op = "scan_global" -> Team!Scanned(t, global)
    BY DEF Team!Combine, Team!Call, Team!MyValue
  <1>7. global' = IF op = "scan_global" THEN global + Team!ScanTotal(t) ELSE global
    BY DEF Team!Combine, Team!Call
  <1>8. \A u \in Threads : Team!Returned(u)' =
          CASE op = "barrier" -> 0
            [] op \in {"scan", "scan_global"} -> local'[u][1]
            [] op = "broadcast" /\ u = source -> Team!Value(u, n)
            [] op = "broadcast_f" /\ u = source -> Team!F(Team!Value(u, n))
            [] OTHER -> local'[0][1]
    BY <1>1, <1>2 DEF Team!Returned, Team!Call, Team!MyValue, Team!Value, Team!F
  <1>9. \A u \in Threads : Team!Expected(u, n) =
          CASE op = "barrier" -> 0
            [] op = "broadcast" -> Team!Value(source, n)
            [] op = "broadcast_f" -> Team!F(Team!Value(source, n))
            [] op = "reduce" -> Team!SumOf(n, Threads)
            [] op = "scan" -> Team!SumOf(n, {v \in Threads : v < u})
            [] op = "scan_global" -> Team!AddedBefore(n) + Team!SumOf(n, {v \in Threads : v < u})
    BY DEF Team!Expected
  <1>10. Team!AddedBefore(n + 1) = Team!AddedBefore(n) + (IF op = "scan_global" THEN Team!SumOf(n, Threads) ELSE 0)
         /\ Team!SumOf(n, Threads) \in Nat
    BY <1>2, AddedBeforeIs, SumOfNat
  <1> PICK added \in Nat : added = Team!AddedBefore(n)
    BY <1>2, <1>4
  <1>11. global' = Team!AddedBefore(n + 1) /\ global' \in Nat
    <2>1. CASE op = "scan_global"
      <3>1. Team!ScanTotal(t) = Team!SumOf(n, Threads)
        BY <1>1, <2>1, ScanTotalIs
      <3>2. global' = added + Team!SumOf(n, Threads) /\ Team!AddedBefore(n + 1) = added + Team!SumOf(n, Threads)
        BY <2>1, <3>1, <1>2, <1>7, <1>10
      <3> QED BY <3>2, <1>10
    <2>2. CASE op # "scan_global"
      <3>1. global' = added /\ Team!AddedBefore(n + 1) = added + 0
        BY <2>2, <1>2, <1>7, <1>10
      <3> QED BY <3>1
    <2> QED BY <2>1, <2>2
  <1>12. local' \in [Threads -> Nat \X Nat] /\ \A u \in Threads : Team!Returned(u)' = Team!Expected(u, n)
    <2>1. CASE op = "barrier"
      BY <2>1, <1>4, <1>6, <1>8, <1>9
    <2>2. CASE op = "broadcast"
      <3>1. local' = [local EXCEPT ![0][1] = Team!Value(t, n)]
        BY <2>2, <1>6
      <3>2. local' \in [Threads -> Nat \X Nat] /\ local'[0][1] = Team!Value(t, n)
        BY <3>1, <1>4, <1>5, FirstWord
      <3> QED BY <2>2, <3>2, <1>2, <1>8, <1>9
    <2>3. CASE op = "broadcast_f"
      <3>1. local' = [local EXCEPT ![0][1] = Team!F(Team!Value(t, n))]
        BY <2>3, <1>6
      <3>2. local' \in [Threads -> Nat \X Nat] /\ local'[0][1] = Team!F(Team!Value(t, n))
        BY <3>1, <1>4, <1>5, FirstWord
      <3> QED BY <2>3, <3>2, <1>2, <1>8, <1>9
    <2>4. CASE op = "reduce"
      <3>1. local' \in [Threads -> Nat \X Nat] /\ local'[0][1] = Team!SumOf(n, Threads)
        BY <2>4, <1>1, <1>6, ReducedWords
      <3> QED BY <2>4, <3>1, <1>8, <1>9
    <2>5. CASE op \in {"scan", "scan_global"}
      <3> PICK shift \in Nat : shift = IF op = "scan" THEN 0 ELSE global
        BY <1>4
      <3>1. local' = Team!Scanned(t, shift)
        BY <2>5, <1>6
      <3>2. /\ local' \in [Threads -> Nat \X Nat]
            /\ \A u \in Threads : local'[u] = <<shift + Team!SumOf(n, {v \in Threads : v < u}), Team!Value(u, n)>>
        BY <2>5, <3>1, <1>1, ScannedWords
      <3>3. ASSUME NEW u \in Threads PROVE Team!Returned(u)' = Team!Expected(u, n)
        <4> PICK a : a = Team!SumOf(n, {v \in Threads : v < u})
          OBVIOUS
        <4>1. a \in Nat
          BY SumOfNat
        <4>2. local'[u][1] = shift + a
          BY <3>2
        <4>3. Team!Returned(u)' = shift + a
          BY <4>2, <2>5, <1>8
        <4>4. Team!Expected(u, n) = IF op = "scan" THEN a ELSE Team!AddedBefore(n) + a
          BY <2>5, <1>9
        <4>5. CASE op = "scan"
          BY <4>1, <4>3, <4>4, <4>5
        <4>6. CASE op # "scan"
          BY <4>1, <4>3, <4>4, <4>6, <1>2
        <4> QED BY <4>5, <4>6
      <3> QED BY <3>2, <3>3
    <2> QED BY <1>3, <2>1, <2>2, <2>3, <2>4, <2>5
  <1> QED BY <1>11, <1>12

LEMMA CombineInv ==
  ASSUME Team!TeamParameters, TeamInv, NEW t \in Threads, Team!Combine(t)
  PROVE  TeamInv'
  <1>1. at[t] = "combine" /\ at' = [at EXCEPT ![t] = "release"]
        /\ UNCHANGED <<in, leaving, alone, program, k, result>>
    BY DEF Team!Combine, Team!rvars
  <1>2. at'[t] = "release" /\ (\A u \in Threads \ {t} : at'[u] = at[u]) /\ at' \in [Threads -> Places]
    BY <1>1 DEF TeamInv, Typed, Places
  <1>3. /\ in = Threads /\ alone = t /\ t = program[k[t]].source
        /\ \A u \in Threads : k[u] = k[t] /\ ~Passed(u)
        /\ \A u \in Threads : u # t => at[u] = "wait"
    BY <1>1, CombineFacts
  <1>4. /\ local' \in [Threads -> Nat \X Nat] /\ global' \in Nat
        /\ \A u \in Threads : Team!Returned(u)' = Team!Expected(u, k[t])
        /\ global' = Team!AddedBefore(k[t] + 1)
    BY CombineWords
  <1>5. Combined'
    BY <1>2 DEF Combined
  <1>6. \A u \in Threads : ~Passed(u)' /\ Round(u)' = k[t] /\ Round(u) = k[t]
    BY <1>1, <1>2, <1>3 DEF Passed, Round
  <1>7. SameRound' /\ Accumulated'
    BY <1>1, <1>4, <1>5, <1>6, ExpectedSame DEF SameRound, Accumulated
  <1>8. ASSUME NEW u \in Threads
        PROVE  Located(u)' /\ Deposited(u)' /\ WillReturn(u)' /\ HasReturned(u)'
    <2>1. Located(u)'
      BY <1>1, <1>2, <1>3 DEF TeamInv, Located
    <2>2. Deposited(u)'
      BY <1>5 DEF Deposited
    <2>3. WillReturn(u)'
      BY <1>1, <1>3, <1>4, ExpectedSame DEF WillReturn
    <2>4. HasReturned(u)'
      BY <1>1, ExpectedSame DEF TeamInv, HasReturned
    <2> QED BY <2>1, <2>2, <2>3, <2>4
  <1>9. Typed'
    BY <1>1, <1>2, <1>4 DEF TeamInv, Typed
  <1> QED BY <1>7, <1>8, <1>9 DEF TeamInv

LEMMA TeamInvNext ==
  ASSUME Team!TeamParameters, TeamInv, [Team!Next]_Team!vars
  PROVE  TeamInv'
  <1>1. CASE UNCHANGED Team!vars
    <2>1. UNCHANGED <<in, leaving, alone, program, k, at, local, global, result>>
      BY <1>1 DEF Team!vars
    <2>2. Combined' <=> Combined
      BY <2>1 DEF Combined
    <2>3. \A u \in Threads :
            Located(u)' /\ Deposited(u)' /\ WillReturn(u)' /\ HasReturned(u)' /\ Round(u)' = Round(u)
      BY <2>1, <2>2, Others
    <2>4. SameRound' /\ Accumulated'
      BY <2>1, <2>2, <2>3, RoundsStay
    <2>5. Typed'
      BY <2>1 DEF TeamInv, Typed
    <2> QED BY <2>3, <2>4, <2>5 DEF TeamInv
  <1>2. ASSUME NEW t \in Threads, Team!Step(t) PROVE TeamInv'
    BY <1>2, DepositInv, EnterInv, RendezvousedInv, CombineInv, ReleaseTeamInv, ReleasedInv, ReturnInv DEF Team!Step
  <1> QED BY <1>1, <1>2 DEF Team!Next, Team!Finished

\* The rendezvous, the scratch memory and the locals have their types, and a member has
\* one result for each collective that it has left.
THEOREM TeamTypes ==
  Team!Spec => []Team!TypeOK
  <1>1. Team!Init => TeamInv
    BY TeamInvInit, MembersAssumption
  <1>2. TeamInv /\ [Team!Next]_Team!vars => TeamInv'
    BY TeamInvNext, MembersAssumption
  <1>3. TeamInv => Team!TypeOK
    BY DEF TeamInv, Typed, Places, HasReturned, Team!TypeOK
  <1> QED BY <1>1, <1>2, <1>3, PTL DEF Team!Spec

\* In teams of any size, and in programs of any length, every collective returns to every
\* member the broadcast value, the sum or the prefix sum of that very call.
THEOREM TeamCollectivesCorrect ==
  Team!Spec => []CollectivesCorrect
  <1>1. Team!Init => TeamInv
    BY TeamInvInit, MembersAssumption
  <1>2. TeamInv /\ [Team!Next]_Team!vars => TeamInv'
    BY TeamInvNext, MembersAssumption
  <1>3. TeamInv => CollectivesCorrect
    BY DEF TeamInv, HasReturned, CollectivesCorrect, Team!CollectivesCorrect
  <1> QED BY <1>1, <1>2, <1>3, PTL DEF Team!Spec
=============================================================================
