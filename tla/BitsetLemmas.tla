---------------------------- MODULE BitsetLemmas ----------------------------
(***************************************************************************)
(* Facts about numbers, powers of two and the search of the concurrent     *)
(* bitset, for the proofs about the modules that use the bitset.           *)
(***************************************************************************)
EXTENDS ConcurrentBitset, FiniteSetTheorems, WellFoundedInduction, TLAPS

\* A nonempty set of natural numbers has a least element.
LEMMA LeastNatural ==
  ASSUME NEW S \in SUBSET Nat, S # {}
  PROVE  \E m \in S : \A k \in S : m <= k
  <1>1. IsWellFoundedOn(OpToRel(<, Nat), Nat)
    BY NatLessThanWellFounded
  <1>2. PICK R : R = OpToRel(<, Nat)
    OBVIOUS
  <1>3. \A k, m \in Nat : k < m => <<k, m>> \in R
    BY <1>2 DEF OpToRel
  <1>4. IsWellFoundedOn(R, Nat)
    BY <1>1, <1>2
  <1>5. PICK m \in S : \A k \in S : ~(<<k, m>> \in R)
    BY <1>4, WFMin
  <1>6. ASSUME NEW k \in S PROVE m <= k
    <2>1. k \in Nat /\ m \in Nat
      OBVIOUS
    <2>2. ~(k < m)
      BY <2>1, <1>3, <1>5, Zenon
    <2> QED BY <2>1, <2>2
  <1> QED BY <1>6

\* Quotient and remainder.
LEMMA DivFacts ==
  ASSUME NEW a \in Nat, NEW b \in Nat \ {0}
  PROVE  /\ a \div b \in Nat /\ a % b \in Nat /\ a % b < b
         /\ b * (a \div b) <= a /\ a < b * (a \div b) + b
  <1>1. a \div b \in Nat /\ a % b \in Nat /\ a % b < b
    OBVIOUS
  <1>2. b * (a \div b) <= a
    BY Z3
  <1>3. a < b * (a \div b) + b
    OBVIOUS
  <1> QED BY <1>1, <1>2, <1>3

\* bit_first_zero returns the least zero of the word.
LEMMA FirstZeroLeast ==
  ASSUME NEW bits, NEW word \in Nat
  PROVE  LET j == FirstZero(bits, word) IN
         \/ j = -1 /\ \A k \in 0 .. BitsPerInt - 1 : word * BitsPerInt + k \in bits
         \/ /\ j \in 0 .. BitsPerInt - 1 /\ word * BitsPerInt + j \notin bits
            /\ \A k \in 0 .. BitsPerInt - 1 : word * BitsPerInt + k \notin bits => j <= k
  <1> DEFINE zeros == {j \in 0 .. BitsPerInt - 1 : word * BitsPerInt + j \notin bits}
  <1>1. CASE zeros = {}
    BY <1>1 DEF FirstZero
  <1>2. CASE zeros # {}
    <2>0. zeros \in SUBSET Nat
      BY BitsPerIntAssumption
    <2>1. \E m \in zeros : \A k \in zeros : m <= k
      BY <1>2, <2>0, LeastNatural
    <2>2. FirstZero(bits, word) = CHOOSE j \in zeros : \A k \in zeros : j <= k
      BY <1>2 DEF FirstZero
    <2> HIDE DEF zeros
    <2>3. FirstZero(bits, word) \in zeros /\ \A k \in zeros : FirstZero(bits, word) <= k
      BY <2>1, <2>2
    <2> QED BY <2>3 DEF zeros
  <1> QED BY <1>1, <1>2

\* The search of acquire_bounded stays within the bound as long as a bit below
\* it is clear.
LEMMA NextBitInBound ==
  ASSUME NEW bound \in Nat \ {0}, NEW bits, NEW bit \in 0 .. bound - 1,
         NEW z \in 0 .. bound - 1, z \notin bits
  PROVE  NextBit(bits, bit, bound, FALSE) \in 0 .. bound - 1
  <1> DEFINE B     == BitsPerInt
             word  == Word(bit)
             j     == FirstZero(bits, word)
             found == IF 0 <= j THEN word * B + j ELSE bit
             start == IF word + 1 < bound \div B THEN (word + 1) * B ELSE 0
  <1>b. B \in Nat \ {0} /\ bit \in Nat /\ bit < bound /\ z \in Nat /\ z < bound
    BY BitsPerIntAssumption
  <1>w. word \in Nat /\ B * word <= bit /\ bit < B * word + B
    BY <1>b, DivFacts DEF Word
  <1>j. \/ j = -1 /\ \A k \in 0 .. B - 1 : word * B + k \in bits
        \/ /\ j \in 0 .. B - 1
           /\ \A k \in 0 .. B - 1 : word * B + k \notin bits => j <= k
    BY <1>w, FirstZeroLeast
  <1>n. NextBit(bits, bit, bound, FALSE) =
          IF j < 0 \/ bound <= found THEN start + (found % B) ELSE found
    BY DEF NextBit
  <1>m. word * B = B * word /\ word * B \in Nat /\ (word + 1) * B = B * word + B
    BY <1>b, <1>w
  <1> DEFINE next == NextBit(bits, bit, bound, FALSE)
  <1> HIDE DEF word, j, B, next
  <1> SUFFICES next \in 0 .. bound - 1
    BY DEF next
  <1>x. next = IF j < 0 \/ bound <= found THEN start + (found % B) ELSE found
    BY <1>n DEF next
  <1>f. found \in Nat
    BY <1>b, <1>j, <1>m
  <1>r. found % B \in Nat /\ found % B < B
    BY <1>f, <1>b, DivFacts
  <1>1. CASE ~(j < 0 \/ bound <= found)
    BY <1>1, <1>x, <1>f, <1>b
  <1>2. CASE (j < 0 \/ bound <= found) /\ word + 1 < bound \div B
    <2> DEFINE q == bound \div B
    <2>1. q \in Nat /\ B * q <= bound
      BY <1>b, DivFacts
    <2> HIDE DEF q
    <2>2. B * (word + 2) <= B * q
      <3>1. word + 2 <= q
        BY <1>2, <2>1, <1>w DEF q
      <3>2. \A x, y \in Nat : x <= y => B * x <= B * y
        BY <1>b
      <3> QED BY <3>1, <3>2, <2>1, <1>w
    <2>3. B * (word + 2) = B * word + B + B
      BY <1>b, <1>w
    <2>4. start = B * word + B
      BY <1>2, <1>m
    <2>5. start + (found % B) < bound /\ start + (found % B) \in Nat
      BY <2>1, <2>2, <2>3, <2>4, <1>m, <1>r, <1>b, <1>w
    <2> QED BY <2>5, <1>2, <1>x, <1>b
  <1>3. CASE (j < 0 \/ bound <= found) /\ ~(word + 1 < bound \div B)
    <2>1. next = found % B
      BY <1>3, <1>x, <1>r
    <2>2. CASE B <= bound
      BY <2>1, <2>2, <1>r, <1>b
    \* A bound within the first word: the first zero of the word is below it.
    <2>3. CASE bound < B
      <3>1. B * word < B
        BY <2>3, <1>b, <1>w, <1>m
      <3>2. word = 0
        <4>1. \A x \in Nat : x >= 1 => B * x >= B
          BY <1>b
        <4> QED BY <3>1, <4>1, <1>w, <1>b
      <3>3. word * B + z = z /\ z \in 0 .. B - 1
        BY <3>2, <2>3, <1>b
      <3>4. j \in 0 .. B - 1 /\ j <= z
        BY <3>3, <1>j
      <3>5. found = j
        BY <3>2, <3>4, <1>b
      <3> QED BY <3>4, <3>5, <1>3, <1>b
    <2> QED BY <2>2, <2>3, <1>b
  <1> QED BY <1>1, <1>2, <1>3

-----------------------------------------------------------------------------
\* A power of two is the number of subsets of a finite set, and so a number.
LEMMA PowerIsSubsets ==
  ASSUME NEW n \in Nat
  PROVE  /\ IsFiniteSet(SUBSET (1 .. n)) /\ Cardinality(SUBSET (1 .. n)) = 2^n
         /\ 2^n \in Nat \ {0}
  <1>1. IsFiniteSet(1 .. n) /\ Cardinality(1 .. n) = n
    BY FS_Interval
  <1>2. IsFiniteSet(SUBSET (1 .. n)) /\ Cardinality(SUBSET (1 .. n)) = 2^n
    BY <1>1, FS_SUBSET
  <1>3. 2^n \in Nat
    BY <1>2, FS_CardinalityType
  <1>4. SUBSET (1 .. n) # {}
    OBVIOUS
  <1>5. 2^n # 0
    BY <1>2, <1>4, FS_EmptySet
  <1> QED BY <1>2, <1>3, <1>5

\* The next power of two is the double.
LEMMA PowerSucc ==
  ASSUME NEW n \in Nat
  PROVE  2^(n + 1) = 2 * 2^n
  <1>1. PICK A : A = SUBSET (1 .. n)
    OBVIOUS
  <1>2. PICK B : B = {T \cup {n + 1} : T \in A}
    OBVIOUS
  <1>3. IsFiniteSet(A) /\ Cardinality(A) = 2^n /\ 2^n \in Nat
    BY <1>1, PowerIsSubsets
  <1>4. \A T \in A : n + 1 \notin T
    BY <1>1
  <1>5. SUBSET (1 .. n + 1) = A \cup B
    <2>1. 1 .. n + 1 = (1 .. n) \cup {n + 1}
      OBVIOUS
    <2>2. ASSUME NEW S \in SUBSET (1 .. n + 1) PROVE S \in A \cup B
      <3>1. CASE n + 1 \in S
        <4>1. S \ {n + 1} \in A /\ S = (S \ {n + 1}) \cup {n + 1}
          BY <1>1, <2>1, <3>1
        <4> QED BY <1>2, <4>1
      <3>2. CASE n + 1 \notin S
        BY <1>1, <2>1, <3>2
      <3> QED BY <3>1, <3>2
    <2>3. ASSUME NEW S \in A \cup B PROVE S \in SUBSET (1 .. n + 1)
      BY <1>1, <1>2, <2>1
    <2> QED BY <2>2, <2>3
  <1>6. A \cap B = {}
    BY <1>2, <1>4
  <1>7. IsFiniteSet(B) /\ Cardinality(B) = 2^n
    <2>1. PICK f : f = [T \in A |-> T \cup {n + 1}]
      OBVIOUS
    <2>2. ASSUME NEW S \in A, NEW T \in A, S \cup {n + 1} = T \cup {n + 1} PROVE S = T
      <3>1. n + 1 \notin S /\ n + 1 \notin T
        BY <1>4
      <3>2. (S \cup {n + 1}) \ {n + 1} = S /\ (T \cup {n + 1}) \ {n + 1} = T
        BY <3>1
      <3> QED BY <2>2, <3>2
    <2>3. f \in Bijection(A, B)
      <3>1. f \in [A -> B]
        BY <2>1, <1>2
      <3>2. \A S, T \in A : f[S] = f[T] => S = T
        BY <2>1, <2>2
      <3>3. \A S \in B : \E T \in A : f[T] = S
        BY <2>1, <1>2
      <3> QED BY <3>1, <3>2, <3>3 DEF Bijection, Injection, Surjection, IsInjective
    <2> QED BY <2>3, <1>3, FS_Bijection DEF ExistsBijection
  <1>8. Cardinality(A \cup B) = Cardinality(A) + Cardinality(B) - Cardinality(A \cap B)
    BY <1>3, <1>7, FS_Union
  <1>9. Cardinality(A \cap B) = 0
    BY <1>6, FS_EmptySet
  <1>10. Cardinality(SUBSET (1 .. n + 1)) = 2^(n + 1)
    <2>1. n + 1 \in Nat
      OBVIOUS
    <2> QED BY <2>1, PowerIsSubsets
  <1>11. PICK p \in Nat : p = 2^n
    BY <1>3
  <1>12. Cardinality(A \cup B) = p + p
    BY <1>3, <1>7, <1>8, <1>9, <1>11
  <1>13. 2^(n + 1) = p + p
    BY <1>5, <1>10, <1>12
  <1> QED BY <1>11, <1>13

\* The exponents of a product of powers add up.
LEMMA PowerSum ==
  ASSUME NEW a \in Nat, NEW b \in Nat
  PROVE  2^(a + b) = 2^a * 2^b
  <1>1. PICK S : S = {n \in Nat : 2^(a + n) # 2^a * 2^n}
    OBVIOUS
  <1>2. SUFFICES ASSUME S # {} PROVE FALSE
    BY <1>1
  <1>3. PICK m \in S : \A k \in S : m <= k
    BY <1>1, <1>2, LeastNatural
  <1>4. m \in Nat /\ 2^(a + m) # 2^a * 2^m
    BY <1>1
  <1>5. 2^a \in Nat
    BY PowerIsSubsets
  <1>6. CASE m = 0
    <2>1. a + m = a /\ 2^m = 1
      BY <1>6
    <2> QED BY <1>4, <1>5, <2>1
  <1>7. CASE m # 0
    <2>1. PICK k \in Nat : m = k + 1
      <3>1. m - 1 \in Nat /\ m = (m - 1) + 1
        BY <1>4, <1>7
      <3> QED BY <3>1
    <2>2. 2^(a + k) = 2^a * 2^k
      <3>1. ~(m <= k)
        BY <2>1
      <3> QED BY <1>1, <1>3, <3>1
    <2>3. 2^k \in Nat /\ 2^m = 2 * 2^k
      BY <2>1, PowerIsSubsets, PowerSucc
    <2>4. 2^(a + m) = 2 * 2^(a + k)
      <3>1. a + k \in Nat /\ a + m = (a + k) + 1
        BY <2>1
      <3> QED BY <3>1, PowerSucc
    <2>5. \A x, y \in Nat : 2 * (x * y) = x * (2 * y)
      OBVIOUS
    <2> QED BY <1>4, <1>5, <2>2, <2>3, <2>4, <2>5
  <1> QED BY <1>6, <1>7

\* A larger exponent: the smaller power divides the larger one.
LEMMA PowerSplit ==
  ASSUME NEW a \in Nat, NEW b \in Nat, a <= b
  PROVE  /\ b - a \in Nat /\ 2^b = 2^a * 2^(b - a)
         /\ 2^a \in Nat \ {0} /\ 2^b \in Nat \ {0} /\ 2^(b - a) \in Nat \ {0}
         /\ 2^a <= 2^b
  <1>1. b - a \in Nat /\ b = a + (b - a)
    OBVIOUS
  <1>2. 2^a \in Nat \ {0} /\ 2^b \in Nat \ {0} /\ 2^(b - a) \in Nat \ {0}
    BY <1>1, PowerIsSubsets
  <1>3. 2^b = 2^a * 2^(b - a)
    BY <1>1, PowerSum
  <1>4. \A x, y \in Nat \ {0} : x <= x * y
    OBVIOUS
  <1> QED BY <1>1, <1>2, <1>3, <1>4

\* A number is below its power of two.
LEMMA PowerAbove ==
  ASSUME NEW n \in Nat
  PROVE  n < 2^n
  <1>1. PICK S : S = {k \in Nat : ~(k < 2^k)}
    OBVIOUS
  <1>2. SUFFICES ASSUME S # {} PROVE FALSE
    BY <1>1
  <1>3. PICK m \in S : \A k \in S : m <= k
    BY <1>1, <1>2, LeastNatural
  <1>4. m \in Nat /\ ~(m < 2^m)
    BY <1>1
  <1>5. m # 0
    <2>1. m = 0 => 2^m = 1
      OBVIOUS
    <2> QED BY <1>4, <2>1
  <1>6. PICK k \in Nat : m = k + 1
    <2>1. m - 1 \in Nat /\ m = (m - 1) + 1
      BY <1>4, <1>5
    <2> QED BY <2>1
  <1>7. k < 2^k
    <2>1. ~(m <= k)
      BY <1>6
    <2> QED BY <1>1, <1>3, <2>1
  <1>8. 2^m = 2 * 2^k /\ 2^k \in Nat
    BY <1>6, PowerSucc, PowerIsSubsets
  <1> QED BY <1>4, <1>6, <1>7, <1>8

-----------------------------------------------------------------------------
\* The search of acquire_bounded_lg2, with powers of two for the bits of a word
\* and for the bound, stays within the bound as long as a bit below it is clear.
LEMMA NextBitInPower ==
  ASSUME NEW n \in Nat, NEW k \in Nat, BitsPerInt = 2^k,
         NEW bits, NEW bit \in 0 .. 2^n - 1, NEW z \in 0 .. 2^n - 1, z \notin bits
  PROVE  NextBit(bits, bit, 2^n, TRUE) \in 0 .. 2^n - 1
  <1>1. PICK bound \in Nat \ {0} : bound = 2^n
    BY PowerIsSubsets
  <1>2. PICK B \in Nat \ {0} : B = BitsPerInt
    BY BitsPerIntAssumption
  <1>b. bit \in Nat /\ bit < bound /\ z \in Nat /\ z < bound
    BY <1>1
  <1>3. PICK word \in Nat : word = Word(bit) /\ B * word <= bit /\ bit < B * word + B
    BY <1>2, <1>b, DivFacts DEF Word
  <1>4. PICK j : j = FirstZero(bits, word)
    OBVIOUS
  <1>5. \/ j = -1 /\ \A i \in 0 .. B - 1 : word * B + i \in bits
        \/ /\ j \in 0 .. B - 1
           /\ \A i \in 0 .. B - 1 : word * B + i \notin bits => j <= i
    BY <1>2, <1>4, FirstZeroLeast
  <1>6. PICK q : q = bound \div B
    OBVIOUS
  <1>7. PICK r : r = bit % B /\ r \in Nat /\ r < B
    BY <1>b, DivFacts
  <1>8. PICK next : next = NextBit(bits, bit, 2^n, TRUE)
    OBVIOUS
  <1> SUFFICES next \in 0 .. bound - 1
    BY <1>1, <1>8, Zenon
  <1>9. /\ 0 <= j => next = word * B + j
        /\ j < 0 => next = (IF word + 1 < q THEN (word + 1) * B ELSE 0) + r
    BY <1>1, <1>2, <1>3, <1>4, <1>5, <1>6, <1>7, <1>8 DEF NextBit
  <1>m. word * B = B * word /\ word * B \in Nat /\ (word + 1) * B = B * word + B
    OBVIOUS
  <1>10. CASE k <= n
    <2>1. PICK c \in Nat \ {0} : bound = B * c
      <3>1. n - k \in Nat /\ 2^n = 2^k * 2^(n - k) /\ 2^(n - k) \in Nat \ {0}
        BY <1>10, PowerSplit
      <3> QED BY <3>1, <1>1, <1>2
    <2>2. q = c
      <3>1. q \in Nat /\ B * q <= B * c /\ B * c < B * q + B
        BY <2>1, <1>6, DivFacts
      <3>2. \A x, y \in Nat : x < y => B * x + B <= B * y
        <4>1. ASSUME NEW x \in Nat, NEW y \in Nat, x < y PROVE B * x + B <= B * y
          <5>1. y - x - 1 \in Nat /\ y = x + 1 + (y - x - 1)
            BY <4>1
          <5>2. PICK d \in Nat : y = x + 1 + d
            BY <5>1
          <5>3. B * y = B * x + B + B * d /\ B * d \in Nat
            BY <5>2
          <5> QED BY <5>3
        <4> QED BY <4>1
      <3>3. B * q \in Nat /\ B * c \in Nat
        BY <3>1
      <3> QED BY <3>1, <3>2, <3>3
    <2>3. ASSUME NEW x \in Nat, x < c PROVE B * x + B <= bound /\ B * x \in Nat
      <3>1. PICK d \in Nat : c = x + 1 + d
        <4>1. c - x - 1 \in Nat /\ c = x + 1 + (c - x - 1)
          BY <2>3
        <4> QED BY <4>1
      <3>2. B * c = B * x + B + B * d /\ B * d \in Nat
        BY <3>1
      <3> QED BY <2>1, <3>2
    <2>4. word < c
      <3> SUFFICES ASSUME c <= word PROVE FALSE
        OBVIOUS
      <3>1. PICK d \in Nat : word = c + d
        <4>1. word - c \in Nat /\ word = c + (word - c)
          OBVIOUS
        <4> QED BY <4>1
      <3>2. B * word = B * c + B * d /\ B * d \in Nat
        BY <3>1
      <3> QED BY <3>2, <2>1, <1>3, <1>b
    <2>5. B * word + B <= bound
      BY <2>3, <2>4
    <2>6. CASE 0 <= j
      <3>1. j \in Nat /\ j < B
        BY <2>6, <1>5
      <3>2. next \in Nat /\ next < bound
        BY <3>1, <2>5, <2>6, <1>9, <1>m
      <3> QED BY <3>2
    <2>7. CASE j < 0 /\ word + 1 < q
      <3>1. B * (word + 1) + B <= bound
        BY <2>2, <2>3, <2>7
      <3>2. next \in Nat /\ next < bound
        BY <3>1, <2>7, <1>7, <1>9, <1>m
      <3> QED BY <3>2
    <2>8. CASE j < 0 /\ ~(word + 1 < q)
      <3>1. next = r
        BY <2>8, <1>7, <1>9
      <3>2. B <= bound
        BY <2>3
      <3> QED BY <3>1, <3>2, <1>7
    <2> QED BY <2>6, <2>7, <2>8, <1>5
  \* A bound within the first word: the first zero of the word is below it.
  <1>11. CASE n < k
    <2>1. bound <= B
      BY <1>11, <1>1, <1>2, PowerSplit
    <2>2. word = 0
      <3>1. B * word < B
        BY <2>1, <1>3, <1>b
      <3>2. \A x \in Nat : x >= 1 => B * x >= B
        OBVIOUS
      <3> QED BY <3>1, <3>2
    <2>3. word * B + z = z /\ z \in 0 .. B - 1
      BY <2>1, <2>2, <1>b
    <2>4. j \in 0 .. B - 1 /\ j <= z
      BY <2>3, <1>5
    <2>5. next = j
      BY <2>2, <2>4, <1>9
    <2> QED BY <2>4, <2>5, <1>b
  <1> QED BY <1>10, <1>11

\* Quotient and remainder of a sum of a multiple and a rest.
LEMMA DivOfSum ==
  ASSUME NEW b \in Nat \ {0}, NEW q \in Nat, NEW r \in Nat, r < b
  PROVE  (q * b + r) \div b = q /\ (q * b + r) % b = r
  <1>1. (q * b + r) \div b = q
    BY Z3
  <1>2. (q * b + r) % b = r
    BY Z3
  <1> QED BY <1>1, <1>2

\* Taking an element into a finite set, or out of it.
LEMMA CountChange ==
  ASSUME NEW S, NEW T, NEW x, IsFiniteSet(S), S \ {x} = T \ {x}
  PROVE  /\ IsFiniteSet(T) /\ Cardinality(S) \in Nat
         /\ (x \in S <=> x \in T) => T = S
         /\ x \notin S /\ x \in T => Cardinality(T) = Cardinality(S) + 1
         /\ x \in S /\ x \notin T => Cardinality(T) = Cardinality(S) - 1
  <1>1. Cardinality(S) \in Nat
    BY FS_CardinalityType
  <1>2. /\ (x \in S <=> x \in T) => T = S
        /\ x \notin S /\ x \in T => T = S \cup {x}
        /\ x \in S /\ x \notin T => T = S \ {x}
    OBVIOUS
  <1>3. IsFiniteSet(S \cup {x}) /\ (x \notin S => Cardinality(S \cup {x}) = Cardinality(S) + 1)
    BY FS_AddElement
  <1>4. IsFiniteSet(S \ {x}) /\ (x \in S => Cardinality(S \ {x}) = Cardinality(S) - 1)
    BY FS_RemoveElement
  <1> QED BY <1>1, <1>2, <1>3, <1>4
=============================================================================
