-------------------------- MODULE MemoryPoolProofs --------------------------
(***************************************************************************)
(* That allocate returns disjoint blocks and that deallocate takes them    *)
(* back, for any number of threads and any shape of the pool.              *)
(*                                                                         *)
(* The argument counts claims, superblock by superblock.  The word of a    *)
(* superblock counts its live blocks and the threads that look for one,    *)
(* hold one or give one back.  Whoever relies on the size of the blocks is *)
(* counted, and only a superblock that counts nobody is assigned to        *)
(* another size.                                                           *)
(***************************************************************************)
EXTENDS MemoryPool, BitsetLemmas

CallType ==
    [at : {"idle", "undo", "or", "and", "sub", "done"}, on : Buffers,
     bit : Nat \cup {-1, -2, -3}, bound : Nat, lg2 : BOOLEAN]

WordType == [header : Nat, used : Nat, bits : SUBSET Nat]

LocalType ==
    [pc : {"idle", "hint", "check", "claim", "claiming", "search", "readempty",
           "assign", "sethint", "free", "freeing"},
     size : Nat, limit : 0 .. shape.limit, sb : Superblocks \cup {-1}, state : Nat,
     hinted : Superblocks \cup {-1}, i : Nat, empty : Superblocks \cup {-1},
     large : Int, update : BOOLEAN]

Types ==
    /\ shape \in Shapes
    /\ buffer \in [Buffers -> WordType]
    /\ \A s \in Superblocks : buffer[s].header \in Headers
    /\ call \in [Threads -> CallType]
    /\ hint \in [Headers -> Superblocks]
    /\ local \in [Threads -> LocalType]
    /\ live \in SUBSET [at : Nat, bytes : Nat, size : Nat] /\ IsFiniteSet(live)
    /\ alone \in SUBSET Threads
    /\ aborted = FALSE

\* t has the bit BitOf(t) of the superblock local[t].sb; looks for a bit; is
\* counted although it will have no bit, or has none any more.
Owns(t) ==
    \/ local[t].pc = "claiming" /\ call[t].at = "done" /\ call[t].bit >= 0
    \/ local[t].pc = "free"
    \/ local[t].pc = "freeing" /\ call[t].at = "and"
BitOf(t) == IF local[t].pc = "claiming" THEN call[t].bit ELSE local[t].i
Seeks(t) == local[t].pc = "claiming" /\ call[t].at = "or"
Lingers(t) ==
    \/ local[t].pc = "claiming" /\ call[t].at = "undo"
    \/ local[t].pc = "freeing" /\ call[t].at = "sub"

\* What the locals of t are between its steps.
Resting(t) == local[t].pc = "idle" /\ call[t].at = "idle"

Asks(t) ==
    /\ local[t].size \in 1 .. 2^shape.max
    /\ local[t].limit >= 1
    /\ local[t].state \in Headers /\ local[t].state <= Want(t)

Plans(t) ==
    /\ Asks(t) /\ call[t].at = "idle"
    /\ \/ local[t].pc = "hint"
       \/ /\ local[t].pc \in {"check", "claim", "readempty", "assign", "sethint"}
          /\ local[t].sb \in Superblocks

Searches(t) ==
    /\ Asks(t) /\ call[t].at = "idle" /\ local[t].pc = "search"
    /\ local[t].sb = -1 /\ local[t].i < shape.sbs
    /\ local[t].large \in Superblocks \cup {-1}

Claiming(t) ==
    /\ Asks(t) /\ local[t].pc = "claiming" /\ local[t].sb \in Superblocks
    /\ call[t].on = local[t].sb /\ call[t].bound = 2^local[t].state /\ call[t].lg2 = TRUE
    /\ \/ /\ call[t].at \in {"or", "done"}
          /\ call[t].bit \in 0 .. 2^local[t].state - 1
          /\ buffer[local[t].sb].header = local[t].state
       \/ call[t].at \in {"undo", "done"} /\ call[t].bit < 0

Freeing(t) ==
    /\ local[t].sb \in Superblocks
    /\ \/ /\ \/ local[t].pc = "free" /\ call[t].at = "idle"
             \/ /\ local[t].pc = "freeing" /\ call[t].at = "and"
                /\ call[t].on = local[t].sb /\ call[t].bit = local[t].i
          /\ buffer[local[t].sb].header = local[t].state
          /\ local[t].i \in 0 .. 2^local[t].state - 1
       \/ /\ local[t].pc = "freeing" /\ call[t].at = "sub"
          /\ call[t].on = local[t].sb
       \/ local[t].pc = "freeing" /\ call[t].at = "done" /\ call[t].bit = 0

Phase(t) == Resting(t) \/ Plans(t) \/ Searches(t) \/ Claiming(t) \/ Freeing(t)

\* The superblock of a block, and its bit.
SbOf(b) == b.at \div 2^shape.sb
Bit(b) == (b.at % 2^shape.sb) \div b.bytes

\* A block lies where its bit says, in a superblock of its size.
Placed(b) ==
    LET h == buffer[SbOf(b)].header IN
    /\ SbOf(b) \in Superblocks /\ Bit(b) \in 0 .. 2^h - 1
    /\ b.bytes = 2^(shape.sb - h)
    /\ b.at = SbOf(b) * 2^shape.sb + Bit(b) * b.bytes

\* Who is counted in superblock s, and who has or will have one of its bits.
LiveIn(s) == {b \in live : SbOf(b) = s}
Owners(s) == {t \in Threads : Owns(t) /\ local[t].sb = s}
Sharers(s) == {t \in Threads : (Owns(t) \/ Seeks(t)) /\ local[t].sb = s}
Claimers(s) == {t \in Threads : (Owns(t) \/ Seeks(t) \/ Lingers(t)) /\ local[t].sb = s}

\* The bits of s are those of its blocks and of their owners; its count is that
\* of the claims; and there is a bit for everyone who looks for one.
BitsAgree(s) ==
    /\ buffer[s].bits = {Bit(b) : b \in LiveIn(s)} \cup {BitOf(t) : t \in Owners(s)}
    /\ \A b, c \in LiveIn(s) : Bit(b) = Bit(c) => b = c
    /\ \A t, u \in Owners(s) : BitOf(t) = BitOf(u) => t = u
    /\ \A b \in LiveIn(s), t \in Owners(s) : Bit(b) # BitOf(t)
CountsAgree(s) ==
    /\ buffer[s].used = Cardinality(LiveIn(s)) + Cardinality(Claimers(s))
    /\ Cardinality(LiveIn(s)) + Cardinality(Sharers(s)) <= 2^buffer[s].header
Agrees(s) == BitsAgree(s) /\ CountsAgree(s)

\* The inductive invariant.
PoolInv ==
    /\ Types
    /\ \A t \in Threads : Phase(t)
    /\ \A b \in live : Placed(b)
    /\ \A s \in Superblocks : Agrees(s)

-----------------------------------------------------------------------------
\* The numbers of a shape.
LEMMA ShapeFacts ==
  ASSUME shape \in Shapes
  PROVE  /\ shape.sbs \in Nat \ {0} /\ shape.sb \in Nat /\ shape.limit \in Nat \ {0}
         /\ shape.min \in Nat /\ shape.max \in Nat
         /\ shape.min <= shape.max /\ shape.max <= shape.sb
         /\ Superblocks \subseteq Buffers /\ Superblocks \subseteq Nat /\ 0 \in Superblocks
         /\ \A h \in Headers : h \in Nat /\ h <= shape.sb /\ shape.sb - h \in shape.min .. shape.max
         /\ \A k \in shape.min .. shape.max : shape.sb - k \in Headers
  <1>1. /\ shape \in [sbs : Nat \ {0}, sb : Nat, min : Nat, max : Nat, limit : Nat \ {0}]
        /\ shape.min <= shape.max /\ shape.max <= shape.sb
    BY ShapesAssumption
  <1>2. /\ shape.sbs \in Nat \ {0} /\ shape.sb \in Nat /\ shape.limit \in Nat \ {0}
        /\ shape.min \in Nat /\ shape.max \in Nat
    BY <1>1
  <1>3. Superblocks \subseteq Buffers
    BY BuffersAssumption DEF Superblocks
  <1>4. Superblocks \subseteq Nat /\ 0 \in Superblocks
    BY <1>2 DEF Superblocks
  <1>5. ASSUME NEW h \in Headers
        PROVE  h \in Nat /\ h <= shape.sb /\ shape.sb - h \in shape.min .. shape.max
    <2>1. PICK k \in shape.min .. shape.max : h = shape.sb - k
      BY DEF Headers
    <2>2. k \in Nat /\ k <= shape.max /\ shape.sb - h = k
      BY <2>1, <1>2
    <2> QED BY <2>1, <2>2, <1>1, <1>2
  <1>6. \A k \in shape.min .. shape.max : shape.sb - k \in Headers
    BY DEF Headers
  <1> QED BY <1>1, <1>2, <1>3, <1>4, <1>5, <1>6

\* The block size for n bytes is one of the pool's and holds n bytes.
LEMMA HeaderFits ==
  ASSUME shape \in Shapes, NEW n \in 1 .. 2^shape.max
  PROVE  HeaderFor(n) \in Headers /\ n <= 2^(shape.sb - HeaderFor(n))
  <1>1. /\ shape.sb \in Nat /\ shape.min \in Nat /\ shape.max \in Nat
        /\ shape.min <= shape.max /\ shape.max <= shape.sb
    BY ShapeFacts
  <1>2. 2^shape.max \in Nat /\ n \in Nat /\ n <= 2^shape.max
    BY <1>1, PowerIsSubsets
  <1>3. PICK S : S = {i \in Nat : n <= 2^i}
    OBVIOUS
  <1>4. n \in S /\ shape.max \in S /\ S \in SUBSET Nat
    <2>1. 2^n \in Nat /\ n < 2^n
      BY <1>2, PowerAbove, PowerIsSubsets
    <2> QED BY <1>1, <1>2, <1>3, <2>1
  <1>5. PICK i \in S : \A k \in S : i <= k
    BY <1>4, LeastNatural
  <1>6. i \in 0 .. n /\ i <= shape.max /\ n <= 2^i
    BY <1>2, <1>3, <1>4, <1>5
  <1>7. \A j \in 0 .. i - 1 : 2^j < n
    <2>1. ASSUME NEW j \in 0 .. i - 1 PROVE 2^j < n
      <3>1. j \in Nat /\ ~(i <= j)
        BY <1>2, <1>6
      <3>2. 2^j \in Nat
        BY <3>1, PowerIsSubsets
      <3>3. j \notin S
        BY <1>5, <3>1
      <3> QED BY <1>2, <1>3, <3>1, <3>2, <3>3
    <2> QED BY <2>1
  <1>8. \E l \in 0 .. n : n <= 2^l /\ \A j \in 0 .. l - 1 : 2^j < n
    BY <1>6, <1>7
  <1>9. PICK l : l = Lg2(n)
    OBVIOUS
  <1>10. l \in 0 .. n /\ n <= 2^l /\ \A j \in 0 .. l - 1 : 2^j < n
    BY <1>8, <1>9 DEF Lg2
  <1>11. l <= shape.max
    <2> SUFFICES ASSUME shape.max < l PROVE FALSE
      BY <1>1, <1>10
    <2>1. shape.max \in 0 .. l - 1
      BY <1>1, <1>10
    <2> QED BY <1>2, <1>10, <2>1
  <1>12. PICK k \in shape.min .. shape.max : /\ k = IF l < shape.min THEN shape.min ELSE l
                                            /\ l <= k /\ k \in Nat
    BY <1>1, <1>10, <1>11
  <1>13. HeaderFor(n) = shape.sb - k
    BY <1>9, <1>12 DEF HeaderFor
  <1>14. shape.sb - HeaderFor(n) = k
    BY <1>1, <1>12, <1>13
  <1>15. n <= 2^k
    <2>1. l \in Nat /\ 2^l \in Nat /\ 2^k \in Nat /\ 2^l <= 2^k
      BY <1>10, <1>12, PowerSplit
    <2> QED BY <1>2, <1>10, <2>1
  <1>16. HeaderFor(n) \in Headers
    BY <1>12, <1>13, ShapeFacts
  <1> QED BY <1>14, <1>15, <1>16

\* The searches for each size start at a superblock of the pool.
LEMMA BeginFacts ==
  ASSUME shape \in Shapes
  PROVE  /\ \A h \in Headers : Begin(h) \in Superblocks
         /\ \A s \in Superblocks : \E h \in Headers : Begin(h) <= s /\ s < End(h)
  <1>1. /\ shape.sbs \in Nat \ {0} /\ shape.sb \in Nat
        /\ shape.min \in Nat /\ shape.max \in Nat
        /\ shape.min <= shape.max /\ shape.max <= shape.sb
    BY ShapeFacts
  <1>2. PICK m \in Nat \ {0} : m = Sizes
    BY <1>1 DEF Sizes
  <1>3. PICK n \in Nat \ {0} : n = shape.sbs
    BY <1>1
  <1>4. ASSUME NEW h \in Headers
        PROVE  SizeIndex(h) \in 0 .. m - 1 /\ Begin(h) = (SizeIndex(h) * n) \div m
               /\ End(h) = ((SizeIndex(h) + 1) * n) \div m
    <2>1. h \in Nat /\ shape.sb - h \in shape.min .. shape.max
      BY ShapeFacts
    <2>2. SizeIndex(h) \in 0 .. m - 1
      BY <2>1, <1>1, <1>2 DEF SizeIndex, Sizes
    <2> QED BY <2>2, <1>2, <1>3 DEF Begin, End
  <1>5. ASSUME NEW i \in 0 .. m - 1
        PROVE  \E h \in Headers : SizeIndex(h) = i
    <2>1. shape.min + i \in shape.min .. shape.max
      BY <1>1, <1>2 DEF Sizes
    <2>2. shape.sb - (shape.min + i) \in Headers
      BY <2>1, ShapeFacts
    <2>3. SizeIndex(shape.sb - (shape.min + i)) = i
      BY <1>1 DEF SizeIndex
    <2> QED BY <2>2, <2>3
  <1>6. ASSUME NEW i \in 0 .. m - 1
        PROVE  (i * n) \div m \in 0 .. n - 1
    <2>1. i * n \in Nat /\ i * n < m * n
      <3>1. PICK d \in Nat : m = i + 1 + d
        <4>1. m - i - 1 \in Nat /\ m = i + 1 + (m - i - 1)
          OBVIOUS
        <4> QED BY <4>1
      <3>2. m * n = i * n + n + d * n /\ d * n \in Nat /\ i * n \in Nat
        BY <3>1
      <3> QED BY <3>2
    <2>2. PICK q \in Nat : q = (i * n) \div m /\ m * q <= i * n
      BY <2>1, DivFacts
    <2>3. q < n
      <3> SUFFICES ASSUME n <= q PROVE FALSE
        OBVIOUS
      <3>1. PICK d \in Nat : q = n + d
        <4>1. q - n \in Nat /\ q = n + (q - n)
          OBVIOUS
        <4> QED BY <4>1
      <3>2. m * q = m * n + m * d /\ m * d \in Nat /\ m * n \in Nat
        BY <3>1
      <3> QED BY <2>1, <2>2, <3>2
    <2> QED BY <2>2, <2>3
  <1>7. \A h \in Headers : Begin(h) \in Superblocks
    BY <1>3, <1>4, <1>6 DEF Superblocks
  <1>8. ASSUME NEW s \in Superblocks
        PROVE  \E h \in Headers : Begin(h) <= s /\ s < End(h)
    <2>1. s \in Nat /\ s < n
      BY <1>3 DEF Superblocks
    <2>2. PICK S : S = {i \in 0 .. m - 1 : s < ((i + 1) * n) \div m}
      OBVIOUS
    <2>3. m - 1 \in S
      <3>1. m - 1 \in 0 .. m - 1 /\ (m - 1) + 1 = m
        OBVIOUS
      <3>2. m * n = n * m + 0
        OBVIOUS
      <3>3. (n * m + 0) \div m = n
        BY DivOfSum
      <3>4. (m * n) \div m = n
        BY <3>2, <3>3
      <3> QED BY <2>1, <2>2, <3>1, <3>4
    <2>4. PICK i \in S : \A k \in S : i <= k
      <3>1. 0 .. m - 1 \subseteq Nat
        OBVIOUS
      <3>2. S \in SUBSET Nat
        BY <2>2, <3>1
      <3> QED BY <2>3, <3>2, LeastNatural
    <2>5. i \in 0 .. m - 1 /\ s < ((i + 1) * n) \div m
      BY <2>2
    <2>6. (i * n) \div m <= s
      <3>1. CASE i = 0
        <4>1. i * n = 0 * m + 0
          BY <3>1
        <4>2. (0 * m + 0) \div m = 0
          BY DivOfSum
        <4> QED BY <4>1, <4>2, <2>1
      <3>2. CASE i # 0
        <4>1. i - 1 \in 0 .. m - 1 /\ ~(i <= i - 1) /\ (i - 1) + 1 = i
          BY <3>2, <2>5
        <4>2. i - 1 \notin S
          BY <4>1, <2>4
        <4>3. ~(s < (i * n) \div m)
          BY <4>1, <4>2, <2>2
        <4>4. (i * n) \div m \in Int
          BY <2>5, <1>6
        <4> QED BY <4>3, <4>4, <2>1
      <3> QED BY <3>1, <3>2
    <2>7. PICK h \in Headers : SizeIndex(h) = i
      BY <2>5, <1>5
    <2> QED BY <2>5, <2>6, <2>7, <1>4
  <1> QED BY <1>7, <1>8

\* Where the block of bit k in a superblock s with header h lies.
LEMMA BlockPlace ==
  ASSUME shape \in Shapes, NEW s \in Nat, NEW h \in Headers, NEW k \in 0 .. 2^h - 1,
         NEW at, at = s * 2^shape.sb + k * 2^(shape.sb - h)
  PROVE  /\ at \in Nat /\ 2^(shape.sb - h) \in Nat \ {0}
         /\ at \div 2^shape.sb = s /\ at % 2^(shape.sb - h) = 0
         /\ (at % 2^shape.sb) \div 2^(shape.sb - h) = k
         /\ at + 2^(shape.sb - h) <= s * 2^shape.sb + 2^shape.sb
         /\ s * 2^shape.sb <= at
  <1>1. h \in Nat /\ shape.sb \in Nat /\ h <= shape.sb
    BY ShapeFacts
  <1>2. PICK S \in Nat \ {0} : S = 2^shape.sb
    BY <1>1, PowerIsSubsets
  <1>3. PICK c \in Nat \ {0} : c = 2^h
    BY <1>1, PowerIsSubsets
  <1>4. PICK b \in Nat \ {0} : b = 2^(shape.sb - h) /\ S = c * b
    BY <1>1, <1>2, <1>3, PowerSplit
  <1>5. k \in Nat /\ k < c
    BY <1>3
  <1>6. k * b \in Nat /\ k * b + b <= S
    <2>1. PICK d \in Nat : c = k + 1 + d
      <3>1. c - k - 1 \in Nat /\ c = k + 1 + (c - k - 1)
        BY <1>5
      <3> QED BY <3>1
    <2>2. c * b = k * b + b + d * b /\ d * b \in Nat /\ k * b \in Nat
      BY <2>1, <1>5
    <2> QED BY <2>2, <1>4
  <1>7. at = s * S + k * b /\ s * S \in Nat
    BY <1>2, <1>4
  <1>8. at \div S = s /\ at % S = k * b
    <2>1. k * b < S
      BY <1>6
    <2> QED BY <2>1, <1>6, <1>7, DivOfSum
  <1>9. (k * b) \div b = k
    <2>1. (k * b + 0) \div b = k
      BY <1>5, DivOfSum
    <2>2. k * b + 0 = k * b
      BY <1>6
    <2> QED BY <2>1, <2>2
  <1>10. at % b = 0
    <2>1. PICK g \in Nat : g = s * c
      OBVIOUS
    <2>2. s * S = g * b
      BY <2>1, <1>4
    <2>3. PICK e \in Nat : e = g + k
      BY <1>5
    <2>4. e * b = g * b + k * b /\ e * b \in Nat
      BY <2>3, <1>5
    <2>5. at = e * b + 0
      <3>1. at = e * b
        BY <2>2, <2>4, <1>7, Zenon
      <3>2. \A x \in Nat : x = x + 0
        OBVIOUS
      <3> QED BY <3>1, <3>2, <2>4
    <2>6. (e * b + 0) % b = 0
      BY DivOfSum
    <2> QED BY <2>5, <2>6
  <1>11. at \in Nat /\ at + b <= s * S + S /\ s * S <= at
    BY <1>6, <1>7
  <1> QED BY <1>2, <1>4, <1>8, <1>9, <1>10, <1>11

-----------------------------------------------------------------------------
\* t is counted in the superblock local[t].sb.
Counted(t) == Owns(t) \/ Seeks(t) \/ Lingers(t)

\* The sets that are counted are finite.
LEMMA Finite ==
  ASSUME Types, NEW s
  PROVE  /\ IsFiniteSet(LiveIn(s)) /\ IsFiniteSet(Owners(s))
         /\ IsFiniteSet(Sharers(s)) /\ IsFiniteSet(Claimers(s))
         /\ Cardinality(LiveIn(s)) \in Nat /\ Cardinality(Owners(s)) \in Nat
         /\ Cardinality(Sharers(s)) \in Nat /\ Cardinality(Claimers(s)) \in Nat
         /\ Cardinality(Sharers(s)) <= Cardinality(Claimers(s))
         /\ Owners(s) \subseteq Sharers(s)
  <1>1. IsFiniteSet(live) /\ IsFiniteSet(Threads)
    BY ThreadsAssumption DEF Types
  <1>2. /\ LiveIn(s) \in SUBSET live /\ Owners(s) \in SUBSET Threads
        /\ Sharers(s) \in SUBSET Threads /\ Claimers(s) \in SUBSET Threads
        /\ Sharers(s) \in SUBSET Claimers(s) /\ Owners(s) \subseteq Sharers(s)
    BY DEF LiveIn, Owners, Sharers, Claimers
  <1>3. /\ IsFiniteSet(LiveIn(s)) /\ IsFiniteSet(Owners(s))
        /\ IsFiniteSet(Sharers(s)) /\ IsFiniteSet(Claimers(s))
    BY <1>1, <1>2, FS_Subset
  <1>4. Cardinality(Sharers(s)) <= Cardinality(Claimers(s))
    BY <1>2, <1>3, FS_Subset
  <1> QED BY <1>2, <1>3, <1>4, FS_CardinalityType

\* A step of t changes only t's place in the sets that are counted.
LEMMA Members ==
  ASSUME NEW t \in Threads, NEW s,
         \A u \in Threads \ {t} : local'[u] = local[u] /\ call'[u] = call[u]
  PROVE  /\ Owners(s) \ {t} = Owners(s)' \ {t}
         /\ Sharers(s) \ {t} = Sharers(s)' \ {t}
         /\ Claimers(s) \ {t} = Claimers(s)' \ {t}
         /\ t \in Owners(s) <=> Owns(t) /\ local[t].sb = s
         /\ t \in Owners(s)' <=> Owns(t)' /\ local'[t].sb = s
         /\ t \in Sharers(s) <=> (Owns(t) \/ Seeks(t)) /\ local[t].sb = s
         /\ t \in Sharers(s)' <=> (Owns(t) \/ Seeks(t))' /\ local'[t].sb = s
         /\ t \in Claimers(s) <=> Counted(t) /\ local[t].sb = s
         /\ t \in Claimers(s)' <=> Counted(t)' /\ local'[t].sb = s
         /\ \A u \in Threads \ {t} : BitOf(u)' = BitOf(u)
  <1>1. \A u \in Threads \ {t} : /\ Owns(u)' <=> Owns(u)
                                 /\ Seeks(u)' <=> Seeks(u)
                                 /\ Lingers(u)' <=> Lingers(u)
                                 /\ BitOf(u)' = BitOf(u)
                                 /\ local'[u].sb = local[u].sb
    BY DEF Owns, Seeks, Lingers, BitOf
  <1> QED BY <1>1 DEF Owners, Sharers, Claimers, Counted

\* A superblock whose word, blocks and claims stay as they are.
LEMMA SameAccount ==
  ASSUME NEW s, Agrees(s), shape' = shape, buffer'[s] = buffer[s],
         LiveIn(s)' = LiveIn(s), Owners(s)' = Owners(s),
         Sharers(s)' = Sharers(s), Claimers(s)' = Claimers(s),
         \A u \in Owners(s) : BitOf(u)' = BitOf(u)
  PROVE  Agrees(s)'
  <1>1. \A b : Bit(b)' = Bit(b)
    BY DEF Bit
  <1> QED BY <1>1 DEF Agrees, BitsAgree, CountsAgree

\* A superblock in which t is not counted, before or after its step.
LEMMA Elsewhere ==
  ASSUME NEW t \in Threads, NEW s, Agrees(s), shape' = shape, buffer'[s] = buffer[s],
         LiveIn(s)' = LiveIn(s),
         \A u \in Threads \ {t} : local'[u] = local[u] /\ call'[u] = call[u],
         ~(Counted(t) /\ local[t].sb = s), ~(Counted(t)' /\ local'[t].sb = s)
  PROVE  Agrees(s)'
  <1>1. /\ Owners(s) \ {t} = Owners(s)' \ {t}
        /\ Sharers(s) \ {t} = Sharers(s)' \ {t}
        /\ Claimers(s) \ {t} = Claimers(s)' \ {t}
        /\ \A u \in Threads \ {t} : BitOf(u)' = BitOf(u)
    BY Members
  <1>2. /\ t \notin Owners(s) /\ t \notin Owners(s)'
        /\ t \notin Sharers(s) /\ t \notin Sharers(s)'
        /\ t \notin Claimers(s) /\ t \notin Claimers(s)'
    BY Members DEF Counted
  <1>3. Owners(s)' = Owners(s) /\ Sharers(s)' = Sharers(s) /\ Claimers(s)' = Claimers(s)
    BY <1>1, <1>2
  <1>4. \A u \in Owners(s) : BitOf(u)' = BitOf(u)
    BY <1>1, <1>2 DEF Owners
  <1> QED BY <1>3, <1>4, SameAccount

\* A thread that does nothing stays where it is, as long as its superblock
\* keeps its size while the thread is counted.
LEMMA OthersKeep ==
  ASSUME Types, NEW u \in Threads, Phase(u), local'[u] = local[u], call'[u] = call[u],
         shape' = shape,
         Counted(u) => buffer'[local[u].sb].header = buffer[local[u].sb].header
  PROVE  Phase(u)'
  <1>1. Headers' = Headers /\ Superblocks' = Superblocks /\ Want(u)' = Want(u)
    BY DEF Headers, Superblocks, Want, HeaderFor
  <1>2. Asks(u)' <=> Asks(u)
    BY <1>1 DEF Asks
  <1>3. CASE Resting(u)
    BY <1>3 DEF Phase, Resting
  <1>4. CASE Plans(u)
    BY <1>1, <1>2, <1>4 DEF Phase, Plans
  <1>5. CASE Searches(u)
    BY <1>1, <1>2, <1>5 DEF Phase, Searches
  <1>6. CASE Claiming(u)
    <2>1. call[u].at = "done" /\ call[u].bit \in 0 .. 2^local[u].state - 1 => call[u].bit >= 0
      OBVIOUS
    <2>2. Claiming(u)'
      BY <2>1, <1>1, <1>2, <1>6 DEF Claiming, Counted, Owns, Seeks
    <2> QED BY <2>2 DEF Phase
  <1>7. CASE Freeing(u)
    BY <1>1, <1>7 DEF Phase, Freeing, Counted, Owns
  <1> QED BY <1>3, <1>4, <1>5, <1>6, <1>7 DEF Phase

\* Blocks stay where they are as long as their superblock keeps its size.
LEMMA PlacedKeeps ==
  ASSUME NEW b, Placed(b), shape' = shape,
         buffer'[SbOf(b)].header = buffer[SbOf(b)].header
  PROVE  Placed(b)' /\ SbOf(b)' = SbOf(b) /\ Bit(b)' = Bit(b)
  <1>1. SbOf(b)' = SbOf(b) /\ Bit(b)' = Bit(b) /\ Superblocks' = Superblocks
    BY DEF SbOf, Bit, Superblocks
  <1> QED BY <1>1 DEF Placed

\* Whoever looks for a bit can find one.
LEMMA ZeroBitExists ==
  ASSUME PoolInv, NEW t \in Threads, Seeks(t), NEW s \in Superblocks, s = local[t].sb
  PROVE  \E z \in 0 .. 2^buffer[s].header - 1 : z \notin buffer[s].bits
  <1>1. Types /\ Agrees(s)
    BY DEF PoolInv
  <1>2. PICK n \in Nat \ {0} : n = 2^buffer[s].header
    <2>1. buffer[s].header \in Nat
      BY <1>1, ShapeFacts DEF Types
    <2> QED BY <2>1, PowerIsSubsets
  <1>3. PICK L : L = LiveIn(s)
    OBVIOUS
  <1>4. PICK O : O = Owners(s)
    OBVIOUS
  <1>5. PICK A : A = {Bit(b) : b \in L}
    OBVIOUS
  <1>6. PICK B : B = {BitOf(u) : u \in O}
    OBVIOUS
  <1>7. IsFiniteSet(L) /\ IsFiniteSet(O) /\ Cardinality(L) \in Nat /\ Cardinality(O) \in Nat
    BY <1>1, <1>3, <1>4, Finite
  <1>8. IsFiniteSet(A) /\ Cardinality(A) <= Cardinality(L)
    <2>1. PICK f : f = [b \in L |-> Bit(b)]
      OBVIOUS
    <2>2. f \in Surjection(L, A)
      BY <2>1, <1>5 DEF Surjection
    <2> QED BY <2>2, <1>7, FS_Surjection
  <1>9. IsFiniteSet(B) /\ Cardinality(B) <= Cardinality(O)
    <2>1. PICK f : f = [u \in O |-> BitOf(u)]
      OBVIOUS
    <2>2. f \in Surjection(O, B)
      BY <2>1, <1>6 DEF Surjection
    <2> QED BY <2>2, <1>7, FS_Surjection
  <1>10. Cardinality(O) + 1 <= Cardinality(Sharers(s))
    <2>1. t \notin O /\ t \in Sharers(s) /\ O \subseteq Sharers(s)
      BY <1>4 DEF Owners, Sharers, Owns, Seeks
    <2>2. IsFiniteSet(Sharers(s)) /\ O \cup {t} \in SUBSET Sharers(s)
      BY <1>1, <2>1, Finite
    <2>3. Cardinality(O \cup {t}) <= Cardinality(Sharers(s))
      BY <2>2, FS_Subset
    <2>4. Cardinality(O \cup {t}) = Cardinality(O) + 1
      BY <2>1, <1>7, FS_AddElement
    <2> QED BY <2>3, <2>4
  <1>11. Cardinality(L) + Cardinality(Sharers(s)) <= n /\ buffer[s].bits = A \cup B
    BY <1>1, <1>2, <1>3, <1>4, <1>5, <1>6 DEF Agrees, BitsAgree, CountsAgree
  <1>12. IsFiniteSet(A \cup B) /\ Cardinality(A \cup B) <= Cardinality(A) + Cardinality(B)
    <2>1. /\ IsFiniteSet(A \cup B)
          /\ Cardinality(A \cup B) = Cardinality(A) + Cardinality(B) - Cardinality(A \cap B)
      BY <1>8, <1>9, FS_Union
    <2>2. IsFiniteSet(A \cap B)
      BY <1>8, FS_Intersection
    <2>3. Cardinality(A \cap B) \in Nat /\ Cardinality(A) \in Nat /\ Cardinality(B) \in Nat
      BY <2>2, <1>8, <1>9, FS_CardinalityType
    <2> QED BY <2>1, <2>3
  <1>13. Cardinality(A \cup B) < n
    <2>1. /\ Cardinality(A) \in Nat /\ Cardinality(B) \in Nat /\ Cardinality(A \cup B) \in Nat
          /\ Cardinality(Sharers(s)) \in Nat
      BY <1>1, <1>8, <1>9, <1>12, Finite, FS_CardinalityType
    <2> QED BY <2>1, <1>7, <1>8, <1>9, <1>10, <1>11, <1>12
  <1>14. Cardinality(0 .. n - 1) = n
    BY FS_Interval
  <1>15. ~(0 .. n - 1 \subseteq A \cup B)
    <2> SUFFICES ASSUME 0 .. n - 1 \subseteq A \cup B PROVE FALSE
      OBVIOUS
    <2>1. Cardinality(0 .. n - 1) <= Cardinality(A \cup B)
      BY <1>12, FS_Subset
    <2>2. Cardinality(A \cup B) \in Nat
      BY <1>12, FS_CardinalityType
    <2> QED BY <2>1, <2>2, <1>13, <1>14
  <1> QED BY <1>2, <1>11, <1>15

\* At the start the pool is empty.
LEMMA InitPool == Init => PoolInv
  <1> SUFFICES ASSUME Init PROVE PoolInv
    OBVIOUS
  <1>1. shape \in Shapes /\ live = {} /\ alone = {} /\ aborted = FALSE
    BY DEF Init
  <1>2. \A s \in Superblocks : buffer[s].header \in Headers /\ buffer[s].used = 0 /\ buffer[s].bits = {}
    <2>1. ASSUME NEW s \in Superblocks PROVE buffer[s].header \in Headers /\ buffer[s].used = 0 /\ buffer[s].bits = {}
      <3>1. s \in Buffers
        BY <1>1, ShapeFacts
      <3>2. \E h \in Headers : Begin(h) <= s /\ s < End(h)
        BY <1>1, BeginFacts
      <3>3. (CHOOSE h \in Headers : Begin(h) <= s /\ s < End(h)) \in Headers
        BY <3>2
      <3> QED BY <3>1, <3>3 DEF Init
    <2> QED BY <2>1
  <1>3. buffer \in [Buffers -> WordType]
    <2>1. ASSUME NEW s \in Buffers PROVE buffer[s] \in WordType
      <3>1. buffer[s].header \in Nat
        <4>1. CASE s \in Superblocks
          BY <4>1, <1>1, <1>2, ShapeFacts
        <4>2. CASE s \notin Superblocks
          BY <4>2 DEF Init
        <4> QED BY <4>1, <4>2
      <3>2. buffer[s] = [header |-> buffer[s].header, used |-> 0, bits |-> {}]
        BY DEF Init
      <3> QED BY <3>1, <3>2 DEF WordType
    <2>2. buffer = [s \in Buffers |-> buffer[s]]
      BY DEF Init
    <2> QED BY <2>1, <2>2
  <1>4. \A t \in Threads : local[t] = Idling /\ call[t] = Idle
    BY DEF Init
  <1>5. call \in [Threads -> CallType]
    <2>1. 0 \in Buffers
      BY <1>1, ShapeFacts
    <2>2. Idle \in CallType
      BY <2>1 DEF Idle, CallType
    <2> QED BY <2>2 DEF Init
  <1>6. local \in [Threads -> LocalType]
    <2>1. shape.limit \in Nat
      BY <1>1, ShapeFacts
    <2>2. Idling \in LocalType
      BY <2>1 DEF Idling, LocalType
    <2> QED BY <2>2 DEF Init
  <1>7. hint \in [Headers -> Superblocks]
    BY <1>1, BeginFacts DEF Init
  <1>8. Types
    BY <1>1, <1>2, <1>3, <1>5, <1>6, <1>7, FS_EmptySet DEF Types
  <1>9. \A t \in Threads : Resting(t) /\ ~Owns(t) /\ ~Seeks(t) /\ ~Lingers(t)
    BY <1>4 DEF Resting, Owns, Seeks, Lingers, Idling, Idle
  <1>10. ASSUME NEW s \in Superblocks PROVE Agrees(s)
    <2>1. LiveIn(s) = {} /\ Owners(s) = {} /\ Sharers(s) = {} /\ Claimers(s) = {}
      BY <1>1, <1>9 DEF LiveIn, Owners, Sharers, Claimers
    <2>2. 2^buffer[s].header \in Nat
      BY <1>1, <1>2, ShapeFacts, PowerIsSubsets
    <2>3. Cardinality({}) = 0
      BY FS_EmptySet
    <2> QED BY <2>1, <2>2, <2>3, <1>2 DEF Agrees, BitsAgree, CountsAgree
  <1> QED BY <1>1, <1>8, <1>9, <1>10 DEF PoolInv, Phase

-----------------------------------------------------------------------------
\* A step of t that touches no word and no block, and during which t is not
\* counted.
LEMMA QuietStep ==
  ASSUME PoolInv, NEW t \in Threads, shape' = shape, buffer' = buffer, live' = live,
         aborted' = FALSE, alone' \in SUBSET Threads,
         local' \in [Threads -> LocalType], call' \in [Threads -> CallType],
         hint' \in [Headers -> Superblocks],
         \A u \in Threads \ {t} : local'[u] = local[u] /\ call'[u] = call[u],
         ~Counted(t), ~Counted(t)', Phase(t)'
  PROVE  PoolInv'
  <1>1. Headers' = Headers /\ Superblocks' = Superblocks /\ LocalType' = LocalType
    BY DEF Headers, Superblocks, LocalType
  <1>2. Types'
    BY <1>1 DEF PoolInv, Types
  <1>3. \A u \in Threads : Phase(u)'
    BY OthersKeep DEF PoolInv
  <1>4. \A b \in live' : Placed(b)'
    BY PlacedKeeps DEF PoolInv
  <1>5. ASSUME NEW s \in Superblocks PROVE Agrees(s)'
    <2>1. LiveIn(s)' = LiveIn(s)
      BY DEF LiveIn, SbOf
    <2> QED BY <2>1, Elsewhere DEF PoolInv
  <1> QED BY <1>1, <1>2, <1>3, <1>4, <1>5 DEF PoolInv

\* The locals that a step computes have their types.
LEMMA IdlingType == ASSUME shape \in Shapes PROVE Idling \in LocalType
  <1>1. shape.limit \in Nat
    BY ShapeFacts
  <1> QED BY <1>1 DEF Idling, LocalType

LEMMA TryType ==
  ASSUME shape \in Shapes, NEW l \in LocalType, NEW s \in Superblocks, NEW h \in Headers
  PROVE  /\ Try(l, s, h) \in LocalType
         /\ Try(l, s, h).pc = "check" /\ Try(l, s, h).size = l.size
         /\ Try(l, s, h).limit = l.limit /\ Try(l, s, h).sb = s /\ Try(l, s, h).state = h
  <1>1. h \in Nat /\ l.size \in Nat /\ l.limit \in 0 .. shape.limit
    BY ShapeFacts DEF LocalType
  <1>2. PICK r1 \in LocalType : r1 = [Idling EXCEPT !.pc = "check", !.size = l.size]
    BY <1>1, IdlingType DEF LocalType
  <1>3. PICK r2 \in LocalType : r2 = [r1 EXCEPT !.limit = l.limit, !.sb = s]
    BY <1>1 DEF LocalType
  <1>4. [r2 EXCEPT !.state = h] \in LocalType
    BY <1>1 DEF LocalType
  <1>5. Try(l, s, h) = [r2 EXCEPT !.state = h]
    BY <1>2, <1>3 DEF Try
  <1>6. Try(l, s, h).pc = "check" /\ Try(l, s, h).size = l.size
    BY DEF Try, Idling
  <1>7. Try(l, s, h).limit = l.limit /\ Try(l, s, h).sb = s /\ Try(l, s, h).state = h
    BY DEF Try, Idling
  <1> QED BY <1>4, <1>5, <1>6, <1>7

LEMMA ToSearchType ==
  ASSUME shape \in Shapes, NEW l \in LocalType, NEW h \in Headers
  PROVE  /\ ToSearch(l, h) \in LocalType
         /\ ToSearch(l, h).pc = "search" /\ ToSearch(l, h).size = l.size
         /\ ToSearch(l, h).limit = l.limit /\ ToSearch(l, h).sb = -1
         /\ ToSearch(l, h).state = h /\ ToSearch(l, h).i = 0 /\ ToSearch(l, h).large = -1
  <1>1. h \in Nat
    BY ShapeFacts
  <1>2. PICK r1 \in LocalType : r1 = [l EXCEPT !.pc = "search", !.sb = -1]
    BY DEF LocalType
  <1>3. PICK r2 \in LocalType : r2 = [r1 EXCEPT !.state = h, !.i = 0]
    BY <1>1 DEF LocalType
  <1>4. PICK r3 \in LocalType : r3 = [r2 EXCEPT !.empty = -1, !.large = -1]
    <2>1. PICK r \in LocalType : r = [r2 EXCEPT !.empty = -1]
      BY DEF LocalType
    <2>2. [r EXCEPT !.large = -1] \in LocalType
      BY DEF LocalType
    <2> QED BY <2>1, <2>2
  <1>5. PICK m \in LocalType : m = [r3 EXCEPT !.update = FALSE]
    BY DEF LocalType
  <1>6. ToSearch(l, h) = m
    BY <1>2, <1>3, <1>4, <1>5 DEF ToSearch
  <1>7. r1.pc = "search" /\ r1.size = l.size /\ r1.limit = l.limit /\ r1.sb = -1
    BY <1>2 DEF LocalType
  <1>8. /\ r2.pc = "search" /\ r2.size = l.size /\ r2.limit = l.limit /\ r2.sb = -1
        /\ r2.state = h /\ r2.i = 0
    BY <1>3, <1>7 DEF LocalType
  <1>9. /\ r3.pc = "search" /\ r3.size = l.size /\ r3.limit = l.limit /\ r3.sb = -1
        /\ r3.state = h /\ r3.i = 0 /\ r3.large = -1
    BY <1>4, <1>8 DEF LocalType
  <1>10. /\ m.pc = "search" /\ m.size = l.size /\ m.limit = l.limit /\ m.sb = -1
         /\ m.state = h /\ m.i = 0 /\ m.large = -1
    BY <1>5, <1>9 DEF LocalType
  <1> QED BY <1>6, <1>10

\* What the search does to the locals.
LEMMA SeenType ==
  ASSUME shape \in Shapes, NEW l \in LocalType, NEW h \in Headers, NEW id \in Superblocks,
         NEW st, st.header \in Headers, l.pc = "search", l.state \in Headers, l.state <= h,
         l.large \in Superblocks \cup {-1}
  PROVE  LET m == Seen(l, h, id, st) IN
         /\ m \in LocalType /\ m.pc = "search" /\ m.size = l.size /\ m.limit = l.limit
         /\ m.i = l.i /\ m.state \in Headers /\ m.state <= h
         /\ m.sb \in {l.sb, id} /\ m.large \in Superblocks \cup {-1}
  <1>1. h \in Nat /\ st.header \in Nat /\ id \in Int
    BY ShapeFacts
  <1>2. CASE st.header = h
    <2>1. PICK m : m = Seen(l, h, id, st)
      OBVIOUS
    <2>2. CASE m = l
      BY <2>1, <2>2
    <2>3. CASE m # l
      <3>1. m = [l EXCEPT !.sb = id, !.update = st.used + 1 < 2^h]
        BY <1>2, <2>1, <2>3 DEF Seen
      <3>2. m \in LocalType
        <4>1. CASE st.used + 1 < 2^h
          <5>1. m = [l EXCEPT !.sb = id, !.update = TRUE]
            BY <3>1, <4>1
          <5> QED BY <5>1 DEF LocalType
        <4>2. CASE ~(st.used + 1 < 2^h)
          <5>1. m = [l EXCEPT !.sb = id, !.update = FALSE]
            <6>1. (st.used + 1 < 2^h) = FALSE
              BY <4>2
            <6> QED BY <3>1, <6>1
          <5> QED BY <5>1 DEF LocalType
        <4> QED BY <4>1, <4>2
      <3>3. /\ m.pc = l.pc /\ m.size = l.size /\ m.limit = l.limit /\ m.i = l.i
            /\ m.state = l.state /\ m.sb = id /\ m.large = l.large
        BY <3>1 DEF LocalType
      <3> QED BY <2>1, <3>2, <3>3
    <2> QED BY <2>2, <2>3
  <1>3. CASE st.header # h /\ st.used = 0
    <2>1. Seen(l, h, id, st) = [l EXCEPT !.empty = id] \/ Seen(l, h, id, st) = l
      BY <1>3 DEF Seen
    <2> QED BY <2>1 DEF LocalType
  <1>4. CASE st.header # h /\ st.used # 0
    <2>1. \/ /\ Seen(l, h, id, st) = [l EXCEPT !.large = id, !.state = st.header]
             /\ st.header < h
          \/ Seen(l, h, id, st) = l
      BY <1>4 DEF Seen, IsLarge
    <2>2. PICK m : m = Seen(l, h, id, st)
      OBVIOUS
    <2>3. CASE m = l
      BY <2>2, <2>3
    <2>4. CASE m # l
      <3>1. m = [l EXCEPT !.large = id, !.state = st.header] /\ st.header < h
        BY <2>1, <2>2, <2>4
      <3>2. m \in LocalType
        BY <3>1, <1>1 DEF LocalType
      <3>3. /\ m.pc = l.pc /\ m.size = l.size /\ m.limit = l.limit /\ m.i = l.i
            /\ m.state = st.header /\ m.sb = l.sb /\ m.large = id
        BY <3>1 DEF LocalType
      <3> QED BY <1>1, <2>2, <3>1, <3>2, <3>3
    <2> QED BY <2>3, <2>4
  <1> QED BY <1>2, <1>3, <1>4

\* What is tried after the search is a superblock of the pool.
LEMMA DecideType ==
  ASSUME shape \in Shapes, NEW l \in LocalType, NEW h \in Headers,
         l.limit >= 1, l.state \in Headers, l.state <= h, l.large \in Superblocks \cup {-1}
  PROVE  LET m == Decide(l, h) IN
         /\ m \in LocalType
         /\ \/ m = Idling
            \/ /\ m.size = l.size /\ m.limit >= 1 /\ m.state \in Headers /\ m.state <= h
               /\ \/ m.pc = "hint"
                  \/ m.pc \in {"check", "readempty", "sethint"} /\ m.sb \in Superblocks
  <1>1. h \in Nat /\ -1 \notin Superblocks /\ Superblocks \subseteq Nat
        /\ \A k \in Superblocks \cup {-1} : k >= 0 => k \in Superblocks
    BY ShapeFacts
  <1>2. /\ l.sb \in Superblocks \cup {-1} /\ l.empty \in Superblocks \cup {-1}
        /\ l.hinted \in Superblocks \cup {-1} /\ l.size \in Nat /\ l.limit \in 0 .. shape.limit
    BY DEF LocalType
  <1>3. PICK m : m = Decide(l, h)
    OBVIOUS
  <1>4. CASE l.sb >= 0
    <2>1. l.sb \in Superblocks
      BY <1>1, <1>2, <1>4
    <2>2. PICK y : y = Try(l, l.sb, h)
      OBVIOUS
    <2>3. /\ y \in LocalType /\ y.pc = "check" /\ y.size = l.size
          /\ y.limit = l.limit /\ y.sb = l.sb /\ y.state = h
      BY <2>1, <2>2, TryType
    <2>4. m = y \/ m = [y EXCEPT !.pc = "sethint", !.hinted = l.hinted]
      BY <1>3, <1>4, <2>2 DEF Decide
    <2>5. /\ m \in LocalType /\ m.pc \in {"check", "sethint"} /\ m.size = l.size
          /\ m.limit = l.limit /\ m.sb = l.sb /\ m.state = h
      BY <2>3, <2>4, <1>2 DEF LocalType
    <2> QED BY <2>1, <2>5, <1>1, <1>3
  <1>5. CASE ~(l.sb >= 0) /\ l.empty >= 0
    <2>1. l.empty \in Superblocks
      BY <1>1, <1>2, <1>5
    <2>2. PICK y : y = Try(l, l.empty, h)
      OBVIOUS
    <2>3. /\ y \in LocalType /\ y.size = l.size
          /\ y.limit = l.limit /\ y.sb = l.empty /\ y.state = h
      BY <2>1, <2>2, TryType
    <2>4. m = [y EXCEPT !.pc = "readempty", !.hinted = l.hinted]
      BY <1>3, <1>5, <2>2 DEF Decide
    <2>5. /\ m \in LocalType /\ m.pc = "readempty" /\ m.size = l.size
          /\ m.limit = l.limit /\ m.sb = l.empty /\ m.state = h
      BY <2>3, <2>4, <1>2 DEF LocalType
    <2> QED BY <2>1, <2>5, <1>1, <1>3
  <1>6. CASE ~(l.sb >= 0) /\ ~(l.empty >= 0) /\ l.large >= 0
    <2>1. l.large \in Superblocks
      BY <1>1, <1>6
    <2>2. m = Try(l, l.large, l.state)
      BY <1>3, <1>6 DEF Decide
    <2>3. /\ m \in LocalType /\ m.pc = "check" /\ m.size = l.size
          /\ m.limit = l.limit /\ m.sb = l.large /\ m.state = l.state
      BY <2>1, <2>2, TryType
    <2> QED BY <2>1, <2>3, <1>3
  <1>7. CASE ~(l.sb >= 0) /\ ~(l.empty >= 0) /\ ~(l.large >= 0) /\ TriesAgain(l)
    <2>1. m = [Idling EXCEPT !.pc = "hint", !.size = l.size, !.limit = l.limit - 1, !.state = h]
      BY <1>3, <1>7 DEF Decide
    <2>2. l.limit - 1 >= 1 /\ l.limit - 1 \in 0 .. shape.limit
      BY <1>2, <1>7, ShapeFacts DEF TriesAgain
    <2>3. m = [pc |-> "hint", size |-> l.size, limit |-> l.limit - 1, sb |-> -1, state |-> h,
               hinted |-> -1, i |-> 0, empty |-> -1, large |-> -1, update |-> FALSE]
      BY <2>1 DEF Idling
    <2>4. m \in LocalType
      BY <2>2, <2>3, <1>1, <1>2 DEF LocalType
    <2>5. m.pc = "hint" /\ m.size = l.size /\ m.limit = l.limit - 1 /\ m.state = h
      BY <2>3
    <2> QED BY <2>2, <2>4, <2>5, <1>1, <1>3
  <1>8. CASE ~(l.sb >= 0) /\ ~(l.empty >= 0) /\ ~(l.large >= 0) /\ ~TriesAgain(l)
    <2>1. m = Idling
      BY <1>3, <1>8 DEF Decide
    <2> QED BY <2>1, <1>3, IdlingType
  <1> QED BY <1>4, <1>5, <1>6, <1>7, <1>8

\* Where t is says what its locals are.
LEMMA PhaseAt ==
  ASSUME NEW t \in Threads, Phase(t)
  PROVE  /\ local[t].pc = "idle" => Resting(t)
         /\ local[t].pc \in {"hint", "check", "claim", "readempty", "assign", "sethint"} => Plans(t)
         /\ local[t].pc = "search" => Searches(t)
         /\ local[t].pc = "claiming" => Claiming(t)
         /\ local[t].pc \in {"free", "freeing"} => Freeing(t)
         /\ local[t].pc \notin {"claiming", "free", "freeing"} => ~Counted(t)
  BY DEF Phase, Resting, Plans, Searches, Claiming, Freeing, Counted, Owns, Seeks, Lingers

\* A thread that goes to the loop of allocate.
LEMMA GoesOn ==
  ASSUME NEW t \in Threads, shape' = shape, NEW v, local'[t] = v, call'[t].at = "idle",
         v.size \in 1 .. 2^shape.max, v.limit >= 1, v.state \in Headers,
         v.state <= HeaderFor(v.size),
         \/ v.pc = "hint"
         \/ /\ v.pc \in {"check", "claim", "readempty", "assign", "sethint"}
            /\ v.sb \in Superblocks
         \/ /\ v.pc = "search" /\ v.sb = -1 /\ v.i < shape.sbs
            /\ v.large \in Superblocks \cup {-1}
  PROVE  Phase(t)' /\ ~Counted(t)'
  <1>1. Headers' = Headers /\ Superblocks' = Superblocks /\ Want(t)' = HeaderFor(v.size)
    BY DEF Headers, Superblocks, Want, HeaderFor
  <1>2. Asks(t)'
    BY <1>1 DEF Asks
  <1>3. Plans(t)' \/ Searches(t)'
    BY <1>1, <1>2 DEF Plans, Searches
  <1>4. ~Counted(t)'
    BY DEF Counted, Owns, Seeks, Lingers
  <1> QED BY <1>3, <1>4 DEF Phase

\* A thread that returns.
LEMMA GoesHome ==
  ASSUME NEW t \in Threads, local'[t] = Idling, call'[t].at = "idle"
  PROVE  Phase(t)' /\ ~Counted(t)'
  <1>1. local'[t].pc = "idle"
    BY DEF Idling
  <1> QED BY <1>1 DEF Phase, Resting, Counted, Owns, Seeks, Lingers

\* The steps of allocate outside the bitset, and its beginning.
LEMMA StepPlans ==
  ASSUME PoolInv, NEW t \in Threads,
         \/ Allocate(t) \/ ReadHint(t) \/ CheckState(t) \/ ReadEmpty(t) \/ SetHint(t)
  PROVE  PoolInv'
  <1>t. Types /\ shape \in Shapes /\ Phase(t) /\ aborted = FALSE
    BY DEF PoolInv, Types
  <1>l. /\ local \in [Threads -> LocalType] /\ local[t] \in LocalType
        /\ call \in [Threads -> CallType] /\ hint \in [Headers -> Superblocks]
        /\ alone \in SUBSET Threads
    BY <1>t DEF Types
  <1>n. \A h \in Headers : h \in Nat
    BY <1>t, ShapeFacts
  <1>1. CASE Allocate(t)
    <2>1. /\ local[t].pc = "idle" /\ UNCHANGED <<buffer, call, shape, hint, live, aborted>>
          /\ Company(t)
      BY <1>1 DEF Allocate
    <2>2. PICK n \in 1 .. 2^shape.max :
            local' = [local EXCEPT ![t] =
              [Idling EXCEPT !.pc = "hint", !.size = n, !.limit = shape.limit,
                             !.state = HeaderFor(n)]]
      BY <1>1 DEF Allocate
    <2>3. n \in Nat /\ HeaderFor(n) \in Headers /\ HeaderFor(n) \in Nat
      <3>1. 2^shape.max \in Nat
        BY <1>t, ShapeFacts, PowerIsSubsets
      <3> QED BY <3>1, <1>t, <1>n, HeaderFits
    <2>4. shape.limit \in Nat \ {0} /\ shape.limit \in 0 .. shape.limit /\ shape.limit >= 1
      BY <1>t, ShapeFacts
    <2>5. PICK v : v = [Idling EXCEPT !.pc = "hint", !.size = n, !.limit = shape.limit,
                                      !.state = HeaderFor(n)]
      OBVIOUS
    <2>6. v \in LocalType
      <3>1. PICK r \in LocalType : r = [Idling EXCEPT !.pc = "hint", !.size = n]
        BY <1>t, <2>3, IdlingType DEF LocalType
      <3>2. [r EXCEPT !.limit = shape.limit, !.state = HeaderFor(n)] \in LocalType
        BY <2>3, <2>4 DEF LocalType
      <3>3. v = [r EXCEPT !.limit = shape.limit, !.state = HeaderFor(n)]
        BY <2>5, <3>1
      <3> QED BY <3>2, <3>3
    <2>7. v.pc = "hint" /\ v.size = n /\ v.limit = shape.limit /\ v.state = HeaderFor(n)
      BY <2>5 DEF Idling
    <2>8. /\ local' \in [Threads -> LocalType] /\ local'[t] = v
          /\ \A u \in Threads \ {t} : local'[u] = local[u] /\ call'[u] = call[u]
      BY <1>l, <2>1, <2>2, <2>5, <2>6
    <2>9. ~Counted(t) /\ call'[t].at = "idle"
      BY <1>t, <2>1, PhaseAt DEF Resting
    <2>10. Phase(t)' /\ ~Counted(t)'
      BY <2>1, <2>3, <2>4, <2>7, <2>8, <2>9, GoesOn
    <2>11. alone' \in SUBSET Threads
      BY <2>1 DEF Company
    <2> QED BY <1>l, <1>t, <2>1, <2>8, <2>9, <2>10, <2>11, QuietStep
  <1>2. ASSUME local[t].pc \in {"hint", "check", "readempty", "sethint"},
               UNCHANGED <<buffer, call, shape, live, alone, aborted>>,
               NEW v \in LocalType, local' = [local EXCEPT ![t] = v],
               hint' \in [Headers -> Superblocks], v.size = local[t].size,
               v.limit = local[t].limit, v.state \in Headers, v.state <= Want(t),
               \/ /\ v.pc \in {"check", "claim", "assign"} /\ v.sb \in Superblocks
               \/ v.pc = "search" /\ v.sb = -1 /\ v.i = 0 /\ v.large = -1
        PROVE  PoolInv'
    <2>1. Plans(t) /\ ~Counted(t)
      BY <1>2, <1>t, PhaseAt
    <2>2. /\ local' \in [Threads -> LocalType] /\ local'[t] = v
          /\ \A u \in Threads \ {t} : local'[u] = local[u] /\ call'[u] = call[u]
      BY <1>l, <1>2
    <2>3. call'[t].at = "idle" /\ 0 < shape.sbs
      BY <1>2, <2>1, <1>t, ShapeFacts DEF Plans
    <2>4. v.size \in 1 .. 2^shape.max /\ v.limit >= 1 /\ v.state <= HeaderFor(v.size)
      BY <1>2, <2>1 DEF Plans, Asks, Want
    <2>5. Phase(t)' /\ ~Counted(t)'
      BY <1>2, <2>2, <2>3, <2>4, GoesOn
    <2> QED BY <1>2, <1>l, <1>t, <2>1, <2>2, <2>5, QuietStep
  <1>p. ASSUME local[t].pc \in {"hint", "check", "readempty", "sethint"}
        PROVE  /\ local[t].state \in Headers /\ local[t].state <= Want(t)
               /\ Want(t) \in Headers /\ Want(t) <= Want(t)
               /\ local[t].pc # "hint" => local[t].sb \in Superblocks
    <2>1. Plans(t)
      BY <1>p, <1>t, PhaseAt
    <2>2. local[t].size \in 1 .. 2^shape.max
      BY <2>1 DEF Plans, Asks
    <2>3. Want(t) \in Headers
      BY <2>2, <1>t, HeaderFits DEF Want
    <2> QED BY <2>1, <2>3, <1>n DEF Plans, Asks
  <1>3. CASE ReadHint(t)
    <2>1. /\ local[t].pc = "hint" /\ UNCHANGED <<buffer, call, shape, hint, live, alone, aborted>>
          /\ local' = [local EXCEPT ![t] =
                 [local[t] EXCEPT !.pc = "check", !.sb = hint[Want(t)], !.hinted = hint[Want(t)]]]
      BY <1>3, <1>l DEF ReadHint, poolVars
    <2>2. PICK h \in Superblocks : h = hint[Want(t)]
      BY <2>1, <1>p, <1>l
    <2>3. PICK v : v = [local[t] EXCEPT !.pc = "check", !.sb = h, !.hinted = h]
      OBVIOUS
    <2>4. v \in LocalType
      <3>1. PICK r \in LocalType : r = [local[t] EXCEPT !.pc = "check", !.sb = h]
        BY <1>l DEF LocalType
      <3>2. [r EXCEPT !.hinted = h] \in LocalType
        BY DEF LocalType
      <3>3. v = [r EXCEPT !.hinted = h]
        BY <2>3, <3>1
      <3> QED BY <3>2, <3>3
    <2>5. /\ v.pc = "check" /\ v.sb = h /\ v.size = local[t].size /\ v.limit = local[t].limit
          /\ v.state = local[t].state
      BY <2>3, <1>l DEF LocalType
    <2>6. local' = [local EXCEPT ![t] = v]
      BY <2>1, <2>2, <2>3
    <2> QED BY <2>1, <2>2, <2>4, <2>5, <2>6, <1>2, <1>p, <1>l
  <1>4. CASE CheckState(t)
    <2>1. /\ local[t].pc = "check" /\ UNCHANGED <<buffer, call, shape, hint, live, alone, aborted>>
          /\ local' = [local EXCEPT ![t] =
                 IF local[t].state = buffer[local[t].sb].header
                 THEN [local[t] EXCEPT !.pc = "claim"]
                 ELSE ToSearch(local[t], Want(t))]
      BY <1>4 DEF CheckState, poolVars
    <2>2. PICK v : /\ local' = [local EXCEPT ![t] = v]
                   /\ \/ v = [local[t] EXCEPT !.pc = "claim"]
                      \/ v = ToSearch(local[t], Want(t))
      BY <2>1
    <2>3. CASE v = [local[t] EXCEPT !.pc = "claim"]
      <3>1. v \in LocalType
        BY <2>3, <1>l DEF LocalType
      <3>2. /\ v.pc = "claim" /\ v.sb = local[t].sb /\ v.size = local[t].size
            /\ v.limit = local[t].limit /\ v.state = local[t].state
        BY <2>3, <1>l DEF LocalType
      <3> QED BY <2>1, <2>2, <3>1, <3>2, <1>2, <1>p, <1>l
    <2>4. CASE v = ToSearch(local[t], Want(t))
      <3>1. /\ v \in LocalType /\ v.pc = "search" /\ v.size = local[t].size
            /\ v.limit = local[t].limit /\ v.sb = -1 /\ v.state = Want(t) /\ v.i = 0
            /\ v.large = -1
        BY <2>1, <2>4, <1>p, <1>l, <1>t, ToSearchType
      <3> QED BY <2>1, <2>2, <3>1, <1>2, <1>p, <1>l
    <2> QED BY <2>2, <2>3, <2>4
  <1>5. CASE ReadEmpty(t)
    <2>1. /\ local[t].pc = "readempty" /\ UNCHANGED <<buffer, call, shape, hint, live, alone, aborted>>
          /\ local' = [local EXCEPT ![t] =
                 [local[t] EXCEPT !.pc = "assign", !.large = buffer[local[t].sb].header]]
      BY <1>5 DEF ReadEmpty, poolVars
    <2>2. PICK g \in Int : g = buffer[local[t].sb].header
      <3>1. buffer[local[t].sb].header \in Headers
        BY <2>1, <1>p, <1>t DEF Types
      <3> QED BY <3>1, <1>n
    <2>3. PICK v \in LocalType : v = [local[t] EXCEPT !.pc = "assign", !.large = g]
      BY <1>l DEF LocalType
    <2>4. /\ v.pc = "assign" /\ v.sb = local[t].sb /\ v.size = local[t].size
          /\ v.limit = local[t].limit /\ v.state = local[t].state
      BY <2>3, <1>l DEF LocalType
    <2>5. local' = [local EXCEPT ![t] = v]
      BY <2>1, <2>2, <2>3
    <2> QED BY <2>1, <2>4, <2>5, <1>2, <1>p, <1>l
  <1>6. CASE SetHint(t)
    <2>1. /\ local[t].pc = "sethint" /\ UNCHANGED <<buffer, call, shape, live, alone, aborted>>
          /\ local' = [local EXCEPT ![t] = Try(local[t], local[t].sb, local[t].state)]
      BY <1>6 DEF SetHint
    <2>2. local[t].sb \in Superblocks /\ local[t].state \in Headers
      BY <2>1, <1>p
    <2>3. hint' \in [Headers -> Superblocks]
      <3>1. \/ hint' = [hint EXCEPT ![Want(t)] = local[t].sb]
            \/ hint' = [hint EXCEPT ![Want(t)] = hint[Want(t)]]
        BY <1>6, <1>l, Zenon DEF SetHint
      <3> QED BY <3>1, <2>1, <2>2, <1>p, <1>l
    <2>4. PICK v : v = Try(local[t], local[t].sb, local[t].state)
      OBVIOUS
    <2>5. /\ v \in LocalType /\ v.pc = "check" /\ v.size = local[t].size
          /\ v.limit = local[t].limit /\ v.sb = local[t].sb /\ v.state = local[t].state
      BY <2>2, <2>4, <1>l, <1>t, TryType
    <2> QED BY <2>1, <2>2, <2>3, <2>4, <2>5, <1>2, <1>p
  <1> QED BY <1>1, <1>3, <1>4, <1>5, <1>6

\* What one step of the search computes.
LEMMA SearchFacts ==
  ASSUME PoolInv, NEW t \in Threads, Search(t)
  PROVE  \E l \in LocalType :
           LET h == Want(t) id == (Begin(h) + local[t].i) % shape.sbs IN
           /\ h \in Headers /\ id \in Superblocks
           /\ l = [Seen(local[t], h, id, buffer[id]) EXCEPT !.i = @ + 1]
           /\ l.pc = "search" /\ l.size = local[t].size /\ l.limit = local[t].limit
           /\ l.limit >= 1 /\ l.i = local[t].i + 1 /\ l.state \in Headers /\ l.state <= h
           /\ l.sb \in {-1, id} /\ l.large \in Superblocks \cup {-1}
           /\ local' = [local EXCEPT ![t] = IF SearchEnds(l) THEN Decide(l, h) ELSE l]
  <1>t. Types /\ shape \in Shapes /\ Phase(t)
    BY DEF PoolInv, Types
  <1>l. local \in [Threads -> LocalType] /\ local[t] \in LocalType
    BY <1>t DEF Types
  <1>1. local[t].pc = "search" /\ Searches(t) /\ Asks(t)
    BY <1>t, PhaseAt DEF Search, Searches
  <1>2. PICK h \in Headers : h = Want(t)
    <2>1. local[t].size \in 1 .. 2^shape.max
      BY <1>1 DEF Asks
    <2> QED BY <2>1, <1>t, HeaderFits DEF Want
  <1>3. PICK id \in Superblocks : id = (Begin(h) + local[t].i) % shape.sbs
    <2>1. Begin(h) \in Nat /\ shape.sbs \in Nat \ {0} /\ local[t].i \in Nat
      BY <1>t, <1>l, BeginFacts, ShapeFacts DEF LocalType
    <2>2. Begin(h) + local[t].i \in Nat
      BY <2>1
    <2>3. (Begin(h) + local[t].i) % shape.sbs \in 0 .. shape.sbs - 1
      BY <2>1, <2>2, DivFacts
    <2> QED BY <2>3 DEF Superblocks
  <1>4. PICK m : m = Seen(local[t], h, id, buffer[id])
    OBVIOUS
  <1>5. /\ m \in LocalType /\ m.pc = "search" /\ m.size = local[t].size
        /\ m.limit = local[t].limit /\ m.i = local[t].i /\ m.state \in Headers
        /\ m.state <= h /\ m.sb \in {local[t].sb, id} /\ m.large \in Superblocks \cup {-1}
    <2>1. buffer[id].header \in Headers
      BY <1>t DEF Types
    <2>2. local[t].state \in Headers /\ local[t].state <= h
          /\ local[t].large \in Superblocks \cup {-1}
      BY <1>1, <1>2 DEF Searches, Asks
    <2> QED BY <1>t, <1>l, <1>1, <1>4, <2>1, <2>2, SeenType
  <1>6. PICK l : l = [m EXCEPT !.i = @ + 1]
    OBVIOUS
  <1>7. /\ l \in LocalType /\ l.pc = "search" /\ l.size = local[t].size
        /\ l.limit = local[t].limit /\ l.i = local[t].i + 1 /\ l.state = m.state
        /\ l.sb = m.sb /\ l.large = m.large
    <2>1. m.i \in Nat /\ m.i + 1 \in Nat
      BY <1>5 DEF LocalType
    <2>2. l = [m EXCEPT !.i = m.i + 1]
      BY <1>6
    <2>3. l \in LocalType
      BY <1>5, <2>1, <2>2 DEF LocalType
    <2>4. /\ l.pc = m.pc /\ l.size = m.size /\ l.limit = m.limit /\ l.i = m.i + 1
          /\ l.state = m.state /\ l.sb = m.sb /\ l.large = m.large
      BY <1>5, <2>2 DEF LocalType
    <2> QED BY <1>5, <2>3, <2>4
  <1>8. local' = [local EXCEPT ![t] = IF SearchEnds(l) THEN Decide(l, h) ELSE l]
    BY <1>2, <1>3, <1>4, <1>6, Zenon DEF Search
  <1>9. l.sb \in {-1, id} /\ l.limit >= 1
    BY <1>1, <1>5, <1>7 DEF Searches, Asks
  <1>10. l = [Seen(local[t], Want(t), (Begin(Want(t)) + local[t].i) % shape.sbs,
                  buffer[(Begin(Want(t)) + local[t].i) % shape.sbs]) EXCEPT !.i = @ + 1]
    BY <1>2, <1>3, <1>4, <1>6
  <1> QED BY <1>2, <1>3, <1>5, <1>7, <1>8, <1>9, <1>10, Zenon

\* One superblock of the search.
LEMMA StepSearch ==
  ASSUME PoolInv, NEW t \in Threads, Search(t)
  PROVE  PoolInv'
  <1>t. Types /\ shape \in Shapes /\ Phase(t) /\ aborted = FALSE
    BY DEF PoolInv, Types
  <1>l. /\ local \in [Threads -> LocalType] /\ local[t] \in LocalType
        /\ call \in [Threads -> CallType] /\ hint \in [Headers -> Superblocks]
        /\ alone \in SUBSET Threads
    BY <1>t DEF Types
  <1>1. Searches(t) /\ Asks(t) /\ ~Counted(t)
    BY <1>t, PhaseAt DEF Search, Searches
  <1>2. UNCHANGED <<buffer, call, shape, hint, live, aborted>> /\ alone' \in SUBSET Threads
    BY <1>l DEF Search
  <1>3. PICK h \in Headers, l \in LocalType :
           /\ h = Want(t)
           /\ l.pc = "search" /\ l.size = local[t].size /\ l.limit = local[t].limit
           /\ l.limit >= 1 /\ l.i = local[t].i + 1 /\ l.state \in Headers /\ l.state <= h
           /\ l.large \in Superblocks \cup {-1}
           /\ local' = [local EXCEPT ![t] = IF SearchEnds(l) THEN Decide(l, h) ELSE l]
    BY SearchFacts
  <1>4. PICK v : v = IF SearchEnds(l) THEN Decide(l, h) ELSE l
    OBVIOUS
  <1>5. v \in LocalType
    <2>1. Decide(l, h) \in LocalType
      BY <1>t, <1>3, DecideType
    <2> QED BY <1>4, <2>1
  <1>6. /\ local' \in [Threads -> LocalType] /\ local'[t] = v
        /\ \A u \in Threads \ {t} : local'[u] = local[u] /\ call'[u] = call[u]
    BY <1>l, <1>2, <1>3, <1>4, <1>5
  <1>7. call'[t].at = "idle" /\ local[t].size \in 1 .. 2^shape.max
    BY <1>1, <1>2 DEF Searches, Asks
  <1>8. Phase(t)' /\ ~Counted(t)'
    <2>1. CASE SearchEnds(l) /\ v = Idling
      BY <2>1, <1>6, <1>7, GoesHome
    <2>2. CASE SearchEnds(l) /\ v # Idling
      <3>1. /\ v.size = local[t].size /\ v.limit >= 1 /\ v.state \in Headers /\ v.state <= h
            /\ \/ v.pc = "hint"
               \/ v.pc \in {"check", "readempty", "sethint"} /\ v.sb \in Superblocks
        <4>1. v = Decide(l, h)
          BY <1>4, <2>2
        <4> QED BY <4>1, <1>t, <1>3, <2>2, DecideType
      <3>2. v.state <= HeaderFor(v.size)
        BY <3>1, <1>3 DEF Want
      <3> QED BY <1>2, <1>6, <1>7, <3>1, <3>2, GoesOn
    <2>3. CASE ~SearchEnds(l)
      <3>1. v = l /\ ~(l.sb >= 0) /\ l.i # shape.sbs
        BY <1>4, <2>3 DEF SearchEnds
      <3>2. l.sb = -1
        BY <3>1, <1>t, ShapeFacts DEF LocalType
      <3>3. l.i < shape.sbs
        <4>1. local[t].i \in Nat /\ shape.sbs \in Nat /\ local[t].i < shape.sbs
          BY <1>1, <1>l, <1>t, ShapeFacts DEF Searches, LocalType
        <4> QED BY <4>1, <3>1, <1>3
      <3>4. v.state <= HeaderFor(v.size)
        BY <3>1, <1>3 DEF Want
      <3> QED BY <1>2, <1>3, <1>6, <1>7, <3>1, <3>2, <3>3, <3>4, GoesOn
    <2> QED BY <2>1, <2>2, <2>3
  <1> QED BY <1>1, <1>2, <1>l, <1>t, <1>6, <1>8, QuietStep

\* The ends of the calls of the bitset that leave no block behind, and the
\* compare-exchange that finds the superblock in use.
LEMMA StepReturns ==
  ASSUME PoolInv, NEW t \in Threads,
         \/ Claimed(t) /\ Result(t) < 0
         \/ Freed(t)
         \/ Assign(t) /\ ~Assigns(local[t])
  PROVE  PoolInv'
  <1>t. Types /\ shape \in Shapes /\ Phase(t) /\ aborted = FALSE
    BY DEF PoolInv, Types
  <1>l. /\ local \in [Threads -> LocalType] /\ local[t] \in LocalType
        /\ call \in [Threads -> CallType] /\ hint \in [Headers -> Superblocks]
        /\ alone \in SUBSET Threads /\ call[t] \in CallType
    BY <1>t DEF Types
  <1>n. \A h \in Headers : h \in Nat
    BY <1>t, ShapeFacts
  <1>i. Idle \in CallType /\ Idle.at = "idle" /\ Idling \in LocalType
    <2>1. 0 \in Buffers
      BY <1>t, ShapeFacts
    <2> QED BY <2>1, <1>t, IdlingType DEF Idle, CallType
  <1>1. CASE Claimed(t) /\ Result(t) < 0
    <2>1. call[t].bit < 0 /\ call[t].bit \in Int
      BY <1>1, <1>l DEF Result, CallType
    <2>2. /\ local[t].pc = "claiming" /\ call[t].at = "done"
          /\ local' = [local EXCEPT ![t] = ToSearch(local[t], Want(t))]
          /\ call' = [call EXCEPT ![t] = Idle]
          /\ UNCHANGED <<buffer, shape, hint, live, alone, aborted>>
      BY <1>1, <2>1, <1>l DEF Claimed, Returns, Result, Consume
    <2>3. Claiming(t) /\ Asks(t) /\ ~Counted(t)
      <3>1. Claiming(t) /\ Asks(t)
        BY <1>t, <2>2, PhaseAt DEF Claiming
      <3>2. ~(call[t].bit >= 0)
        BY <2>1
      <3> QED BY <3>1, <3>2, <2>2 DEF Counted, Owns, Seeks, Lingers
    <2>4. local[t].size \in 1 .. 2^shape.max /\ local[t].limit >= 1 /\ Want(t) \in Headers
      BY <2>3, <1>t, HeaderFits DEF Asks, Want
    <2>5. PICK v : v = ToSearch(local[t], Want(t))
      OBVIOUS
    <2>6. /\ v \in LocalType /\ v.pc = "search" /\ v.size = local[t].size
          /\ v.limit = local[t].limit /\ v.sb = -1 /\ v.state = Want(t) /\ v.i = 0
          /\ v.large = -1
      BY <2>4, <2>5, <1>l, <1>t, ToSearchType
    <2>7. /\ local' \in [Threads -> LocalType] /\ local'[t] = v
          /\ call' \in [Threads -> CallType] /\ call'[t].at = "idle"
          /\ \A u \in Threads \ {t} : local'[u] = local[u] /\ call'[u] = call[u]
      BY <2>2, <2>5, <2>6, <1>l, <1>i
    <2>8. v.state <= HeaderFor(v.size) /\ v.i < shape.sbs
      BY <2>4, <2>6, <1>n, <1>t, ShapeFacts DEF Want
    <2>9. Phase(t)' /\ ~Counted(t)'
      BY <2>2, <2>4, <2>6, <2>7, <2>8, GoesOn
    <2> QED BY <2>2, <2>3, <2>7, <2>9, <1>l, <1>t, QuietStep
  <1>2. CASE Freed(t)
    <2>1. /\ local[t].pc = "freeing" /\ call[t].at = "done"
          /\ local' = [local EXCEPT ![t] = Idling]
          /\ call' = [call EXCEPT ![t] = Idle]
          /\ UNCHANGED <<buffer, shape, hint, live, alone>>
          /\ aborted' = (call[t].bit < 0)
      BY <1>2 DEF Freed, Returns, Result, Consume
    <2>2. call[t].bit = 0 /\ ~Counted(t)
      BY <2>1, <1>t, PhaseAt DEF Freeing, Counted, Owns, Seeks, Lingers
    <2>3. aborted' = FALSE
      <3>1. (0 < 0) = FALSE
        OBVIOUS
      <3> QED BY <2>1, <2>2, <3>1, Zenon
    <2>4. /\ local' \in [Threads -> LocalType] /\ local'[t] = Idling
          /\ call' \in [Threads -> CallType] /\ call'[t].at = "idle"
          /\ \A u \in Threads \ {t} : local'[u] = local[u] /\ call'[u] = call[u]
      BY <2>1, <1>l, <1>i
    <2>5. Phase(t)' /\ ~Counted(t)'
      BY <2>4, GoesHome
    <2> QED BY <2>1, <2>2, <2>3, <2>4, <2>5, <1>l, QuietStep
  <1>3. CASE Assign(t) /\ ~Assigns(local[t])
    <2>1. /\ local[t].pc = "assign"
          /\ local' = [local EXCEPT ![t] = Try(local[t], local[t].sb, local[t].state)]
          /\ UNCHANGED <<buffer, call, shape, hint, live, alone, aborted>>
      BY <1>3 DEF Assign, poolVars
    <2>2. Plans(t) /\ Asks(t) /\ ~Counted(t) /\ local[t].sb \in Superblocks
      BY <2>1, <1>t, PhaseAt DEF Plans
    <2>3. PICK v : v = Try(local[t], local[t].sb, local[t].state)
      OBVIOUS
    <2>4. /\ v \in LocalType /\ v.pc = "check" /\ v.size = local[t].size
          /\ v.limit = local[t].limit /\ v.sb = local[t].sb /\ v.state = local[t].state
      BY <2>2, <2>3, <1>l, <1>t, TryType DEF Asks
    <2>5. /\ local' \in [Threads -> LocalType] /\ local'[t] = v /\ call'[t].at = "idle"
          /\ \A u \in Threads \ {t} : local'[u] = local[u] /\ call'[u] = call[u]
      BY <2>1, <2>2, <2>3, <2>4, <1>l DEF Plans
    <2>6. Phase(t)' /\ ~Counted(t)'
      BY <2>1, <2>2, <2>4, <2>5, GoesOn DEF Asks, Want
    <2> QED BY <2>1, <2>2, <2>5, <2>6, <1>l, <1>t, QuietStep
  <1> QED BY <1>1, <1>2, <1>3

-----------------------------------------------------------------------------
\* A step of t that may change the word and the blocks of superblock x, in
\* which alone t is counted before the step or after it.
LEMMA BusyStep ==
  ASSUME PoolInv, NEW t \in Threads, NEW x \in Superblocks, shape' = shape,
         aborted' = FALSE, alone' \in SUBSET Threads, hint' \in [Headers -> Superblocks],
         local' \in [Threads -> LocalType], call' \in [Threads -> CallType],
         buffer' \in [Buffers -> WordType],
         \A s \in Superblocks \ {x} : buffer'[s] = buffer[s],
         buffer'[x].header \in Headers,
         \A u \in Threads \ {t} :
             Counted(u) /\ local[u].sb = x => buffer'[x].header = buffer[x].header,
         live' \in SUBSET [at : Nat, bytes : Nat, size : Nat], IsFiniteSet(live'),
         \A b \in live' : Placed(b)',
         \A s \in Superblocks \ {x} : LiveIn(s)' = LiveIn(s),
         \A u \in Threads \ {t} : local'[u] = local[u] /\ call'[u] = call[u],
         Counted(t) => local[t].sb = x, Counted(t)' => local'[t].sb = x,
         Phase(t)', Agrees(x)'
  PROVE  PoolInv'
  <1>1. Headers' = Headers /\ Superblocks' = Superblocks /\ LocalType' = LocalType
    BY DEF Headers, Superblocks, LocalType
  <1>2. Types'
    <2>1. \A s \in Superblocks : buffer'[s].header \in Headers
      BY DEF PoolInv, Types
    <2> QED BY <1>1, <2>1 DEF PoolInv, Types
  <1>3. ASSUME NEW u \in Threads PROVE Phase(u)'
    <2>1. CASE u = t
      BY <2>1
    <2>2. CASE u # t
      <3>1. Types /\ Phase(u) /\ local'[u] = local[u] /\ call'[u] = call[u]
        BY <2>2 DEF PoolInv
      <3>2. Counted(u) => buffer'[local[u].sb].header = buffer[local[u].sb].header
        <4>1. Counted(u) => local[u].sb \in Superblocks
          BY <3>1 DEF Phase, Resting, Plans, Searches, Claiming, Freeing, Counted, Owns, Seeks, Lingers
        <4> QED BY <4>1, <2>2
      <3> QED BY <3>1, <3>2, OthersKeep
    <2> QED BY <2>1, <2>2
  <1>4. ASSUME NEW s \in Superblocks PROVE Agrees(s)'
    <2>1. CASE s = x
      BY <2>1
    <2>2. CASE s # x
      <3>1. Agrees(s) /\ buffer'[s] = buffer[s] /\ LiveIn(s)' = LiveIn(s)
        BY <2>2 DEF PoolInv
      <3>2. ~(Counted(t) /\ local[t].sb = s) /\ ~(Counted(t)' /\ local'[t].sb = s)
        BY <2>2
      <3> QED BY <3>1, <3>2, Elsewhere
    <2> QED BY <2>1, <2>2
  <1> QED BY <1>1, <1>2, <1>3, <1>4 DEF PoolInv

\* The same for a step that leaves the blocks alone.
LEMMA WordStep ==
  ASSUME PoolInv, NEW t \in Threads, NEW x \in Superblocks, shape' = shape,
         hint' = hint, live' = live, alone' = alone, aborted' = aborted,
         local' \in [Threads -> LocalType], call' \in [Threads -> CallType],
         NEW w \in WordType, buffer' = [buffer EXCEPT ![x] = w],
         w.header = buffer[x].header,
         \A u \in Threads \ {t} : local'[u] = local[u] /\ call'[u] = call[u],
         Counted(t) => local[t].sb = x, Counted(t)' => local'[t].sb = x,
         Phase(t)', Agrees(x)'
  PROVE  PoolInv'
  <1>1. Types
    BY DEF PoolInv
  <1>2. x \in Buffers /\ buffer \in [Buffers -> WordType] /\ buffer[x].header \in Headers
    BY <1>1, ShapeFacts DEF Types
  <1>3. /\ buffer' \in [Buffers -> WordType] /\ buffer'[x] = w
        /\ \A s \in Superblocks \ {x} : buffer'[s] = buffer[s]
    <2>1. Superblocks \subseteq Buffers
      BY <1>1, ShapeFacts DEF Types
    <2> QED BY <1>2, <2>1
  <1>4. \A s : LiveIn(s)' = LiveIn(s)
    BY DEF LiveIn, SbOf
  <1>5. \A b \in live' : Placed(b)'
    <2> SUFFICES ASSUME NEW b \in live PROVE Placed(b)'
      OBVIOUS
    <2>1. Placed(b) /\ SbOf(b) \in Superblocks
      BY DEF PoolInv, Placed
    <2>2. buffer'[SbOf(b)].header = buffer[SbOf(b)].header
      BY <2>1, <1>3
    <2> QED BY <2>1, <2>2, PlacedKeeps
  <1>6. aborted' = FALSE /\ alone' \in SUBSET Threads /\ hint' \in [Headers -> Superblocks]
        /\ live' \in SUBSET [at : Nat, bytes : Nat, size : Nat] /\ IsFiniteSet(live')
    BY <1>1 DEF Types
  <1> QED BY <1>2, <1>3, <1>4, <1>5, <1>6, BusyStep

\* How the bits of a superblock agree with its owners after a step of t: the
\* owners stay; t takes a bit that was zero; t gives its bit back.
LEMMA BitsKeep ==
  ASSUME NEW x, BitsAgree(x), shape' = shape, LiveIn(x)' = LiveIn(x),
         buffer'[x].bits = buffer[x].bits, Owners(x)' = Owners(x),
         \A u \in Owners(x) : BitOf(u)' = BitOf(u)
  PROVE  BitsAgree(x)'
  <1>1. \A b : Bit(b)' = Bit(b)
    BY DEF Bit
  <1> QED BY <1>1 DEF BitsAgree

LEMMA BitTaken ==
  ASSUME NEW x, BitsAgree(x), shape' = shape, LiveIn(x)' = LiveIn(x),
         NEW t, NEW k, k \notin buffer[x].bits, buffer'[x].bits = buffer[x].bits \cup {k},
         t \notin Owners(x), Owners(x)' = Owners(x) \cup {t}, BitOf(t)' = k,
         \A u \in Owners(x) : BitOf(u)' = BitOf(u)
  PROVE  BitsAgree(x)'
  <1>1. \A b : Bit(b)' = Bit(b)
    BY DEF Bit
  <1>2. \A b \in LiveIn(x) : Bit(b) # k
    BY DEF BitsAgree
  <1>3. \A u \in Owners(x) : BitOf(u) # k /\ u # t
    BY DEF BitsAgree
  <1>4. buffer'[x].bits = {Bit(b)' : b \in LiveIn(x)'} \cup {BitOf(u)' : u \in Owners(x)'}
    <2>1. {Bit(b)' : b \in LiveIn(x)'} = {Bit(b) : b \in LiveIn(x)}
      BY <1>1
    <2>2. {BitOf(u)' : u \in Owners(x)'} = {BitOf(u) : u \in Owners(x)} \cup {k}
      OBVIOUS
    <2> QED BY <2>1, <2>2 DEF BitsAgree
  <1>5. \A u, v \in Owners(x)' : BitOf(u)' = BitOf(v)' => u = v
    BY <1>3 DEF BitsAgree
  <1>6. \A b \in LiveIn(x)', u \in Owners(x)' : Bit(b)' # BitOf(u)'
    BY <1>1, <1>2, <1>3 DEF BitsAgree
  <1> QED BY <1>1, <1>4, <1>5, <1>6 DEF BitsAgree

LEMMA BitGiven ==
  ASSUME NEW x, BitsAgree(x), shape' = shape, LiveIn(x)' = LiveIn(x),
         NEW t \in Owners(x), buffer'[x].bits = buffer[x].bits \ {BitOf(t)},
         Owners(x)' = Owners(x) \ {t}, \A u \in Owners(x) \ {t} : BitOf(u)' = BitOf(u)
  PROVE  BitsAgree(x)' /\ BitOf(t) \in buffer[x].bits
  <1>1. \A b : Bit(b)' = Bit(b)
    BY DEF Bit
  <1>2. \A b \in LiveIn(x) : Bit(b) # BitOf(t)
    BY DEF BitsAgree
  <1>3. \A u \in Owners(x) \ {t} : BitOf(u) # BitOf(t)
    BY DEF BitsAgree
  <1>4. buffer'[x].bits = {Bit(b)' : b \in LiveIn(x)'} \cup {BitOf(u)' : u \in Owners(x)'}
    <2>1. {Bit(b)' : b \in LiveIn(x)'} = {Bit(b) : b \in LiveIn(x)}
      BY <1>1
    <2>2. {BitOf(u)' : u \in Owners(x)'} = {BitOf(u) : u \in Owners(x)} \ {BitOf(t)}
      BY <1>3
    <2>3. {Bit(b) : b \in LiveIn(x)} \ {BitOf(t)} = {Bit(b) : b \in LiveIn(x)}
      BY <1>2
    <2> QED BY <2>1, <2>2, <2>3 DEF BitsAgree
  <1>5. \A u, v \in Owners(x)' : BitOf(u)' = BitOf(v)' => u = v
    BY DEF BitsAgree
  <1>6. \A b \in LiveIn(x)', u \in Owners(x)' : Bit(b)' # BitOf(u)'
    BY <1>1 DEF BitsAgree
  <1> QED BY <1>1, <1>4, <1>5, <1>6 DEF BitsAgree

\* The bit of t becomes that of a block; and that of a block becomes t's.
LEMMA BitToBlock ==
  ASSUME NEW x, BitsAgree(x), shape' = shape, buffer'[x].bits = buffer[x].bits,
         NEW t \in Owners(x), NEW b, Bit(b) = BitOf(t), LiveIn(x)' = LiveIn(x) \cup {b},
         Owners(x)' = Owners(x) \ {t}, \A u \in Owners(x) \ {t} : BitOf(u)' = BitOf(u)
  PROVE  BitsAgree(x)' /\ b \notin LiveIn(x)
  <1>1. \A c : Bit(c)' = Bit(c)
    BY DEF Bit
  <1>2. \A c \in LiveIn(x) : Bit(c) # Bit(b)
    BY DEF BitsAgree
  <1>3. \A u \in Owners(x) \ {t} : BitOf(u) # Bit(b)
    BY DEF BitsAgree
  <1>4. buffer'[x].bits = {Bit(c)' : c \in LiveIn(x)'} \cup {BitOf(u)' : u \in Owners(x)'}
    <2>1. {Bit(c)' : c \in LiveIn(x)'} = {Bit(c) : c \in LiveIn(x)} \cup {Bit(b)}
      BY <1>1
    <2>2. {BitOf(u)' : u \in Owners(x)'} \cup {Bit(b)} = {BitOf(u) : u \in Owners(x)}
      OBVIOUS
    <2> QED BY <2>1, <2>2 DEF BitsAgree
  <1>5. \A u, v \in Owners(x)' : BitOf(u)' = BitOf(v)' => u = v
    BY DEF BitsAgree
  <1>6. \A c \in LiveIn(x)', u \in Owners(x)' : Bit(c)' # BitOf(u)'
    BY <1>1, <1>3 DEF BitsAgree
  <1>7. \A c, d \in LiveIn(x)' : Bit(c)' = Bit(d)' => c = d
    BY <1>1, <1>2 DEF BitsAgree
  <1> QED BY <1>2, <1>4, <1>5, <1>6, <1>7 DEF BitsAgree

LEMMA BlockToBit ==
  ASSUME NEW x, BitsAgree(x), shape' = shape, buffer'[x].bits = buffer[x].bits,
         NEW b \in LiveIn(x), LiveIn(x)' = LiveIn(x) \ {b},
         NEW t, t \notin Owners(x), Owners(x)' = Owners(x) \cup {t}, BitOf(t)' = Bit(b),
         \A u \in Owners(x) : BitOf(u)' = BitOf(u)
  PROVE  BitsAgree(x)'
  <1>1. \A c : Bit(c)' = Bit(c)
    BY DEF Bit
  <1>2. \A c \in LiveIn(x) \ {b} : Bit(c) # Bit(b)
    BY DEF BitsAgree
  <1>3. \A u \in Owners(x) : BitOf(u) # Bit(b) /\ u # t
    BY DEF BitsAgree
  <1>4. buffer'[x].bits = {Bit(c)' : c \in LiveIn(x)'} \cup {BitOf(u)' : u \in Owners(x)'}
    <2>1. {Bit(c)' : c \in LiveIn(x)'} \cup {Bit(b)} = {Bit(c) : c \in LiveIn(x)}
      BY <1>1
    <2>2. {BitOf(u)' : u \in Owners(x)'} = {BitOf(u) : u \in Owners(x)} \cup {Bit(b)}
      OBVIOUS
    <2> QED BY <2>1, <2>2 DEF BitsAgree
  <1>5. \A u, v \in Owners(x)' : BitOf(u)' = BitOf(v)' => u = v
    BY <1>3 DEF BitsAgree
  <1>6. \A c \in LiveIn(x)', u \in Owners(x)' : Bit(c)' # BitOf(u)'
    BY <1>1, <1>2 DEF BitsAgree
  <1>7. \A c, d \in LiveIn(x)' : Bit(c)' = Bit(d)' => c = d
    BY <1>1 DEF BitsAgree
  <1> QED BY <1>4, <1>5, <1>6, <1>7 DEF BitsAgree

-----------------------------------------------------------------------------
\* acquire counts the claim of t, which may still be withdrawn.
LEMMA StepClaim ==
  ASSUME PoolInv, NEW t \in Threads, Claim(t)
  PROVE  PoolInv'
  <1>t. Types /\ shape \in Shapes /\ Phase(t)
    BY DEF PoolInv, Types
  <1>l. /\ local \in [Threads -> LocalType] /\ local[t] \in LocalType
        /\ call \in [Threads -> CallType] /\ call[t] \in CallType
        /\ buffer \in [Buffers -> WordType]
    BY <1>t DEF Types
  <1>1. local[t].pc = "claim" /\ Plans(t) /\ Asks(t) /\ ~Counted(t) /\ call[t].at = "idle"
    BY <1>t, PhaseAt DEF Claim, Plans
  <1>2. PICK x \in Superblocks : x = local[t].sb /\ x \in Buffers /\ buffer[x] \in WordType
    BY <1>1, <1>l, <1>t, ShapeFacts DEF Plans
  <1>3. PICK g \in Headers : g = local[t].state /\ g \in Nat
    BY <1>1, <1>t, ShapeFacts DEF Asks
  <1>4. PICK n \in Nat \ {0} : n = 2^g
    BY <1>3, PowerIsSubsets
  <1>5. PICK h \in 0 .. n - 1 : Acquire(t, x, n, h, g, TRUE)
    BY <1>2, <1>3, <1>4 DEF Claim
  <1>6. /\ local' = [local EXCEPT ![t].pc = "claiming"]
        /\ UNCHANGED <<shape, hint, live, alone, aborted>>
    BY DEF Claim, poolVars
  <1>7. ~RefusesHint(h, n, TRUE) /\ h \in Nat
    BY DEF RefusesHint
  <1>8. PICK w \in WordType : /\ buffer' = [buffer EXCEPT ![x] = w]
                              /\ w = [buffer[x] EXCEPT !.used = @ + 1]
    <2>1. buffer' = [buffer EXCEPT ![x] = [buffer[x] EXCEPT !.used = @ + 1]]
      BY <1>5, <1>7, <1>2, <1>l DEF Acquire
    <2>2. [buffer[x] EXCEPT !.used = @ + 1] \in WordType
      BY <1>2 DEF WordType
    <2> QED BY <2>1, <2>2
  <1>9. w.header = buffer[x].header /\ w.bits = buffer[x].bits /\ w.used = buffer[x].used + 1
        /\ buffer'[x] = w
    BY <1>8, <1>2, <1>l DEF WordType
  <1>10. PICK c \in CallType :
           /\ call' = [call EXCEPT ![t] = c]
           /\ c.on = x /\ c.bound = n /\ c.lg2 = TRUE
           /\ \/ /\ c.at = "or" /\ c.bit = h /\ buffer[x].header = g
                 /\ ~(n <= buffer[x].used)
              \/ c.at = "undo" /\ c.bit < 0
    <2>1. PICK e : e = [at |-> "or", on |-> x, bit |-> h, bound |-> n, lg2 |-> TRUE]
      OBVIOUS
    <2>2. e \in CallType
      BY <2>1, <1>2, <1>7 DEF CallType
    <2>3. \/ call' = [call EXCEPT ![t] = [e EXCEPT !.at = "undo", !.bit = -1]]
          \/ call' = [call EXCEPT ![t] = [e EXCEPT !.at = "undo", !.bit = -2]]
          \/ call' = [call EXCEPT ![t] = e] /\ buffer[x].header = g /\ ~(n <= buffer[x].used)
      BY <1>5, <1>7, <2>1 DEF Acquire, Full, WrongHeader, Filled
    <2>4. ASSUME NEW r \in {-1, -2}
          PROVE  LET f == [e EXCEPT !.at = "undo", !.bit = r] IN
                 /\ f \in CallType /\ f.on = x /\ f.bound = n /\ f.lg2 = TRUE
                 /\ f.at = "undo" /\ f.bit < 0
      <3>1. PICK f : f = [e EXCEPT !.at = "undo", !.bit = r]
        OBVIOUS
      <3>2. f = [at |-> "undo", on |-> x, bit |-> r, bound |-> n, lg2 |-> TRUE]
        BY <3>1, <2>1
      <3>3. f \in CallType
        BY <3>2, <1>2 DEF CallType
      <3>4. f.on = x /\ f.bound = n /\ f.lg2 = TRUE /\ f.at = "undo" /\ f.bit = r
        BY <3>2
      <3>5. r < 0
        OBVIOUS
      <3> QED BY <3>1, <3>3, <3>4, <3>5
    <2>5. CASE call' = [call EXCEPT ![t] = e] /\ buffer[x].header = g /\ ~(n <= buffer[x].used)
      BY <2>1, <2>2, <2>5
    <2>6. CASE call' = [call EXCEPT ![t] = [e EXCEPT !.at = "undo", !.bit = -1]]
      BY <2>4, <2>6
    <2>7. CASE call' = [call EXCEPT ![t] = [e EXCEPT !.at = "undo", !.bit = -2]]
      BY <2>4, <2>7
    <2> QED BY <2>3, <2>5, <2>6, <2>7
  <1>11. /\ call' \in [Threads -> CallType] /\ call'[t] = c
         /\ local' \in [Threads -> LocalType] /\ local'[t] = [local[t] EXCEPT !.pc = "claiming"]
         /\ \A u \in Threads \ {t} : local'[u] = local[u] /\ call'[u] = call[u]
    <2>1. [local[t] EXCEPT !.pc = "claiming"] \in LocalType
      BY <1>l DEF LocalType
    <2> QED BY <2>1, <1>l, <1>6, <1>10
  <1>12. /\ local'[t].pc = "claiming" /\ local'[t].sb = x /\ local'[t].state = g
         /\ local'[t].size = local[t].size /\ local'[t].limit = local[t].limit
    BY <1>11, <1>l, <1>2, <1>3 DEF LocalType
  <1>13. Phase(t)'
    <2>1. Headers' = Headers /\ Superblocks' = Superblocks /\ Want(t)' = Want(t)
      BY <1>6, <1>12 DEF Headers, Superblocks, Want, HeaderFor
    <2>2. Asks(t)'
      BY <2>1, <1>1, <1>3, <1>6, <1>12 DEF Asks
    <2>3. Claiming(t)'
      <3>1. c.at = "or" => c.bit \in 0 .. 2^g - 1 /\ buffer'[x].header = g
        BY <1>4, <1>9, <1>10
      <3> QED BY <3>1, <2>1, <2>2, <1>4, <1>10, <1>11, <1>12 DEF Claiming
    <2> QED BY <2>3 DEF Phase
  <1>14. ~Owns(t)' /\ Counted(t)' /\ (Seeks(t)' <=> c.at = "or")
    BY <1>10, <1>11, <1>12 DEF Counted, Owns, Seeks, Lingers
  <1>15. LiveIn(x)' = LiveIn(x) /\ Agrees(x)
    BY <1>6 DEF LiveIn, SbOf, PoolInv
  <1>16. /\ Owners(x)' = Owners(x) /\ \A u \in Owners(x) : BitOf(u)' = BitOf(u)
         /\ t \notin Claimers(x) /\ t \in Claimers(x)' /\ t \notin Sharers(x)
         /\ Claimers(x) \ {t} = Claimers(x)' \ {t} /\ Sharers(x) \ {t} = Sharers(x)' \ {t}
         /\ t \in Sharers(x)' <=> c.at = "or"
    <2>1. t \notin Owners(x) /\ t \notin Owners(x)' /\ t \notin Claimers(x) /\ t \notin Sharers(x)
          /\ t \in Claimers(x)' /\ (t \in Sharers(x)' <=> c.at = "or")
      BY <1>1, <1>11, <1>12, <1>14, Members DEF Counted
    <2>2. /\ Owners(x) \ {t} = Owners(x)' \ {t} /\ Sharers(x) \ {t} = Sharers(x)' \ {t}
          /\ Claimers(x) \ {t} = Claimers(x)' \ {t}
          /\ \A u \in Threads \ {t} : BitOf(u)' = BitOf(u)
      BY <1>11, Members
    <2>3. Owners(x) \subseteq Threads
      BY DEF Owners
    <2> QED BY <2>1, <2>2, <2>3
  <1>17. BitsAgree(x)'
    BY <1>6, <1>9, <1>15, <1>16, BitsKeep DEF Agrees
  <1>18. CountsAgree(x)'
    <2>1. PICK a \in Nat : a = Cardinality(LiveIn(x))
      BY <1>t, Finite
    <2>2. PICK k \in Nat : k = Cardinality(Claimers(x)) /\ Cardinality(Claimers(x)') = k + 1
      <3>1. IsFiniteSet(Claimers(x))
        BY <1>t, Finite
      <3> QED BY <3>1, <1>16, CountChange
    <2>3. PICK m \in Nat : /\ m = Cardinality(Sharers(x)) /\ m <= k
                           /\ c.at = "or" => Cardinality(Sharers(x)') = m + 1
                           /\ c.at # "or" => Cardinality(Sharers(x)') = m
      <3>1. IsFiniteSet(Sharers(x)) /\ Cardinality(Sharers(x)) <= Cardinality(Claimers(x))
        BY <1>t, Finite
      <3> QED BY <3>1, <2>2, <1>16, CountChange
    <2>4. buffer[x].used = a + k /\ a + m <= 2^buffer[x].header
      BY <2>1, <2>2, <2>3, <1>15 DEF Agrees, CountsAgree
    <2>5. a + Cardinality(Sharers(x)') <= 2^buffer[x].header
      <3>1. CASE c.at = "or"
        <4>1. buffer[x].header = g /\ ~(n <= a + k)
          BY <3>1, <1>10, <2>4
        <4> QED BY <4>1, <3>1, <2>3, <1>4
      <3>2. CASE c.at # "or"
        BY <3>2, <2>3, <2>4
      <3> QED BY <3>1, <3>2
    <2>6. buffer'[x].used = a + (k + 1)
      BY <1>9, <2>4
    <2> QED BY <2>1, <2>2, <2>5, <2>6, <1>9, <1>15 DEF CountsAgree
  <1> QED BY <1>1, <1>6, <1>8, <1>9, <1>11, <1>12, <1>13, <1>17, <1>18, WordStep DEF Agrees

\* A claim is counted down: acquire withdraws it, or release has cleared its bit.
LEMMA StepCountsDown ==
  ASSUME PoolInv, NEW t \in Threads, Undo(t) \/ CountDown(t), UNCHANGED <<local, poolVars>>
  PROVE  PoolInv'
  <1>t. Types /\ shape \in Shapes /\ Phase(t)
    BY DEF PoolInv, Types
  <1>l. /\ local \in [Threads -> LocalType] /\ local[t] \in LocalType
        /\ call \in [Threads -> CallType] /\ call[t] \in CallType
        /\ buffer \in [Buffers -> WordType]
    BY <1>t DEF Types
  <1>1. /\ call[t].on = local[t].sb /\ local[t].sb \in Superblocks
        /\ \/ Undo(t) /\ local[t].pc = "claiming" /\ Claiming(t) /\ call[t].bit < 0
           \/ CountDown(t) /\ local[t].pc = "freeing"
    BY <1>t DEF Undo, CountDown, Phase, Resting, Plans, Searches, Claiming, Freeing
  <1>2. PICK x \in Superblocks : /\ x = local[t].sb /\ x = call[t].on
                                 /\ x \in Buffers /\ buffer[x] \in WordType
    BY <1>1, <1>l, <1>t, ShapeFacts
  <1>3. Lingers(t) /\ ~Owns(t) /\ ~Seeks(t) /\ Counted(t)
    BY <1>1 DEF Undo, CountDown, Counted, Owns, Seeks, Lingers
  <1>4. /\ buffer' = [buffer EXCEPT ![x] = [buffer[x] EXCEPT !.used = @ - 1]]
        /\ UNCHANGED <<local, shape, hint, live, alone, aborted>>
    BY <1>2, <1>l DEF Undo, CountDown, poolVars
  <1>5. PICK c \in CallType :
          /\ call' = [call EXCEPT ![t] = c] /\ c.at = "done"
          /\ \/ local[t].pc = "claiming" /\ Claiming(t) /\ c.bit < 0 /\ c.on = call[t].on
                /\ c.bound = call[t].bound /\ c.lg2 = call[t].lg2
             \/ local[t].pc = "freeing" /\ c.bit = 0
    <2>1. CASE Undo(t) /\ local[t].pc = "claiming" /\ Claiming(t) /\ call[t].bit < 0
      <3>1. PICK c \in CallType : c = [call[t] EXCEPT !.at = "done"]
        BY <1>l DEF CallType
      <3>2. /\ c.at = "done" /\ c.bit = call[t].bit /\ c.on = call[t].on
            /\ c.bound = call[t].bound /\ c.lg2 = call[t].lg2
        BY <3>1, <1>l DEF CallType
      <3>3. call' = [call EXCEPT ![t] = c]
        BY <2>1, <3>1 DEF Undo
      <3> QED BY <2>1, <3>2, <3>3
    <2>2. CASE CountDown(t) /\ local[t].pc = "freeing"
      <3>1. PICK c \in CallType : c = [call[t] EXCEPT !.at = "done", !.bit = 0]
        BY <1>l DEF CallType
      <3>2. c.at = "done" /\ c.bit = 0
        BY <3>1, <1>l DEF CallType
      <3>3. call' = [call EXCEPT ![t] = c]
        BY <2>2, <3>1 DEF CountDown, Returning
      <3> QED BY <2>2, <3>2, <3>3
    <2> QED BY <1>1, <2>1, <2>2
  <1>6. /\ call' \in [Threads -> CallType] /\ call'[t] = c /\ local' \in [Threads -> LocalType]
        /\ \A u \in Threads \ {t} : local'[u] = local[u] /\ call'[u] = call[u]
    BY <1>l, <1>4, <1>5
  <1>7. ~Counted(t)'
    <2>1. local[t].pc = "claiming" => ~(c.bit >= 0)
      BY <1>5 DEF CallType
    <2> QED BY <2>1, <1>4, <1>5, <1>6 DEF Counted, Owns, Seeks, Lingers
  <1>8. Phase(t)'
    <2>1. Headers' = Headers /\ Superblocks' = Superblocks /\ Want(t)' = Want(t)
      BY <1>4 DEF Headers, Superblocks, Want, HeaderFor
    <2>2. CASE local[t].pc = "claiming"
      <3>1. Claiming(t) /\ c.bit < 0 /\ c.on = call[t].on /\ c.bound = call[t].bound
            /\ c.lg2 = call[t].lg2 /\ call'[t] = c /\ c.at = "done"
        BY <2>2, <1>5, <1>6
      <3>2. Asks(t)'
        BY <2>1, <3>1, <1>4 DEF Claiming, Asks
      <3> QED BY <2>1, <3>1, <3>2, <1>4 DEF Phase, Claiming
    <2>3. CASE local[t].pc = "freeing"
      BY <2>1, <2>3, <1>1, <1>4, <1>5, <1>6 DEF Phase, Freeing
    <2> QED BY <2>2, <2>3, <1>1
  <1>9. LiveIn(x)' = LiveIn(x) /\ Agrees(x)
    BY <1>4 DEF LiveIn, SbOf, PoolInv
  <1>10. /\ Owners(x)' = Owners(x) /\ \A u \in Owners(x) : BitOf(u)' = BitOf(u)
         /\ t \in Claimers(x) /\ t \notin Claimers(x)' /\ Sharers(x)' = Sharers(x)
         /\ Claimers(x) \ {t} = Claimers(x)' \ {t}
    <2>1. /\ t \notin Owners(x) /\ t \notin Owners(x)' /\ t \in Claimers(x)
          /\ t \notin Claimers(x)' /\ t \notin Sharers(x) /\ t \notin Sharers(x)'
      BY <1>2, <1>3, <1>6, <1>7, Members DEF Counted
    <2>2. /\ Owners(x) \ {t} = Owners(x)' \ {t} /\ Sharers(x) \ {t} = Sharers(x)' \ {t}
          /\ Claimers(x) \ {t} = Claimers(x)' \ {t}
          /\ \A u \in Threads \ {t} : BitOf(u)' = BitOf(u)
      BY <1>6, Members
    <2>3. Owners(x) \subseteq Threads
      BY DEF Owners
    <2> QED BY <2>1, <2>2, <2>3
  <1>11. PICK a \in Nat, k \in Nat :
           /\ a = Cardinality(LiveIn(x)) /\ k + 1 = Cardinality(Claimers(x))
           /\ k = Cardinality(Claimers(x)')
    <2>1. IsFiniteSet(Claimers(x)) /\ Cardinality(LiveIn(x)) \in Nat
      BY <1>t, Finite
    <2>2. /\ Cardinality(Claimers(x)) \in Nat /\ IsFiniteSet(Claimers(x)')
          /\ Cardinality(Claimers(x)') = Cardinality(Claimers(x)) - 1
      BY <2>1, <1>10, CountChange
    <2>3. Cardinality(Claimers(x)') \in Nat
      BY <2>2, FS_CardinalityType
    <2> QED BY <2>1, <2>2, <2>3
  <1>12. buffer[x].used = a + (k + 1)
    BY <1>9, <1>11 DEF Agrees, CountsAgree
  <1>13. PICK w \in WordType : /\ buffer' = [buffer EXCEPT ![x] = w] /\ buffer'[x] = w
                               /\ w.header = buffer[x].header /\ w.bits = buffer[x].bits
                               /\ w.used = a + k
    <2>1. buffer[x].used - 1 = a + k /\ a + k \in Nat
      BY <1>12
    <2>2. PICK w : w = [buffer[x] EXCEPT !.used = a + k]
      OBVIOUS
    <2>3. w \in WordType
      BY <2>1, <2>2, <1>2 DEF WordType
    <2>4. w.header = buffer[x].header /\ w.bits = buffer[x].bits /\ w.used = a + k
      BY <2>2, <1>2 DEF WordType
    <2>5. buffer' = [buffer EXCEPT ![x] = w]
      BY <1>4, <2>1, <2>2
    <2> QED BY <2>3, <2>4, <2>5, <1>2, <1>l
  <1>14. BitsAgree(x)'
    BY <1>4, <1>9, <1>10, <1>13, BitsKeep DEF Agrees
  <1>15. CountsAgree(x)'
    BY <1>9, <1>10, <1>11, <1>13 DEF Agrees, CountsAgree
  <1> QED BY <1>2, <1>4, <1>6, <1>7, <1>8, <1>13, <1>14, <1>15, WordStep DEF Agrees

\* The fetch_or of acquire: t takes the bit, or finds it taken and tries one
\* that is again within the bound.
LEMMA StepFetchOr ==
  ASSUME PoolInv, NEW t \in Threads, FetchOr(t), UNCHANGED <<local, poolVars>>
  PROVE  PoolInv'
  <1>t. Types /\ shape \in Shapes /\ Phase(t)
    BY DEF PoolInv, Types
  <1>l. /\ local \in [Threads -> LocalType] /\ local[t] \in LocalType
        /\ call \in [Threads -> CallType] /\ call[t] \in CallType
        /\ buffer \in [Buffers -> WordType]
    BY <1>t DEF Types
  <1>1. /\ call[t].at = "or" /\ local[t].pc = "claiming" /\ Claiming(t) /\ Asks(t)
        /\ call[t].bit \in 0 .. 2^local[t].state - 1
        /\ buffer[local[t].sb].header = local[t].state
    BY <1>t DEF FetchOr, Phase, Resting, Plans, Searches, Claiming, Freeing
  <1>2. PICK x \in Superblocks : /\ x = local[t].sb /\ x = call[t].on
                                 /\ x \in Buffers /\ buffer[x] \in WordType
    BY <1>1, <1>l, <1>t, ShapeFacts DEF Claiming
  <1>3. PICK g \in Headers : g = local[t].state /\ g \in Nat /\ g = buffer[x].header
    BY <1>1, <1>2, <1>t, ShapeFacts DEF Asks
  <1>4. PICK n \in Nat \ {0} : n = 2^g
    BY <1>3, PowerIsSubsets
  <1>5. PICK k \in 0 .. n - 1 : k = call[t].bit /\ k \in Nat
    BY <1>1, <1>3, <1>4
  <1>6. call[t].bound = n /\ call[t].lg2 = TRUE
    BY <1>1, <1>3, <1>4 DEF Claiming
  <1>7. Seeks(t) /\ ~Owns(t) /\ Counted(t)
    BY <1>1 DEF Counted, Owns, Seeks, Lingers
  <1>8. UNCHANGED <<local, shape, hint, live, alone, aborted>>
    BY DEF poolVars
  <1>9. PICK w \in WordType : /\ buffer' = [buffer EXCEPT ![x] = w] /\ buffer'[x] = w
                              /\ w.header = buffer[x].header /\ w.used = buffer[x].used
                              /\ w.bits = buffer[x].bits \cup {k}
    <2>1. PICK w : w = [buffer[x] EXCEPT !.bits = @ \cup {k}]
      OBVIOUS
    <2>2. w \in WordType
      BY <2>1, <1>2, <1>5 DEF WordType
    <2>3. /\ w.header = buffer[x].header /\ w.used = buffer[x].used
          /\ w.bits = buffer[x].bits \cup {k}
      BY <2>1, <1>2 DEF WordType
    <2>4. buffer' = [buffer EXCEPT ![x] = w]
      BY <2>1, <1>2, <1>5 DEF FetchOr
    <2> QED BY <2>2, <2>3, <2>4, <1>2, <1>l
  <1>10. PICK c \in CallType :
           /\ call' = [call EXCEPT ![t] = c]
           /\ c.on = x /\ c.bound = n /\ c.lg2 = TRUE /\ c.bit \in 0 .. n - 1
           /\ k \notin buffer[x].bits => c.at = "done" /\ c.bit = k
           /\ k \in buffer[x].bits => c.at = "or"
    <2>1. CASE k \notin buffer[x].bits
      <3>1. PICK c \in CallType : c = [call[t] EXCEPT !.at = "done", !.bit = k]
        BY <1>l, <1>5 DEF CallType
      <3>2. /\ c.at = "done" /\ c.bit = k /\ c.on = call[t].on
            /\ c.bound = call[t].bound /\ c.lg2 = call[t].lg2
        BY <3>1, <1>l DEF CallType
      <3>3. call' = [call EXCEPT ![t] = c]
        BY <2>1, <3>1, <1>2, <1>5 DEF FetchOr, Returning
      <3> QED BY <2>1, <3>2, <3>3, <1>2, <1>6
    <2>2. CASE k \in buffer[x].bits
      <3>1. PICK m \in 0 .. n - 1 : m = NextBit(buffer[x].bits, k, n, TRUE)
        <4>1. PICK z \in 0 .. n - 1 : z \notin buffer[x].bits
          BY <1>2, <1>3, <1>4, <1>7, ZeroBitExists
        <4>2. PICK q \in 0 .. BitsPerInt : BitsPerInt = 2^q
          BY WordAssumption
        <4>3. q \in Nat
          BY <4>2, BitsPerIntAssumption
        <4> QED BY <4>1, <4>2, <4>3, <1>3, <1>4, NextBitInPower
      <3>2. m \in Nat
        OBVIOUS
      <3>3. PICK c \in CallType : c = [call[t] EXCEPT !.bit = m]
        BY <1>l, <3>2 DEF CallType
      <3>4. /\ c.at = "or" /\ c.bit = m /\ c.on = call[t].on
            /\ c.bound = call[t].bound /\ c.lg2 = call[t].lg2
        BY <3>3, <1>1, <1>l DEF CallType
      <3>5. call' = [call EXCEPT ![t] = c]
        BY <2>2, <3>1, <3>3, <1>2, <1>5, <1>6, <1>l DEF FetchOr
      <3> QED BY <2>2, <3>1, <3>4, <3>5, <1>2, <1>6
    <2> QED BY <2>1, <2>2
  <1>11. /\ call' \in [Threads -> CallType] /\ call'[t] = c /\ local' \in [Threads -> LocalType]
         /\ \A u \in Threads \ {t} : local'[u] = local[u] /\ call'[u] = call[u]
    BY <1>l, <1>8, <1>10
  <1>12. Phase(t)'
    <2>1. Headers' = Headers /\ Superblocks' = Superblocks /\ Want(t)' = Want(t)
      BY <1>8 DEF Headers, Superblocks, Want, HeaderFor
    <2>2. Asks(t)'
      BY <2>1, <1>1, <1>8 DEF Asks
    <2>3. c.at \in {"or", "done"} /\ c.bit \in 0 .. 2^g - 1 /\ c.bound = 2^g
      BY <1>4, <1>10
    <2>4. Claiming(t)'
      BY <2>1, <2>2, <2>3, <1>1, <1>2, <1>3, <1>8, <1>9, <1>10, <1>11 DEF Claiming
    <2> QED BY <2>4 DEF Phase
  <1>13. LiveIn(x)' = LiveIn(x) /\ Agrees(x)
    BY <1>8 DEF LiveIn, SbOf, PoolInv
  <1>14. /\ (Owns(t) \/ Seeks(t))' /\ Counted(t)'
         /\ k \notin buffer[x].bits => Owns(t)' /\ BitOf(t)' = k
         /\ k \in buffer[x].bits => ~Owns(t)'
    <2>1. c.bit >= 0
      BY <1>10
    <2> QED BY <2>1, <1>1, <1>8, <1>10, <1>11 DEF Counted, Owns, Seeks, Lingers, BitOf
  <1>15. /\ t \notin Owners(x) /\ Owners(x) \ {t} = Owners(x)' \ {t}
         /\ t \in Owners(x)' <=> Owns(t)'
         /\ Sharers(x)' = Sharers(x) /\ Claimers(x)' = Claimers(x)
         /\ \A u \in Owners(x) : BitOf(u)' = BitOf(u)
    <2>1. /\ t \notin Owners(x) /\ (t \in Owners(x)' <=> Owns(t)') /\ t \in Claimers(x)
          /\ t \in Claimers(x)' /\ t \in Sharers(x) /\ t \in Sharers(x)'
      BY <1>2, <1>7, <1>8, <1>11, <1>14, Members
    <2>2. /\ Owners(x) \ {t} = Owners(x)' \ {t} /\ Sharers(x) \ {t} = Sharers(x)' \ {t}
          /\ Claimers(x) \ {t} = Claimers(x)' \ {t}
          /\ \A u \in Threads \ {t} : BitOf(u)' = BitOf(u)
      BY <1>11, Members
    <2>3. Owners(x) \subseteq Threads
      BY DEF Owners
    <2> QED BY <2>1, <2>2, <2>3
  <1>16. BitsAgree(x)'
    <2>1. CASE k \notin buffer[x].bits
      <3>1. Owners(x)' = Owners(x) \cup {t} /\ BitOf(t)' = k
        BY <2>1, <1>14, <1>15
      <3> QED BY <2>1, <3>1, <1>8, <1>9, <1>13, <1>15, BitTaken DEF Agrees
    <2>2. CASE k \in buffer[x].bits
      <3>1. Owners(x)' = Owners(x) /\ buffer'[x].bits = buffer[x].bits
        <4>1. Owners(x)' = Owners(x)
          BY <2>2, <1>14, <1>15
        <4>2. buffer[x].bits \cup {k} = buffer[x].bits
          BY <2>2
        <4> QED BY <4>1, <4>2, <1>9
      <3> QED BY <2>2, <3>1, <1>8, <1>13, <1>15, BitsKeep DEF Agrees
    <2> QED BY <2>1, <2>2
  <1>17. CountsAgree(x)'
    BY <1>9, <1>13, <1>15 DEF Agrees, CountsAgree
  <1> QED BY <1>2, <1>8, <1>9, <1>11, <1>12, <1>16, <1>17, WordStep DEF Agrees

\* The fetch_and of release: t clears its bit and stays counted.
LEMMA StepFetchAnd ==
  ASSUME PoolInv, NEW t \in Threads, FetchAnd(t), UNCHANGED <<local, poolVars>>
  PROVE  PoolInv'
  <1>t. Types /\ shape \in Shapes /\ Phase(t)
    BY DEF PoolInv, Types
  <1>l. /\ local \in [Threads -> LocalType] /\ local[t] \in LocalType
        /\ call \in [Threads -> CallType] /\ call[t] \in CallType
        /\ buffer \in [Buffers -> WordType]
    BY <1>t DEF Types
  <1>1. /\ call[t].at = "and" /\ local[t].pc = "freeing" /\ local[t].sb \in Superblocks
        /\ call[t].on = local[t].sb /\ call[t].bit = local[t].i
    BY <1>t DEF FetchAnd, Phase, Resting, Plans, Searches, Claiming, Freeing
  <1>2. PICK x \in Superblocks : /\ x = local[t].sb /\ x = call[t].on
                                 /\ x \in Buffers /\ buffer[x] \in WordType
    BY <1>1, <1>l, <1>t, ShapeFacts
  <1>3. Owns(t) /\ BitOf(t) = call[t].bit /\ Counted(t)
    BY <1>1 DEF Counted, Owns, BitOf
  <1>4. UNCHANGED <<local, shape, hint, live, alone, aborted>>
    BY DEF poolVars
  <1>5. LiveIn(x)' = LiveIn(x) /\ Agrees(x)
    BY <1>4 DEF LiveIn, SbOf, PoolInv
  <1>6. t \in Owners(x) /\ BitOf(t) \in buffer[x].bits
    BY <1>2, <1>3, <1>5 DEF Owners, Agrees, BitsAgree
  <1>7. PICK w \in WordType : /\ buffer' = [buffer EXCEPT ![x] = w] /\ buffer'[x] = w
                              /\ w.header = buffer[x].header /\ w.used = buffer[x].used
                              /\ w.bits = buffer[x].bits \ {BitOf(t)}
    <2>1. PICK w : w = [buffer[x] EXCEPT !.bits = @ \ {BitOf(t)}]
      OBVIOUS
    <2>2. w \in WordType
      BY <2>1, <1>2 DEF WordType
    <2>3. /\ w.header = buffer[x].header /\ w.used = buffer[x].used
          /\ w.bits = buffer[x].bits \ {BitOf(t)}
      BY <2>1, <1>2 DEF WordType
    <2>4. buffer' = [buffer EXCEPT ![x] = w]
      BY <2>1, <1>2, <1>3 DEF FetchAnd
    <2> QED BY <2>2, <2>3, <2>4, <1>2, <1>l
  <1>8. PICK c \in CallType : /\ call' = [call EXCEPT ![t] = c]
                              /\ c.at = "sub" /\ c.on = x
    <2>1. PICK c \in CallType : c = [call[t] EXCEPT !.at = "sub"]
      BY <1>l DEF CallType
    <2>2. c.at = "sub" /\ c.on = call[t].on
      BY <2>1, <1>l DEF CallType
    <2>3. call' = [call EXCEPT ![t] = c]
      BY <2>1, <1>2, <1>3, <1>6 DEF FetchAnd
    <2> QED BY <2>2, <2>3, <1>2
  <1>9. /\ call' \in [Threads -> CallType] /\ call'[t] = c /\ local' \in [Threads -> LocalType]
        /\ \A u \in Threads \ {t} : local'[u] = local[u] /\ call'[u] = call[u]
    BY <1>l, <1>4, <1>8
  <1>10. Phase(t)' /\ Counted(t)' /\ ~Owns(t)' /\ ~Seeks(t)'
    <2>1. Superblocks' = Superblocks
      BY <1>4 DEF Superblocks
    <2> QED BY <2>1, <1>1, <1>2, <1>4, <1>8, <1>9
            DEF Phase, Freeing, Counted, Owns, Seeks, Lingers
  <1>11. /\ Owners(x)' = Owners(x) \ {t} /\ Claimers(x)' = Claimers(x)
         /\ t \in Sharers(x) /\ t \notin Sharers(x)' /\ Sharers(x) \ {t} = Sharers(x)' \ {t}
         /\ \A u \in Owners(x) \ {t} : BitOf(u)' = BitOf(u)
    <2>1. /\ t \in Owners(x) /\ t \notin Owners(x)' /\ t \in Claimers(x)
          /\ t \in Claimers(x)' /\ t \in Sharers(x) /\ t \notin Sharers(x)'
      BY <1>2, <1>3, <1>4, <1>9, <1>10, Members
    <2>2. /\ Owners(x) \ {t} = Owners(x)' \ {t} /\ Sharers(x) \ {t} = Sharers(x)' \ {t}
          /\ Claimers(x) \ {t} = Claimers(x)' \ {t}
          /\ \A u \in Threads \ {t} : BitOf(u)' = BitOf(u)
      BY <1>9, Members
    <2>3. Owners(x) \subseteq Threads
      BY DEF Owners
    <2> QED BY <2>1, <2>2, <2>3
  <1>12. BitsAgree(x)'
    BY <1>4, <1>5, <1>6, <1>7, <1>11, BitGiven DEF Agrees
  <1>13. CountsAgree(x)'
    <2>1. IsFiniteSet(Sharers(x)) /\ Cardinality(LiveIn(x)) \in Nat
      BY <1>t, Finite
    <2>2. /\ Cardinality(Sharers(x)) \in Nat
          /\ Cardinality(Sharers(x)') = Cardinality(Sharers(x)) - 1
      BY <2>1, <1>11, CountChange
    <2>3. 2^buffer[x].header \in Nat
      <3>1. buffer[x].header \in Nat
        BY <1>2 DEF WordType
      <3> QED BY <3>1, PowerIsSubsets
    <2>4. Cardinality(LiveIn(x)) + Cardinality(Sharers(x)') <= 2^buffer[x].header
      BY <2>1, <2>2, <2>3, <1>5 DEF Agrees, CountsAgree
    <2> QED BY <2>4, <1>5, <1>7, <1>11 DEF Agrees, CountsAgree
  <1> QED BY <1>2, <1>4, <1>7, <1>9, <1>10, <1>12, <1>13, WordStep DEF Agrees

\* release is called for the bit that t holds: the header is as t has read it.
LEMMA StepFree ==
  ASSUME PoolInv, NEW t \in Threads, Free(t)
  PROVE  PoolInv'
  <1>t. Types /\ shape \in Shapes /\ Phase(t)
    BY DEF PoolInv, Types
  <1>l. /\ local \in [Threads -> LocalType] /\ local[t] \in LocalType
        /\ call \in [Threads -> CallType] /\ call[t] \in CallType
        /\ buffer \in [Buffers -> WordType]
    BY <1>t DEF Types
  <1>1. /\ local[t].pc = "free" /\ Freeing(t) /\ call[t].at = "idle"
        /\ local[t].sb \in Superblocks /\ buffer[local[t].sb].header = local[t].state
        /\ local[t].i \in 0 .. 2^local[t].state - 1 /\ local[t].i \in Nat
    <2>1. local[t].pc = "free" /\ Freeing(t)
      BY <1>t, PhaseAt DEF Free
    <2> QED BY <2>1, <1>l DEF Freeing, LocalType
  <1>2. PICK x \in Superblocks : /\ x = local[t].sb /\ x \in Buffers /\ buffer[x] \in WordType
    BY <1>1, <1>l, <1>t, ShapeFacts
  <1>3. /\ local' = [local EXCEPT ![t].pc = "freeing"] /\ buffer' = buffer
        /\ UNCHANGED <<shape, hint, live, alone, aborted>>
    BY DEF Free, Release, poolVars
  <1>4. PICK c \in CallType : /\ call' = [call EXCEPT ![t] = c]
                              /\ c.at = "and" /\ c.on = x /\ c.bit = local[t].i
    <2>1. PICK c : c = [Idle EXCEPT !.at = "and", !.on = x, !.bit = local[t].i]
      OBVIOUS
    <2>2. c = [at |-> "and", on |-> x, bit |-> local[t].i, bound |-> 0, lg2 |-> FALSE]
      BY <2>1 DEF Idle
    <2>3. c \in CallType /\ c.at = "and" /\ c.on = x /\ c.bit = local[t].i
      BY <2>2, <1>1, <1>2 DEF CallType
    <2>4. call' = [call EXCEPT ![t] = c]
      BY <2>1, <1>1, <1>2 DEF Free, Release
    <2> QED BY <2>3, <2>4
  <1>5. PICK v \in LocalType : /\ local' = [local EXCEPT ![t] = v]
                               /\ v.pc = "freeing" /\ v.sb = x /\ v.i = local[t].i
                               /\ v.state = local[t].state
    <2>1. PICK v \in LocalType : v = [local[t] EXCEPT !.pc = "freeing"]
      BY <1>l DEF LocalType
    <2>2. v.pc = "freeing" /\ v.sb = x /\ v.i = local[t].i /\ v.state = local[t].state
      BY <2>1, <1>2, <1>l DEF LocalType
    <2>3. local' = [local EXCEPT ![t] = v]
      BY <2>1, <1>3
    <2> QED BY <2>2, <2>3
  <1>6. /\ call' \in [Threads -> CallType] /\ call'[t] = c
        /\ local' \in [Threads -> LocalType] /\ local'[t] = v
        /\ \A u \in Threads \ {t} : local'[u] = local[u] /\ call'[u] = call[u]
    BY <1>l, <1>4, <1>5
  <1>7. Owns(t) /\ Counted(t) /\ Owns(t)' /\ Counted(t)' /\ BitOf(t)' = BitOf(t)
    BY <1>1, <1>4, <1>5, <1>6 DEF Counted, Owns, BitOf
  <1>8. Phase(t)'
    <2>1. Superblocks' = Superblocks
      BY <1>3 DEF Superblocks
    <2> QED BY <2>1, <1>1, <1>2, <1>3, <1>4, <1>5, <1>6 DEF Phase, Freeing
  <1>9. LiveIn(x)' = LiveIn(x) /\ Agrees(x)
    BY <1>3 DEF LiveIn, SbOf, PoolInv
  <1>10. /\ Owners(x)' = Owners(x) /\ Sharers(x)' = Sharers(x) /\ Claimers(x)' = Claimers(x)
         /\ \A u \in Owners(x) : BitOf(u)' = BitOf(u)
    <2>1. /\ t \in Owners(x) /\ t \in Owners(x)' /\ t \in Claimers(x)
          /\ t \in Claimers(x)' /\ t \in Sharers(x) /\ t \in Sharers(x)'
      BY <1>2, <1>5, <1>6, <1>7, Members
    <2>2. /\ Owners(x) \ {t} = Owners(x)' \ {t} /\ Sharers(x) \ {t} = Sharers(x)' \ {t}
          /\ Claimers(x) \ {t} = Claimers(x)' \ {t}
          /\ \A u \in Threads \ {t} : BitOf(u)' = BitOf(u)
      BY <1>6, Members
    <2>3. Owners(x) \subseteq Threads
      BY DEF Owners
    <2> QED BY <2>1, <2>2, <2>3, <1>7
  <1>11. Agrees(x)'
    BY <1>3, <1>9, <1>10, SameAccount
  <1>12. PICK w \in WordType : w = buffer[x] /\ buffer' = [buffer EXCEPT ![x] = w]
    BY <1>2, <1>3, <1>l
  <1> QED BY <1>2, <1>3, <1>5, <1>6, <1>8, <1>11, <1>12, WordStep

\* The compare-exchange finds a superblock that counts nobody, and gives it
\* blocks of another size.
LEMMA StepAssign ==
  ASSUME PoolInv, NEW t \in Threads, Assign(t), Assigns(local[t])
  PROVE  PoolInv'
  <1>t. Types /\ shape \in Shapes /\ Phase(t)
    BY DEF PoolInv, Types
  <1>l. /\ local \in [Threads -> LocalType] /\ local[t] \in LocalType
        /\ call \in [Threads -> CallType] /\ call[t] \in CallType
        /\ buffer \in [Buffers -> WordType]
    BY <1>t DEF Types
  <1>1. /\ local[t].pc = "assign" /\ Plans(t) /\ Asks(t) /\ ~Counted(t)
        /\ call[t].at = "idle" /\ local[t].sb \in Superblocks
    BY <1>t, PhaseAt DEF Assign, Plans
  <1>2. PICK x \in Superblocks : /\ x = local[t].sb /\ x \in Buffers /\ buffer[x] \in WordType
    BY <1>1, <1>l, <1>t, ShapeFacts
  <1>3. PICK g \in Headers : g = local[t].state /\ g \in Nat
    BY <1>1, <1>t, ShapeFacts DEF Asks
  <1>4. /\ buffer' = [buffer EXCEPT ![x] = [buffer[x] EXCEPT !.header = g]]
        /\ local' = [local EXCEPT ![t] = [local[t] EXCEPT !.pc = "sethint"]]
        /\ UNCHANGED <<call, shape, hint, live, alone, aborted>>
    BY <1>2, <1>3 DEF Assign, poolVars
  <1>5. PICK w \in WordType : /\ w = [buffer[x] EXCEPT !.header = g]
                              /\ w.header = g /\ w.bits = buffer[x].bits /\ w.used = buffer[x].used
    <2>1. PICK w \in WordType : w = [buffer[x] EXCEPT !.header = g]
      BY <1>2, <1>3 DEF WordType
    <2>2. w.header = g /\ w.bits = buffer[x].bits /\ w.used = buffer[x].used
      BY <2>1, <1>2 DEF WordType
    <2> QED BY <2>1, <2>2
  <1>6. /\ buffer' \in [Buffers -> WordType] /\ buffer'[x] = w
        /\ \A s \in Superblocks \ {x} : buffer'[s] = buffer[s]
    <2>1. Superblocks \subseteq Buffers
      BY <1>t, ShapeFacts
    <2> QED BY <2>1, <1>2, <1>4, <1>5, <1>l
  <1>7. PICK v \in LocalType : /\ local' = [local EXCEPT ![t] = v]
                               /\ v.pc = "sethint" /\ v.sb = x /\ v.state = local[t].state
                               /\ v.size = local[t].size /\ v.limit = local[t].limit
    <2>1. PICK v \in LocalType : v = [local[t] EXCEPT !.pc = "sethint"]
      BY <1>l DEF LocalType
    <2>2. /\ v.pc = "sethint" /\ v.sb = x /\ v.state = local[t].state
          /\ v.size = local[t].size /\ v.limit = local[t].limit
      BY <2>1, <1>2, <1>l DEF LocalType
    <2> QED BY <2>1, <2>2, <1>4
  <1>8. /\ call' \in [Threads -> CallType] /\ call'[t].at = "idle"
        /\ local' \in [Threads -> LocalType] /\ local'[t] = v
        /\ \A u \in Threads \ {t} : local'[u] = local[u] /\ call'[u] = call[u]
    BY <1>l, <1>1, <1>4, <1>7
  <1>9. Phase(t)' /\ ~Counted(t)'
    <2>1. v.size \in 1 .. 2^shape.max /\ v.limit >= 1 /\ v.state \in Headers
          /\ v.state <= HeaderFor(v.size)
      BY <1>1, <1>7 DEF Asks, Want
    <2> QED BY <2>1, <1>4, <1>7, <1>8, GoesOn
  <1>10. LiveIn(x) = {} /\ Owners(x) = {} /\ Sharers(x) = {} /\ Claimers(x) = {}
    <2>1. buffer[x].used = 0 /\ Agrees(x)
      BY <1>2 DEF Assigns, PoolInv
    <2>2. /\ IsFiniteSet(LiveIn(x)) /\ IsFiniteSet(Claimers(x))
          /\ Cardinality(LiveIn(x)) \in Nat /\ Cardinality(Claimers(x)) \in Nat
      BY <1>t, Finite
    <2>3. Cardinality(LiveIn(x)) = 0 /\ Cardinality(Claimers(x)) = 0
      BY <2>1, <2>2 DEF Agrees, CountsAgree
    <2>4. LiveIn(x) = {} /\ Claimers(x) = {}
      BY <2>2, <2>3, FS_EmptySet
    <2> QED BY <2>4 DEF Owners, Sharers, Claimers
  <1>11. \A u \in Threads : ~(Counted(u) /\ local[u].sb = x)
    BY <1>10 DEF Claimers, Counted
  <1>12. \A s : LiveIn(s)' = LiveIn(s)
    BY <1>4 DEF LiveIn, SbOf
  <1>13. \A b \in live' : Placed(b)'
    <2> SUFFICES ASSUME NEW b \in live PROVE Placed(b)'
      BY <1>4
    <2>1. Placed(b) /\ SbOf(b) \in Superblocks
      BY DEF PoolInv, Placed
    <2>2. SbOf(b) # x
      BY <1>10 DEF LiveIn
    <2>3. buffer'[SbOf(b)].header = buffer[SbOf(b)].header
      BY <2>1, <2>2, <1>6
    <2> QED BY <2>1, <2>3, <1>4, PlacedKeeps
  <1>14. Agrees(x)'
    <2>1. LiveIn(x)' = {} /\ Owners(x)' = {} /\ Sharers(x)' = {} /\ Claimers(x)' = {}
      <3>1. t \notin Owners(x)' /\ t \notin Sharers(x)' /\ t \notin Claimers(x)'
        BY <1>8, <1>9, Members DEF Counted
      <3>2. /\ Owners(x) \ {t} = Owners(x)' \ {t} /\ Sharers(x) \ {t} = Sharers(x)' \ {t}
            /\ Claimers(x) \ {t} = Claimers(x)' \ {t}
        BY <1>8, Members
      <3> QED BY <3>1, <3>2, <1>10, <1>12
    <2>2. buffer[x].bits = {} /\ buffer[x].used = 0
      BY <1>2, <1>10 DEF PoolInv, Agrees, BitsAgree, Assigns
    <2>3. 2^g \in Nat
      BY <1>3, PowerIsSubsets
    <2>4. Cardinality({}) = 0
      BY FS_EmptySet
    <2> QED BY <2>1, <2>2, <2>3, <2>4, <1>5, <1>6 DEF Agrees, BitsAgree, CountsAgree
  <1>15. aborted' = FALSE /\ alone' \in SUBSET Threads /\ hint' \in [Headers -> Superblocks]
         /\ live' \in SUBSET [at : Nat, bytes : Nat, size : Nat] /\ IsFiniteSet(live')
    BY <1>4, <1>t DEF Types
  <1>16. buffer'[x].header \in Headers
    BY <1>5, <1>6
  <1> QED BY <1>1, <1>4, <1>6, <1>8, <1>9, <1>11, <1>12, <1>13, <1>14, <1>15, <1>16, BusyStep

\* What allocate returns: the block of the bit that t holds.
LEMMA ClaimedBlock ==
  ASSUME PoolInv, NEW t \in Threads, Claimed(t), Result(t) >= 0
  PROVE  LET x == local[t].sb g == local[t].state b == Block(local[t], Result(t)) IN
         /\ local[t].pc = "claiming" /\ Asks(t) /\ call[t].at = "done"
         /\ x \in Superblocks /\ g \in Headers /\ buffer[x].header = g
         /\ Owns(t) /\ t \in Owners(x) /\ BitOf(t) = Result(t) /\ Result(t) \in 0 .. 2^g - 1
         /\ b = [at |-> x * 2^shape.sb + Result(t) * 2^(shape.sb - g),
                 bytes |-> 2^(shape.sb - g), size |-> local[t].size]
         /\ b \in [at : Nat, bytes : Nat, size : Nat] /\ Placed(b)
         /\ SbOf(b) = x /\ Bit(b) = Result(t)
  <1>t. Types /\ shape \in Shapes /\ Phase(t) /\ local[t] \in LocalType /\ call[t] \in CallType
    BY DEF PoolInv, Types
  <1>1. local[t].pc = "claiming" /\ call[t].at = "done" /\ Claiming(t) /\ Asks(t)
    BY <1>t, PhaseAt DEF Claimed, Returns, Claiming
  <1>2. PICK k : k = Result(t)
    OBVIOUS
  <1>3. k = call[t].bit /\ ~(k < 0)
    BY <1>t, <1>2 DEF Result, CallType
  <1>4. PICK x \in Superblocks : x = local[t].sb /\ x \in Nat
    BY <1>1, <1>t, ShapeFacts DEF Claiming
  <1>5. PICK g \in Headers : g = local[t].state /\ g \in Nat
    BY <1>1, <1>t, ShapeFacts DEF Asks
  <1>6. k \in 0 .. 2^g - 1 /\ buffer[x].header = g
    BY <1>1, <1>3, <1>4, <1>5 DEF Claiming
  <1>7. Owns(t) /\ BitOf(t) = k /\ t \in Owners(x)
    BY <1>1, <1>2, <1>3, <1>4 DEF Owns, BitOf, Owners, Result
  <1>8. PICK b : b = Block(local[t], k)
    OBVIOUS
  <1>9. b = [at |-> x * 2^shape.sb + k * 2^(shape.sb - g),
             bytes |-> 2^(shape.sb - g), size |-> local[t].size]
    BY <1>4, <1>5, <1>8 DEF Block
  <1>10. PICK a : a = x * 2^shape.sb + k * 2^(shape.sb - g)
    OBVIOUS
  <1>11. PICK y : y = 2^(shape.sb - g)
    OBVIOUS
  <1>12. /\ a \in Nat /\ y \in Nat \ {0} /\ a \div 2^shape.sb = x
         /\ (a % 2^shape.sb) \div y = k
    BY <1>t, <1>4, <1>6, <1>10, <1>11, BlockPlace
  <1>13. b.at = a /\ b.bytes = y /\ b.size = local[t].size /\ local[t].size \in Nat
    BY <1>9, <1>10, <1>11, <1>t DEF LocalType
  <1>14. b = [at |-> a, bytes |-> y, size |-> local[t].size]
    BY <1>9, <1>10, <1>11
  <1>15. b \in [at : Nat, bytes : Nat, size : Nat]
    BY <1>12, <1>13, <1>14
  <1>16. SbOf(b) = x /\ Bit(b) = k
    BY <1>12, <1>13 DEF SbOf, Bit
  <1>17. Placed(b)
    BY <1>4, <1>6, <1>10, <1>11, <1>13, <1>16 DEF Placed
  <1> QED BY <1>1, <1>2, <1>4, <1>5, <1>6, <1>7, <1>8, <1>9, <1>15, <1>16, <1>17

\* allocate returns a block.
LEMMA StepClaimed ==
  ASSUME PoolInv, NEW t \in Threads, Claimed(t), Result(t) >= 0
  PROVE  PoolInv'
  <1>t. Types /\ shape \in Shapes /\ Phase(t)
    BY DEF PoolInv, Types
  <1>l. /\ local \in [Threads -> LocalType] /\ local[t] \in LocalType
        /\ call \in [Threads -> CallType] /\ call[t] \in CallType
        /\ buffer \in [Buffers -> WordType]
    BY <1>t DEF Types
  <1>1. PICK x \in Superblocks, b \in [at : Nat, bytes : Nat, size : Nat] :
          /\ x = local[t].sb /\ b = Block(local[t], Result(t))
          /\ Owns(t) /\ t \in Owners(x) /\ BitOf(t) = Bit(b)
          /\ Placed(b) /\ SbOf(b) = x /\ buffer[x].header \in Headers
    BY ClaimedBlock
  <1>2. /\ live' = live \cup {b} /\ local' = [local EXCEPT ![t] = Idling]
        /\ alone' = alone \ {t} /\ call' = [call EXCEPT ![t] = Idle]
        /\ UNCHANGED <<buffer, shape, hint, aborted>>
    BY <1>1 DEF Claimed, Consume
  <1>3. Idle \in CallType /\ Idle.at = "idle" /\ Idling \in LocalType
    <2>1. 0 \in Buffers
      BY <1>t, ShapeFacts
    <2> QED BY <2>1, <1>t, IdlingType DEF Idle, CallType
  <1>4. /\ call' \in [Threads -> CallType] /\ call'[t].at = "idle"
        /\ local' \in [Threads -> LocalType] /\ local'[t] = Idling
        /\ \A u \in Threads \ {t} : local'[u] = local[u] /\ call'[u] = call[u]
    BY <1>l, <1>2, <1>3
  <1>5. Phase(t)' /\ ~Counted(t)'
    BY <1>4, GoesHome
  <1>6. LiveIn(x)' = LiveIn(x) \cup {b} /\ \A s \in Superblocks \ {x} : LiveIn(s)' = LiveIn(s)
    <2>1. \A c : SbOf(c)' = SbOf(c)
      BY <1>2 DEF SbOf
    <2> QED BY <2>1, <1>1, <1>2 DEF LiveIn
  <1>7. \A c \in live' : Placed(c)'
    <2> SUFFICES ASSUME NEW c \in live' PROVE Placed(c)'
      OBVIOUS
    <2>1. Placed(c)
      BY <1>1, <1>2 DEF PoolInv
    <2> QED BY <2>1, <1>2, PlacedKeeps
  <1>8. /\ Owners(x)' = Owners(x) \ {t}
        /\ t \in Sharers(x) /\ t \notin Sharers(x)' /\ Sharers(x) \ {t} = Sharers(x)' \ {t}
        /\ t \in Claimers(x) /\ t \notin Claimers(x)' /\ Claimers(x) \ {t} = Claimers(x)' \ {t}
        /\ \A u \in Owners(x) \ {t} : BitOf(u)' = BitOf(u)
    <2>1. /\ t \in Owners(x) /\ t \notin Owners(x)' /\ t \in Claimers(x)
          /\ t \notin Claimers(x)' /\ t \in Sharers(x) /\ t \notin Sharers(x)'
      BY <1>1, <1>4, <1>5, Members DEF Counted
    <2>2. /\ Owners(x) \ {t} = Owners(x)' \ {t} /\ Sharers(x) \ {t} = Sharers(x)' \ {t}
          /\ Claimers(x) \ {t} = Claimers(x)' \ {t}
          /\ \A u \in Threads \ {t} : BitOf(u)' = BitOf(u)
      BY <1>4, Members
    <2>3. Owners(x) \subseteq Threads
      BY DEF Owners
    <2> QED BY <2>1, <2>2, <2>3
  <1>9. Agrees(x) /\ BitsAgree(x)' /\ b \notin LiveIn(x)
    <2>1. Agrees(x)
      BY DEF PoolInv
    <2> QED BY <2>1, <1>1, <1>2, <1>6, <1>8, BitToBlock DEF Agrees
  <1>10. CountsAgree(x)'
    <2>1. PICK a \in Nat : a = Cardinality(LiveIn(x)) /\ Cardinality(LiveIn(x)') = a + 1
      <3>1. IsFiniteSet(LiveIn(x)) /\ Cardinality(LiveIn(x)) \in Nat
        BY <1>t, Finite
      <3>2. Cardinality(LiveIn(x) \cup {b}) = Cardinality(LiveIn(x)) + 1
        BY <3>1, <1>9, FS_AddElement
      <3> QED BY <3>1, <3>2, <1>6
    <2>2. /\ Cardinality(Sharers(x)) \in Nat
          /\ Cardinality(Sharers(x)') = Cardinality(Sharers(x)) - 1
      <3>1. IsFiniteSet(Sharers(x))
        BY <1>t, Finite
      <3> QED BY <3>1, <1>8, CountChange
    <2>3. /\ Cardinality(Claimers(x)) \in Nat
          /\ Cardinality(Claimers(x)') = Cardinality(Claimers(x)) - 1
      <3>1. IsFiniteSet(Claimers(x))
        BY <1>t, Finite
      <3> QED BY <3>1, <1>8, CountChange
    <2>4. /\ buffer[x].used = a + Cardinality(Claimers(x))
          /\ a + Cardinality(Sharers(x)) <= 2^buffer[x].header
      BY <2>1, <1>9 DEF Agrees, CountsAgree
    <2>5. a + Cardinality(Claimers(x)) = Cardinality(LiveIn(x)') + Cardinality(Claimers(x)')
      BY <2>1, <2>3
    <2>6. a + Cardinality(Sharers(x)) = Cardinality(LiveIn(x)') + Cardinality(Sharers(x)')
      BY <2>1, <2>2
    <2> QED BY <2>4, <2>5, <2>6, <1>2 DEF CountsAgree
  <1>11. aborted' = FALSE /\ alone' \in SUBSET Threads /\ hint' \in [Headers -> Superblocks]
         /\ live' \in SUBSET [at : Nat, bytes : Nat, size : Nat] /\ IsFiniteSet(live')
    <2>1. IsFiniteSet(live \cup {b})
      BY <1>t, FS_AddElement DEF Types
    <2> QED BY <2>1, <1>1, <1>2, <1>t DEF Types
  <1>12. buffer' \in [Buffers -> WordType] /\ buffer'[x].header \in Headers
    BY <1>1, <1>2, <1>l
  <1> QED BY <1>1, <1>2, <1>4, <1>5, <1>6, <1>7, <1>9, <1>10, <1>11, <1>12, BusyStep DEF Agrees

\* What deallocate finds: the size and the bit of the block.
LEMMA BlockFound ==
  ASSUME PoolInv, NEW b \in live
  PROVE  LET x == b.at \div 2^shape.sb g == buffer[x].header y == 2^(shape.sb - g) IN
         /\ x \in Superblocks /\ g \in Headers /\ b \in LiveIn(x)
         /\ b.at % y = 0 /\ (b.at % 2^shape.sb) \div y = Bit(b)
         /\ Bit(b) \in 0 .. 2^g - 1 /\ b.bytes = y
         /\ b.at = x * 2^shape.sb + Bit(b) * y
  <1>1. Placed(b) /\ shape \in Shapes /\ Types
    BY DEF PoolInv, Types
  <1>2. PICK x \in Superblocks : x = SbOf(b) /\ x \in Nat
    BY <1>1, ShapeFacts DEF Placed
  <1>3. PICK g \in Headers : g = buffer[x].header
    BY <1>1 DEF Types
  <1>4. PICK k \in 0 .. 2^g - 1 : k = Bit(b)
    BY <1>1, <1>2, <1>3 DEF Placed
  <1>5. b.bytes = 2^(shape.sb - g) /\ b.at = x * 2^shape.sb + k * 2^(shape.sb - g)
    BY <1>1, <1>2, <1>3, <1>4 DEF Placed
  <1>6. b.at % 2^(shape.sb - g) = 0 /\ (b.at % 2^shape.sb) \div 2^(shape.sb - g) = k
    BY <1>1, <1>2, <1>4, <1>5, BlockPlace
  <1>7. x = b.at \div 2^shape.sb /\ b \in LiveIn(x)
    BY <1>2 DEF SbOf, LiveIn
  <1> QED BY <1>3, <1>4, <1>5, <1>6, <1>7, Zenon

\* deallocate takes a block back: its bit is now that of t.
LEMMA StepDeallocate ==
  ASSUME PoolInv, NEW t \in Threads, Deallocate(t)
  PROVE  PoolInv'
  <1>t. Types /\ shape \in Shapes /\ Phase(t)
    BY DEF PoolInv, Types
  <1>l. /\ local \in [Threads -> LocalType] /\ local[t] \in LocalType
        /\ call \in [Threads -> CallType] /\ call[t] \in CallType
        /\ buffer \in [Buffers -> WordType]
    BY <1>t DEF Types
  <1>1. local[t].pc = "idle" /\ call[t].at = "idle" /\ ~Counted(t)
    BY <1>t, PhaseAt DEF Deallocate, Resting
  <1>2. PICK b \in live :
        LET sb    == b.at \div 2^shape.sb
            state == buffer[sb].header
            bytes == 2^(shape.sb - state)
        IN  /\ live' = live \ {b}
            /\ IF b.at % bytes = 0
               THEN /\ local' = [local EXCEPT ![t] =
                           [Idling EXCEPT !.pc = "free", !.sb = sb, !.state = state,
                                          !.i = (b.at % 2^shape.sb) \div bytes]]
                    /\ UNCHANGED aborted
               ELSE aborted' = TRUE /\ UNCHANGED local
    BY DEF Deallocate
  <1>3. PICK x \in Superblocks, g \in Headers :
           /\ x = b.at \div 2^shape.sb /\ g = buffer[x].header /\ b \in LiveIn(x)
           /\ b.at % 2^(shape.sb - g) = 0
           /\ (b.at % 2^shape.sb) \div 2^(shape.sb - g) = Bit(b)
           /\ Bit(b) \in 0 .. 2^g - 1
    BY BlockFound
  <1>4. x \in Nat /\ x \in Buffers /\ g \in Nat
    BY <1>t, ShapeFacts
  <1>5. Bit(b) \in Nat
    BY <1>3
  <1>6. PICK v : v = [Idling EXCEPT !.pc = "free", !.sb = x, !.state = g, !.i = Bit(b)]
    OBVIOUS
  <1>7. /\ live' = live \ {b} /\ local' = [local EXCEPT ![t] = v] /\ aborted' = aborted
        /\ alone' = {} /\ UNCHANGED <<buffer, call, shape, hint>>
    BY <1>2, <1>3, <1>6 DEF Deallocate
  <1>8. v \in LocalType /\ v.pc = "free" /\ v.sb = x /\ v.state = g /\ v.i = Bit(b)
    <2>1. PICK r \in LocalType : r = [Idling EXCEPT !.pc = "free", !.sb = x]
      BY <1>t, IdlingType DEF LocalType
    <2>2. [r EXCEPT !.state = g, !.i = Bit(b)] \in LocalType
      BY <1>4, <1>5 DEF LocalType
    <2>3. v = [r EXCEPT !.state = g, !.i = Bit(b)]
      BY <2>1, <1>6
    <2>4. v.pc = "free" /\ v.sb = x /\ v.state = g /\ v.i = Bit(b)
      BY <1>6 DEF Idling
    <2> QED BY <2>2, <2>3, <2>4
  <1>9. /\ call' \in [Threads -> CallType] /\ call'[t].at = "idle"
        /\ local' \in [Threads -> LocalType] /\ local'[t] = v
        /\ \A u \in Threads \ {t} : local'[u] = local[u] /\ call'[u] = call[u]
    BY <1>l, <1>1, <1>7, <1>8
  <1>10. Owns(t)' /\ Counted(t)' /\ BitOf(t)' = Bit(b) /\ Phase(t)'
    <2>1. Superblocks' = Superblocks
      BY <1>7 DEF Superblocks
    <2>2. Owns(t)' /\ BitOf(t)' = Bit(b)
      BY <1>8, <1>9 DEF Owns, BitOf
    <2>3. Freeing(t)'
      BY <2>1, <1>3, <1>7, <1>8, <1>9 DEF Freeing
    <2> QED BY <2>2, <2>3 DEF Phase, Counted
  <1>11. LiveIn(x)' = LiveIn(x) \ {b} /\ \A s \in Superblocks \ {x} : LiveIn(s)' = LiveIn(s)
    <2>1. \A c : SbOf(c)' = SbOf(c)
      BY <1>7 DEF SbOf
    <2>2. SbOf(b) = x
      BY <1>3 DEF SbOf
    <2> QED BY <2>1, <2>2, <1>7 DEF LiveIn
  <1>12. \A c \in live' : Placed(c)'
    <2> SUFFICES ASSUME NEW c \in live' PROVE Placed(c)'
      OBVIOUS
    <2>1. Placed(c)
      BY <1>7 DEF PoolInv
    <2> QED BY <2>1, <1>7, PlacedKeeps
  <1>13. /\ Owners(x)' = Owners(x) \cup {t} /\ t \notin Owners(x)
         /\ t \notin Sharers(x) /\ t \in Sharers(x)' /\ Sharers(x) \ {t} = Sharers(x)' \ {t}
         /\ t \notin Claimers(x) /\ t \in Claimers(x)' /\ Claimers(x) \ {t} = Claimers(x)' \ {t}
         /\ \A u \in Owners(x) : BitOf(u)' = BitOf(u)
    <2>1. /\ t \notin Owners(x) /\ t \in Owners(x)' /\ t \notin Claimers(x)
          /\ t \in Claimers(x)' /\ t \notin Sharers(x) /\ t \in Sharers(x)'
      BY <1>1, <1>8, <1>9, <1>10, Members DEF Counted
    <2>2. /\ Owners(x) \ {t} = Owners(x)' \ {t} /\ Sharers(x) \ {t} = Sharers(x)' \ {t}
          /\ Claimers(x) \ {t} = Claimers(x)' \ {t}
          /\ \A u \in Threads \ {t} : BitOf(u)' = BitOf(u)
      BY <1>9, Members
    <2>3. Owners(x) \subseteq Threads
      BY DEF Owners
    <2> QED BY <2>1, <2>2, <2>3
  <1>14. Agrees(x) /\ BitsAgree(x)'
    <2>1. Agrees(x)
      BY DEF PoolInv
    <2> QED BY <2>1, <1>3, <1>7, <1>10, <1>11, <1>13, BlockToBit DEF Agrees
  <1>15. CountsAgree(x)'
    <2>1. /\ Cardinality(LiveIn(x)) \in Nat
          /\ Cardinality(LiveIn(x)') = Cardinality(LiveIn(x)) - 1
      <3>1. IsFiniteSet(LiveIn(x))
        BY <1>t, Finite
      <3> QED BY <3>1, <1>3, <1>11, FS_RemoveElement, FS_CardinalityType
    <2>2. /\ Cardinality(Sharers(x)) \in Nat
          /\ Cardinality(Sharers(x)') = Cardinality(Sharers(x)) + 1
      <3>1. IsFiniteSet(Sharers(x))
        BY <1>t, Finite
      <3> QED BY <3>1, <1>13, CountChange
    <2>3. /\ Cardinality(Claimers(x)) \in Nat
          /\ Cardinality(Claimers(x)') = Cardinality(Claimers(x)) + 1
      <3>1. IsFiniteSet(Claimers(x))
        BY <1>t, Finite
      <3> QED BY <3>1, <1>13, CountChange
    <2>4. /\ buffer[x].used = Cardinality(LiveIn(x)) + Cardinality(Claimers(x))
          /\ Cardinality(LiveIn(x)) + Cardinality(Sharers(x)) <= 2^buffer[x].header
      BY <1>14 DEF Agrees, CountsAgree
    <2>5. Cardinality(LiveIn(x)) + Cardinality(Claimers(x))
            = Cardinality(LiveIn(x)') + Cardinality(Claimers(x)')
      BY <2>1, <2>3
    <2>6. Cardinality(LiveIn(x)) + Cardinality(Sharers(x))
            = Cardinality(LiveIn(x)') + Cardinality(Sharers(x)')
      BY <2>1, <2>2
    <2> QED BY <2>4, <2>5, <2>6, <1>7 DEF CountsAgree
  <1>16. aborted' = FALSE /\ alone' \in SUBSET Threads /\ hint' \in [Headers -> Superblocks]
         /\ live' \in SUBSET [at : Nat, bytes : Nat, size : Nat] /\ IsFiniteSet(live')
    <2>1. live \ {b} \in SUBSET live /\ IsFiniteSet(live)
      BY <1>t DEF Types
    <2>2. IsFiniteSet(live \ {b})
      BY <2>1, FS_Subset
    <2> QED BY <2>2, <1>7, <1>t DEF Types
  <1>17. buffer' \in [Buffers -> WordType] /\ buffer'[x].header \in Headers
    BY <1>3, <1>7, <1>l
  <1> QED BY <1>1, <1>7, <1>8, <1>9, <1>10, <1>11, <1>12, <1>14, <1>15, <1>16, <1>17, BusyStep
          DEF Agrees

-----------------------------------------------------------------------------
\* Every step keeps the invariant.
LEMMA StepPool == PoolInv /\ [Next]_vars => PoolInv'
  <1> SUFFICES ASSUME PoolInv, [Next]_vars PROVE PoolInv'
    OBVIOUS
  <1>1. ASSUME NEW t \in Threads, Progress(t) PROVE PoolInv'
    <2>1. \/ BitsetStep(t) /\ UNCHANGED <<local, poolVars>>
          \/ ReadHint(t) \/ CheckState(t) \/ Claim(t) \/ Claimed(t) \/ Search(t)
          \/ ReadEmpty(t) \/ Assign(t) \/ SetHint(t) \/ Free(t) \/ Freed(t)
      BY <1>1 DEF Progress
    <2>2. CASE BitsetStep(t) /\ UNCHANGED <<local, poolVars>>
      BY <2>2, StepCountsDown, StepFetchOr, StepFetchAnd DEF BitsetStep
    <2>3. CASE Claimed(t)
      <3>1. Result(t) \in Int
        BY DEF PoolInv, Types, CallType, Result
      <3>2. Result(t) < 0 \/ Result(t) >= 0
        BY <3>1
      <3> QED BY <2>3, <3>2, StepReturns, StepClaimed
    <2>4. CASE Assign(t)
      BY <2>4, StepReturns, StepAssign
    <2> QED BY <2>1, <2>2, <2>3, <2>4, StepPlans, StepSearch, StepReturns, StepClaim, StepFree
  <1>2. ASSUME NEW t \in Threads, Use(t) PROVE PoolInv'
    BY <1>2, StepPlans, StepDeallocate DEF Use
  <1>3. CASE UNCHANGED vars
    <2>1. /\ shape' = shape /\ buffer' = buffer /\ call' = call /\ hint' = hint
          /\ local' = local /\ live' = live /\ alone' = alone /\ aborted' = aborted
      BY <1>3 DEF vars
    <2>2. Headers' = Headers /\ Superblocks' = Superblocks /\ LocalType' = LocalType
      BY <2>1 DEF Headers, Superblocks, LocalType
    <2>3. Types'
      BY <2>1, <2>2 DEF PoolInv, Types
    <2>4. \A t \in Threads : Phase(t)'
      BY <2>1, OthersKeep DEF PoolInv
    <2>5. \A b \in live' : Placed(b)'
      BY <2>1, PlacedKeeps DEF PoolInv
    <2>6. ASSUME NEW s \in Superblocks PROVE Agrees(s)'
      <3>1. /\ LiveIn(s)' = LiveIn(s) /\ Owners(s)' = Owners(s) /\ Sharers(s)' = Sharers(s)
            /\ Claimers(s)' = Claimers(s) /\ \A t : BitOf(t)' = BitOf(t)
        BY <2>1 DEF LiveIn, SbOf, Owners, Sharers, Claimers, Owns, Seeks, Lingers, BitOf
      <3> QED BY <2>1, <3>1, SameAccount DEF PoolInv
    <2> QED BY <2>2, <2>3, <2>4, <2>5, <2>6 DEF PoolInv
  <1> QED BY <1>1, <1>2, <1>3 DEF Next

LEMMA PoolInvariant == Spec => []PoolInv
  BY InitPool, StepPool, PTL DEF Spec

\* The words of the pool, the hints and the locals of allocate and deallocate
\* keep their types: the header of every superblock stays one of the pool's
\* sizes, and the count of claims, which threads decrement without a check
\* (Kokkos_ConcurrentBitset.hpp), never falls below zero.
THEOREM PoolTypes == Spec => []TypeOK
  <1>1. PoolInv => TypeOK
    <2> SUFFICES ASSUME PoolInv PROVE TypeOK
      OBVIOUS
    <2>1. Types
      BY DEF PoolInv
    <2>2. BitsetTypeOK
      BY <2>1 DEF Types, WordType, CallType, BitsetTypeOK
    <2>3. \A t \in Threads :
            /\ local[t].pc \in {"idle", "hint", "check", "claim", "claiming", "search",
                                "readempty", "assign", "sethint", "free", "freeing"}
            /\ local[t].sb \in Superblocks \cup {-1}
            /\ local[t].limit \in 0 .. shape.limit
      BY <2>1 DEF Types, LocalType
    <2> QED BY <2>1, <2>2, <2>3 DEF Types, TypeOK
  <1> QED BY <1>1, PoolInvariant, PTL

\* deallocate never aborts on a block that allocate returned, whoever gives it
\* back and whatever the other threads do meanwhile: the assignment of a
\* superblock cannot change while one of its blocks is in use, so the size that
\* deallocate reads is the size that the block was allocated with.
THEOREM PoolTakesBackItsBlocks == Spec => []TakesBackItsBlocks
  <1>1. PoolInv => TakesBackItsBlocks
    BY DEF PoolInv, Types, TakesBackItsBlocks
  <1> QED BY <1>1, PoolInvariant, PTL

\* A step changes the locals of one thread.
LEMMA OneMoves ==
  ASSUME local \in [Threads -> LocalType], NEW u \in Threads, Progress(u) \/ Use(u),
         NEW t \in Threads, t # u
  PROVE  local'[t] = local[t]
  <1>1. \A v : [local EXCEPT ![u] = v][t] = local[t]
    OBVIOUS
  <1>2. Allocate(u) => local'[t] = local[t]
    BY <1>1, Zenon DEF Allocate
  <1>3. Deallocate(u) => local'[t] = local[t]
    BY <1>1, Zenon DEF Deallocate
  <1>4. ReadHint(u) \/ CheckState(u) \/ Claim(u) => local'[t] = local[t]
    BY <1>1, Zenon DEF ReadHint, CheckState, Claim
  <1>5. Claimed(u) \/ Search(u) \/ ReadEmpty(u) => local'[t] = local[t]
    BY <1>1, Zenon DEF Claimed, Search, ReadEmpty
  <1>6. Assign(u) \/ SetHint(u) \/ Free(u) \/ Freed(u) => local'[t] = local[t]
    BY <1>1, Zenon DEF Assign, SetHint, Free, Freed
  <1> QED BY <1>2, <1>3, <1>4, <1>5, <1>6, Zenon DEF Use, Progress

\* The step of allocate that returns a block.
LEMMA OnlyClaimedReturns ==
  ASSUME PoolInv, [Next]_vars, NEW t \in Threads,
         local[t].pc = "claiming", local'[t].pc = "idle"
  PROVE  Claimed(t) /\ Result(t) >= 0
  <1>l. local \in [Threads -> LocalType] /\ local[t] \in LocalType
    BY DEF PoolInv, Types
  <1>1. PICK u \in Threads : Progress(u) \/ Use(u)
    BY DEF Next, vars
  <1>2. u = t
    <2> SUFFICES ASSUME u # t PROVE local'[t] = local[t]
      OBVIOUS
    <2> QED BY <1>1, <1>l, OneMoves
  <1>3. Claimed(t)
    BY <1>1, <1>2, Zenon DEF Use, Allocate, Deallocate, Progress, ReadHint, CheckState, Claim,
                      Search, ReadEmpty, Assign, SetHint, Free, Freed
  <1>4. ~(Result(t) < 0)
    <2> SUFFICES ASSUME Result(t) < 0 PROVE FALSE
      OBVIOUS
    <2>1. Result(t) \in Int /\ ~(Result(t) >= 0)
      BY DEF PoolInv, Types, CallType, Result
    <2>2. local'[t] = ToSearch(local[t], Want(t))
      BY <1>3, <1>l, <2>1 DEF Claimed
    <2>3. Asks(t) /\ shape \in Shapes
      BY PhaseAt DEF PoolInv, Types, Claiming
    <2>4. Want(t) \in Headers
      BY <2>3, HeaderFits DEF Asks, Want
    <2> QED BY <2>2, <2>3, <2>4, <1>l, ToSearchType
  <1>5. Result(t) \in Int
    BY DEF PoolInv, Types, CallType, Result
  <1> QED BY <1>3, <1>4, <1>5

\* Products keep the order of their factors.
LEMMA TimesGrows ==
  ASSUME NEW a \in Nat, NEW b \in Nat, NEW m \in Nat, a < b
  PROVE  a * m \in Nat /\ b * m \in Nat /\ a * m + m <= b * m
  <1>1. PICK d \in Nat : b = a + 1 + d
    <2>1. b - a - 1 \in Nat /\ b = a + 1 + (b - a - 1)
      OBVIOUS
    <2> QED BY <2>1
  <1>2. b * m = a * m + m + d * m /\ d * m \in Nat /\ a * m \in Nat
    BY <1>1
  <1> QED BY <1>2

\* The block that allocate returns is large enough, lies in the pool and
\* overlaps no live block.
LEMMA ReturnsFreshBlock ==
  ASSUME PoolInv, NEW t \in Threads, Claimed(t), Result(t) >= 0
  PROVE  LET b == Block(local[t], Result(t)) IN
         /\ b.size <= b.bytes
         /\ b.at + b.bytes <= shape.sbs * 2^shape.sb
         /\ \A c \in live : b.at + b.bytes <= c.at \/ c.at + c.bytes <= b.at
  <1>t. shape \in Shapes /\ shape.sbs \in Nat /\ shape.sb \in Nat
    <2>1. shape \in Shapes
      BY DEF PoolInv, Types
    <2> QED BY <2>1, ShapeFacts
  <1>1. PICK b : b = Block(local[t], Result(t))
    OBVIOUS
  <1>2. PICK x \in Superblocks, g \in Headers, k \in Int :
          /\ x = local[t].sb /\ g = local[t].state /\ g = buffer[x].header /\ k = Result(t)
          /\ Asks(t) /\ t \in Owners(x) /\ BitOf(t) = k /\ k \in 0 .. 2^g - 1
          /\ b = [at |-> x * 2^shape.sb + k * 2^(shape.sb - g),
                  bytes |-> 2^(shape.sb - g), size |-> local[t].size]
    <2>1. PICK x \in Superblocks, g \in Headers :
            /\ x = local[t].sb /\ g = local[t].state /\ g = buffer[x].header
            /\ Asks(t) /\ t \in Owners(x) /\ BitOf(t) = Result(t) /\ Result(t) \in 0 .. 2^g - 1
            /\ b = [at |-> x * 2^shape.sb + Result(t) * 2^(shape.sb - g),
                    bytes |-> 2^(shape.sb - g), size |-> local[t].size]
      BY <1>1, ClaimedBlock
    <2>2. PICK k \in Int : k = Result(t)
      BY <2>1
    <2> QED BY <2>1, <2>2
  <1>3. x \in Nat /\ x < shape.sbs /\ g \in Nat /\ g <= shape.sb
    <2>1. x \in Nat /\ g \in Nat /\ g <= shape.sb
      BY <1>t, ShapeFacts
    <2> QED BY <2>1, <1>t DEF Superblocks
  <1>4. PICK S \in Nat \ {0} : S = 2^shape.sb
    BY <1>t, PowerIsSubsets
  <1>5. PICK y : y = 2^(shape.sb - g)
    OBVIOUS
  <1>6. PICK a : a = x * 2^shape.sb + k * 2^(shape.sb - g)
    OBVIOUS
  <1>7. a \in Nat /\ y \in Nat \ {0} /\ a + y <= x * S + S /\ x * S <= a
    <2>1. /\ a \in Nat /\ 2^(shape.sb - g) \in Nat \ {0}
          /\ a + 2^(shape.sb - g) <= x * 2^shape.sb + 2^shape.sb /\ x * 2^shape.sb <= a
      <3>1. k \in 0 .. 2^g - 1
        BY <1>2
      <3> QED BY <3>1, <1>t, <1>3, <1>6, BlockPlace
    <2> QED BY <2>1, <1>4, <1>5
  <1>8. b.at = a /\ b.bytes = y /\ b.size = local[t].size
    BY <1>2, <1>5, <1>6
  <1>9. b.size <= b.bytes
    <2>1. PICK n \in 1 .. 2^shape.max : n = local[t].size
      BY <1>2 DEF Asks
    <2>2. PICK w \in Headers : w = HeaderFor(n) /\ n <= 2^(shape.sb - w)
      BY <1>t, HeaderFits
    <2>3. w \in Nat /\ w <= shape.sb /\ g <= w
      BY <1>t, <1>2, <2>1, <2>2, ShapeFacts DEF Asks, Want
    <2>4. shape.sb - w \in Nat /\ shape.sb - g \in Nat /\ shape.sb - w <= shape.sb - g
      BY <2>3, <1>3, <1>t
    <2>5. 2^(shape.sb - w) <= 2^(shape.sb - g) /\ 2^(shape.sb - w) \in Nat
      BY <2>4, PowerSplit
    <2>6. n \in Nat
      OBVIOUS
    <2> QED BY <2>1, <2>2, <2>5, <2>6, <1>5, <1>7, <1>8
  <1>10. b.at + b.bytes <= shape.sbs * 2^shape.sb
    <2>1. x * S + S <= shape.sbs * S /\ x * S \in Nat /\ shape.sbs * S \in Nat
      BY <1>3, <1>t, TimesGrows
    <2> QED BY <2>1, <1>4, <1>7, <1>8
  <1>11. ASSUME NEW c \in live
         PROVE  b.at + b.bytes <= c.at \/ c.at + c.bytes <= b.at
    <2>1. PICK z \in Superblocks, q \in Headers, j \in Int :
            /\ q = buffer[z].header /\ c \in LiveIn(z) /\ j = Bit(c)
            /\ j \in 0 .. 2^q - 1 /\ c.bytes = 2^(shape.sb - q)
            /\ c.at = z * 2^shape.sb + j * 2^(shape.sb - q)
      BY BlockFound
    <2>2. z \in Nat
      BY <1>t, ShapeFacts
    <2>3. c.at \in Nat /\ c.bytes \in Nat /\ c.at + c.bytes <= z * S + S /\ z * S <= c.at
      BY <1>t, <1>4, <2>1, <2>2, BlockPlace
    <2>4. CASE x < z
      <3>1. x * S + S <= z * S /\ x * S \in Nat /\ z * S \in Nat
        BY <2>2, <2>4, <1>3, TimesGrows
      <3> QED BY <3>1, <2>3, <1>7, <1>8
    <2>5. CASE z < x
      <3>1. z * S + S <= x * S /\ x * S \in Nat /\ z * S \in Nat
        BY <2>2, <2>5, <1>3, TimesGrows
      <3> QED BY <3>1, <2>3, <1>7, <1>8
    <2>6. CASE x = z
      <3>1. q = g /\ c \in LiveIn(x) /\ c.bytes = y /\ c.at = x * S + j * y
        BY <2>1, <2>6, <1>2, <1>4, <1>5
      <3>2. a = x * S + k * y /\ x * S \in Nat
        BY <1>3, <1>4, <1>5, <1>6
      <3>3. j # k
        BY <2>1, <3>1, <1>2 DEF PoolInv, Agrees, BitsAgree
      <3>4. j \in Nat /\ k \in Nat
        BY <2>1, <1>2
      <3>5. CASE j < k
        <4>1. j * y + y <= k * y /\ j * y \in Nat /\ k * y \in Nat
          BY <3>4, <3>5, <1>7, TimesGrows
        <4> QED BY <4>1, <3>1, <3>2, <1>7, <1>8
      <3>6. CASE k < j
        <4>1. k * y + y <= j * y /\ j * y \in Nat /\ k * y \in Nat
          BY <3>4, <3>6, <1>7, TimesGrows
        <4> QED BY <4>1, <3>1, <3>2, <1>7, <1>8
      <3> QED BY <3>3, <3>4, <3>5, <3>6
    <2> QED BY <2>2, <2>4, <2>5, <2>6, <1>3
  <1> QED BY <1>1, <1>9, <1>10, <1>11

\* Whatever sizes a superblock had before and whoever else allocates and
\* deallocates, the block that allocate returns is as large as was asked for,
\* lies in the pool and overlaps no block that is allocated.
THEOREM PoolBlocksDisjoint == Spec => BlocksDisjoint
  <1>1. PoolInv /\ [Next]_vars =>
          [\A t \in Threads : local[t].pc = "claiming" /\ local'[t].pc = "idle" =>
              LET b == Block(local[t], Result(t)) IN
              /\ b.size <= b.bytes
              /\ b.at + b.bytes <= shape.sbs * 2^shape.sb
              /\ \A c \in live : b.at + b.bytes <= c.at \/ c.at + c.bytes <= b.at]_vars
    BY OnlyClaimedReturns, ReturnsFreshBlock
  <1> QED BY <1>1, PoolInvariant, PTL DEF Spec, BlocksDisjoint

-----------------------------------------------------------------------------
\* While t is alone nobody else is in the pool, and the superblocks that its
\* search has passed by without a note cannot be used.
OthersIdle(t) == \A u \in Threads \ {t} : local[u].pc = "idle"
Passed(t) ==
    local[t].pc = "search" /\ local[t].empty = -1 /\ local[t].large = -1 =>
        \A j \in 0 .. local[t].i - 1 : ~Usable((Begin(Want(t)) + j) % shape.sbs, Want(t))
AloneInv == \A t \in alone : OthersIdle(t) /\ Passed(t)

\* A superblock of which the search makes no note cannot be used.
LEMMA NoNote ==
  ASSUME Types, NEW l \in LocalType, NEW h \in Headers, NEW id \in Superblocks,
         l.large \in Superblocks \cup {-1}, NEW m, m = Seen(l, h, id, buffer[id]),
         ~(m.sb >= 0), ~(m.empty >= 0), ~(m.large >= 0)
  PROVE  ~Usable(id, h) /\ l.empty = -1 /\ l.large = -1
  <1>1. h \in Nat /\ id \in Nat /\ buffer[id].header \in Nat /\ buffer[id].used \in Nat
    <2>1. shape \in Shapes /\ id \in Buffers /\ h \in Nat /\ id \in Nat
      BY ShapeFacts DEF Types
    <2> QED BY <2>1 DEF Types, WordType
  <1>2. 2^h \in Nat \ {0}
    BY <1>1, PowerIsSubsets
  <1>3. (m = l => l.empty = -1 /\ l.large = -1) /\ (~(l.empty >= 0) => l.empty = -1)
    <2>1. l.empty \in Superblocks \cup {-1} /\ shape \in Shapes
      BY DEF LocalType, Types
    <2>2. Superblocks \subseteq Nat
      BY <2>1, ShapeFacts
    <2>3. \A k \in Superblocks \cup {-1} : k >= 0 \/ k = -1
      BY <2>2
    <2> QED BY <2>1, <2>3
  <1>4. CASE buffer[id].header = h
    <2>1. ~HasRoom(h, buffer[id])
      <3> SUFFICES ASSUME HasRoom(h, buffer[id]) PROVE FALSE
        OBVIOUS
      <3>1. m = [l EXCEPT !.sb = id, !.update = buffer[id].used + 1 < 2^h]
        BY <1>4 DEF Seen
      <3>2. m.sb = id
        BY <3>1 DEF LocalType
      <3> QED BY <3>2, <1>1
    <2>2. m = l
      BY <2>1, <1>4 DEF Seen
    <2>3. ~Usable(id, h)
      BY <2>1, <1>1, <1>2, <1>4 DEF Usable, HasRoom
    <2> QED BY <2>2, <2>3, <1>3
  <1>5. CASE buffer[id].header # h
    <2>1. l.empty = -1 \/ m = l
      BY <1>5 DEF Seen, IsLarge
    <2>2. l.empty = -1
      BY <2>1, <1>3
    <2>3. buffer[id].used # 0
      <3> SUFFICES ASSUME buffer[id].used = 0 PROVE FALSE
        OBVIOUS
      <3>1. m = [l EXCEPT !.empty = id]
        BY <2>2, <1>5 DEF Seen
      <3>2. m.empty = id
        BY <3>1 DEF LocalType
      <3> QED BY <3>2, <1>1
    <2>4. ~IsLarge(l, h, buffer[id])
      <3> SUFFICES ASSUME IsLarge(l, h, buffer[id]) PROVE FALSE
        OBVIOUS
      <3>1. m = [l EXCEPT !.large = id, !.state = buffer[id].header]
        BY <2>3, <1>5 DEF Seen
      <3>2. m.large = id
        BY <3>1 DEF LocalType
      <3> QED BY <3>2, <1>1
    <2>5. m = l
      BY <2>3, <2>4, <1>5 DEF Seen
    <2>6. l.large = -1
      BY <2>5, <1>3
    <2>7. ~(buffer[id].header < h /\ buffer[id].used < 2^buffer[id].header)
      BY <2>2, <2>4, <2>6 DEF IsLarge
    <2>8. ~Usable(id, h)
      BY <2>3, <2>7, <1>1, <1>5 DEF Usable
    <2> QED BY <2>2, <2>6, <2>8
  <1> QED BY <1>4, <1>5

\* The search goes around all superblocks.
LEMMA GoesAround ==
  ASSUME NEW n \in Nat \ {0}, NEW b \in 0 .. n - 1, NEW s \in 0 .. n - 1
  PROVE  \E j \in 0 .. n - 1 : (b + j) % n = s
  <1>1. CASE b <= s
    <2>1. s - b \in 0 .. n - 1 /\ b + (s - b) = 0 * n + s
      BY <1>1
    <2>2. s \in Nat /\ s < n
      OBVIOUS
    <2>3. (0 * n + s) % n = s
      BY <2>2, DivOfSum
    <2> QED BY <2>1, <2>3
  <1>2. CASE s < b
    <2>1. s + n - b \in 0 .. n - 1 /\ b + (s + n - b) = 1 * n + s
      BY <1>2
    <2>2. s \in Nat /\ s < n /\ 1 \in Nat
      OBVIOUS
    <2>3. (1 * n + s) % n = s
      BY <2>2, DivOfSum
    <2> QED BY <2>1, <2>3
  <1> QED BY <1>1, <1>2

\* The search counts the superblocks it has seen.
LEMMA Bumped ==
  ASSUME NEW m \in LocalType, NEW l, l = [m EXCEPT !.i = @ + 1]
  PROVE  l.sb = m.sb /\ l.empty = m.empty /\ l.large = m.large
  BY DEF LocalType

\* One superblock of a search that makes no note.
LEMMA PassedOneMore ==
  ASSUME PoolInv, NEW t \in Threads, Search(t), Passed(t),
         NEW h, h = Want(t), NEW id, id = (Begin(h) + local[t].i) % shape.sbs,
         NEW l, l = [Seen(local[t], h, id, buffer[id]) EXCEPT !.i = @ + 1],
         ~(l.sb >= 0), ~(l.empty >= 0), ~(l.large >= 0)
  PROVE  \A j \in 0 .. l.i - 1 : ~Usable((Begin(h) + j) % shape.sbs, h)
  <1>1. /\ Types /\ shape \in Shapes /\ Phase(t) /\ local[t] \in LocalType
        /\ local[t].i \in Nat
    BY DEF PoolInv, Types, LocalType
  <1>2. Searches(t) /\ Asks(t) /\ local[t].pc = "search"
    <2>1. local[t].pc = "search"
      BY Zenon DEF Search
    <2>2. Searches(t)
      BY <2>1, <1>1, PhaseAt, Zenon
    <2> QED BY <2>1, <2>2, Zenon DEF Searches
  <1>3. h \in Headers /\ id \in Superblocks /\ l.i = local[t].i + 1
    BY SearchFacts
  <1>4. PICK m : m = Seen(local[t], h, id, buffer[id])
    OBVIOUS
  <1>5. m \in LocalType
    <2>1. /\ buffer[id].header \in Headers /\ local[t].state \in Headers
          /\ local[t].state <= h /\ local[t].large \in Superblocks \cup {-1}
      BY <1>1, <1>2, <1>3 DEF Types, Searches, Asks
    <2> QED BY <2>1, <1>1, <1>2, <1>3, <1>4, SeenType
  <1>6. l.sb = m.sb /\ l.empty = m.empty /\ l.large = m.large
    <2>1. l = [m EXCEPT !.i = @ + 1]
      BY <1>4, Zenon
    <2> QED BY <2>1, <1>5, Bumped
  <1>7. ~Usable(id, h) /\ local[t].empty = -1 /\ local[t].large = -1
    <2>1. local[t].large \in Superblocks \cup {-1}
      BY <1>2 DEF Searches
    <2> QED BY <2>1, <1>1, <1>3, <1>4, <1>6, NoNote
  <1>8. \A j \in 0 .. local[t].i - 1 : ~Usable((Begin(h) + j) % shape.sbs, h)
    BY <1>2, <1>7 DEF Passed
  <1>9. \A j \in 0 .. l.i - 1 : j \in 0 .. local[t].i - 1 \/ j = local[t].i
    BY <1>1, <1>3
  <1> QED BY <1>7, <1>8, <1>9

\* A step inside a call, while t is alone, is a step of t.
LEMMA AloneSteps ==
  ASSUME PoolInv, NEW t \in Threads, OthersIdle(t), NEW u \in Threads, Progress(u)
  PROVE  u = t
  <1> SUFFICES ASSUME u # t PROVE FALSE
    OBVIOUS
  <1>1. local[u].pc = "idle"
    BY DEF OthersIdle
  <1>2. call[u].at = "idle"
    BY <1>1, PhaseAt DEF PoolInv, Resting
  <1> QED BY <1>1, <1>2 DEF Progress, BitsetStep, Undo, FetchOr, FetchAnd, CountDown, ReadHint,
             CheckState, Claim, Claimed, Search, ReadEmpty, Assign, SetHint, Free, Freed

LEMMA StepAlone == PoolInv /\ AloneInv /\ [Next]_vars => AloneInv'
  <1> SUFFICES ASSUME PoolInv, AloneInv, [Next]_vars, NEW t \in alone'
               PROVE  OthersIdle(t)' /\ Passed(t)'
    BY DEF AloneInv
  <1>t. Types /\ shape \in Shapes /\ alone \in SUBSET Threads /\ local \in [Threads -> LocalType]
    BY DEF PoolInv, Types
  <1>1. CASE UNCHANGED vars
    <2>1. /\ shape' = shape /\ buffer' = buffer /\ local' = local /\ alone' = alone
      BY <1>1 DEF vars
    <2>2. OthersIdle(t) /\ Passed(t)
      BY <2>1 DEF AloneInv
    <2>3. Want(t)' = Want(t) /\ Begin(Want(t))' = Begin(Want(t))
      BY <2>1 DEF Want, HeaderFor, Begin, SizeIndex, Sizes
    <2>4. \A s, h : Usable(s, h)' <=> Usable(s, h)
      BY <2>1 DEF Usable
    <2> QED BY <2>1, <2>2, <2>3, <2>4 DEF OthersIdle, Passed
  <1>2. ASSUME NEW u \in Threads, Use(u) PROVE OthersIdle(t)' /\ Passed(t)'
    <2>1. Allocate(u) /\ t = u /\ Busy \subseteq {t}
      BY <1>2, Zenon DEF Use, Allocate, Deallocate, Company
    <2>2. PICK v : local' = [local EXCEPT ![t] = v] /\ v.pc = "hint"
      <3>1. \A n : [Idling EXCEPT !.pc = "hint", !.size = n, !.limit = shape.limit,
                                  !.state = HeaderFor(n)].pc = "hint"
        BY DEF Idling
      <3> QED BY <2>1, <3>1 DEF Allocate
    <2>3. local'[t].pc = "hint" /\ \A w \in Threads \ {t} : local'[w] = local[w]
      BY <2>1, <2>2, <1>2, <1>t
    <2>4. \A w \in Threads \ {t} : local[w].pc = "idle"
      BY <2>1 DEF Busy
    <2> QED BY <2>3, <2>4 DEF OthersIdle, Passed
  <1>3. ASSUME NEW u \in Threads, Progress(u) PROVE OthersIdle(t)' /\ Passed(t)'
    <2>1. t \in alone /\ t \in Threads /\ shape' = shape
      BY <1>3, <1>t, Zenon DEF Progress, ReadHint, CheckState, Claim, Claimed, Search, ReadEmpty,
                        Assign, SetHint, Free, Freed, poolVars
    <2>2. OthersIdle(t) /\ Passed(t) /\ u = t
      BY <2>1, <1>3, AloneSteps DEF AloneInv
    <2>3. Progress(t) /\ Phase(t) /\ local[t] \in LocalType
      BY <2>1, <2>2, <1>3, <1>t DEF PoolInv
    <2>4. \A w \in Threads \ {t} : local'[w] = local[w]
      BY <2>1, <2>3, <1>t, OneMoves
    <2>5. OthersIdle(t)'
      BY <2>2, <2>4 DEF OthersIdle
    <2>6. CASE local'[t] = ToSearch(local[t], Want(t)) /\ local[t].pc \in {"check", "claiming"}
      <3>1. Asks(t)
        BY <2>3, <2>6, <2>1, PhaseAt DEF Plans, Claiming
      <3>2. Want(t) \in Headers
        BY <3>1, <1>t, HeaderFits DEF Asks, Want
      <3>3. local'[t].i = 0
        BY <3>2, <2>3, <2>6, <1>t, ToSearchType
      <3>4. 0 .. local'[t].i - 1 = {}
        BY <3>3
      <3> QED BY <3>4, <2>5 DEF Passed
    <2>7. CASE Search(t)
      <3>1. PICK h, id, l : /\ h = Want(t) /\ id = (Begin(h) + local[t].i) % shape.sbs
                            /\ l = [Seen(local[t], h, id, buffer[id]) EXCEPT !.i = @ + 1]
        OBVIOUS
      <3>2. /\ l \in LocalType /\ h \in Headers /\ l.size = local[t].size
            /\ local' = [local EXCEPT ![t] = IF SearchEnds(l) THEN Decide(l, h) ELSE l]
            /\ l.limit >= 1 /\ l.state \in Headers /\ l.state <= h /\ l.large \in Superblocks \cup {-1}
        <4>1. PICK m \in LocalType :
                /\ h \in Headers /\ m = l /\ m.size = local[t].size
                /\ local' = [local EXCEPT ![t] = IF SearchEnds(m) THEN Decide(m, h) ELSE m]
                /\ m.limit >= 1 /\ m.state \in Headers /\ m.state <= h
                /\ m.large \in Superblocks \cup {-1}
          BY <2>1, <2>7, <3>1, SearchFacts
        <4> QED BY <4>1
      <3>3. CASE SearchEnds(l)
        <4>1. local'[t] = Decide(l, h)
          BY <3>2, <3>3, <2>1, <1>t
        <4>2. Idling.pc = "idle"
          BY DEF Idling
        <4>3. local'[t].pc # "search"
          BY <4>1, <4>2, <3>2, <1>t, DecideType
        <4> QED BY <4>3, <2>5 DEF Passed
      <3>4. CASE ~SearchEnds(l)
        <4>1. local'[t] = l /\ ~(l.sb >= 0)
          BY <3>2, <3>4, <2>1, <1>t DEF SearchEnds
        <4>2. ASSUME l.empty = -1, l.large = -1
              PROVE  \A j \in 0 .. l.i - 1 : ~Usable((Begin(h) + j) % shape.sbs, h)
          <5>1. ~(l.empty >= 0) /\ ~(l.large >= 0)
            BY <4>2
          <5> QED BY <5>1, <4>1, <3>1, <2>1, <2>2, <2>7, PassedOneMore
        <4>3. Want(t)' = h /\ Begin(h)' = Begin(h)
          <5>1. HeaderFor(l.size)' = HeaderFor(l.size) /\ Begin(h)' = Begin(h)
            BY <2>1 DEF HeaderFor, Begin, SizeIndex, Sizes
          <5>2. h = HeaderFor(l.size)
            <6>1. h = HeaderFor(local[t].size) /\ l.size = local[t].size
              BY <3>1, <3>2, Zenon DEF Want
            <6> QED BY <6>1, Zenon
          <5> QED BY <5>1, <5>2, <4>1 DEF Want
        <4>4. \A s : Usable(s, h)' <=> Usable(s, h)
          BY <2>7 DEF Search, Usable
        <4> QED BY <4>1, <4>2, <4>3, <4>4, <2>1, <2>5 DEF Passed
      <3> QED BY <3>3, <3>4
    <2>8. CASE local'[t].pc # "search"
      BY <2>5, <2>8 DEF Passed
    <2>9. \/ local'[t] = ToSearch(local[t], Want(t)) /\ local[t].pc \in {"check", "claiming"}
          \/ Search(t)
          \/ local'[t].pc # "search"
      <3>1. CASE BitsetStep(t) /\ UNCHANGED <<local, poolVars>>
        <4>1. call[t].at # "idle"
          BY <3>1 DEF BitsetStep, Undo, FetchOr, FetchAnd, CountDown
        <4>2. local[t].pc # "search"
          BY <4>1, <2>1, <2>3, PhaseAt DEF Searches
        <4> QED BY <4>2, <3>1
      <3>2. CASE ReadHint(t) \/ Claim(t) \/ ReadEmpty(t) \/ Free(t)
        <4>1. ReadHint(t) => local'[t].pc = "check"
          BY <2>1, <2>3, <1>t DEF ReadHint, LocalType
        <4>2. Claim(t) => local'[t].pc = "claiming"
          BY <2>1, <2>3, <1>t DEF Claim, LocalType
        <4>3. ReadEmpty(t) => local'[t].pc = "assign"
          BY <2>1, <2>3, <1>t DEF ReadEmpty, LocalType
        <4>4. Free(t) => local'[t].pc = "freeing"
          BY <2>1, <2>3, <1>t DEF Free, LocalType
        <4> QED BY <3>2, <4>1, <4>2, <4>3, <4>4
      <3>3. CASE CheckState(t)
        BY <3>3, <2>1, <2>3, <1>t DEF CheckState, LocalType
      <3>4. CASE Claimed(t)
        BY <3>4, <2>1, <2>3, <1>t DEF Claimed, Idling
      <3>5. CASE Assign(t)
        BY <3>5, <2>1, <2>3, <1>t DEF Assign, Try, Idling, LocalType
      <3>6. CASE SetHint(t)
        BY <3>6, <2>1, <2>3, <1>t DEF SetHint, Try, Idling, LocalType
      <3>7. CASE Freed(t)
        BY <3>7, <2>1, <2>3, <1>t DEF Freed, Idling
      <3> QED BY <2>3, <3>1, <3>2, <3>3, <3>4, <3>5, <3>6, <3>7 DEF Progress
    <2> QED BY <2>6, <2>7, <2>8, <2>9
  <1> QED BY <1>1, <1>2, <1>3 DEF Next

\* A search that ends with nothing to try has passed every superblock.
LEMMA FailsFull ==
  ASSUME PoolInv, AloneInv, [Next]_vars, NEW t \in alone,
         local[t].pc = "search", local'[t].pc = "idle"
  PROVE  \A s \in Superblocks : ~Usable(s, Want(t))
  <1>t. /\ Types /\ shape \in Shapes /\ t \in Threads /\ local \in [Threads -> LocalType]
        /\ local[t] \in LocalType /\ Phase(t)
    BY DEF PoolInv, Types
  <1>1. PICK u \in Threads : Progress(u) \/ Use(u)
    BY DEF Next, vars
  <1>2. Search(t)
    <2>1. CASE Use(u)
      <3>1. u # t
        <4>1. local[u].pc = "idle"
          BY <2>1, Zenon DEF Use, Allocate, Deallocate
        <4> QED BY <4>1
      <3>2. local'[t] = local[t]
        BY <2>1, <3>1, <1>t, OneMoves
      <3> QED BY <3>2
    <2>2. CASE Progress(u)
      <3>1. Progress(t)
        BY <2>2, <1>t, AloneSteps DEF AloneInv
      <3> QED BY <3>1, <1>t DEF Progress, ReadHint, CheckState, Claim, Claimed, ReadEmpty,
                               Assign, SetHint, Free, Freed
    <2> QED BY <1>1, <2>1, <2>2
  <1>3. PICK h, id, l : /\ h = Want(t) /\ id = (Begin(h) + local[t].i) % shape.sbs
                        /\ l = [Seen(local[t], h, id, buffer[id]) EXCEPT !.i = @ + 1]
    OBVIOUS
  <1>4. /\ l \in LocalType /\ h \in Headers /\ l.pc = "search"
        /\ local'[t] = IF SearchEnds(l) THEN Decide(l, h) ELSE l
    <2>1. /\ l \in LocalType /\ h \in Headers /\ l.pc = "search"
          /\ local' = [local EXCEPT ![t] = IF SearchEnds(l) THEN Decide(l, h) ELSE l]
      <3>1. PICK m \in LocalType :
              /\ h \in Headers /\ m = l /\ m.pc = "search"
              /\ local' = [local EXCEPT ![t] = IF SearchEnds(m) THEN Decide(m, h) ELSE m]
        BY <1>2, <1>3, <1>t, SearchFacts
      <3> QED BY <3>1
    <2> QED BY <2>1, <1>t
  <1>5. SearchEnds(l) /\ Decide(l, h).pc = "idle"
    BY <1>4
  <1>6. ~(l.sb >= 0) /\ ~(l.empty >= 0) /\ ~(l.large >= 0)
    BY <1>5 DEF Decide, Try, Idling
  <1>7. l.i = shape.sbs
    BY <1>5, <1>6 DEF SearchEnds
  <1>8. \A j \in 0 .. shape.sbs - 1 : ~Usable((Begin(h) + j) % shape.sbs, h)
    BY <1>2, <1>3, <1>6, <1>7, <1>t, PassedOneMore DEF AloneInv
  <1>9. shape.sbs \in Nat \ {0} /\ Begin(h) \in 0 .. shape.sbs - 1
    BY <1>4, <1>t, ShapeFacts, BeginFacts DEF Superblocks
  <1>10. ASSUME NEW s \in Superblocks PROVE ~Usable(s, h)
    <2>1. PICK j \in 0 .. shape.sbs - 1 : (Begin(h) + j) % shape.sbs = s
      BY <1>9, GoesAround DEF Superblocks
    <2> QED BY <2>1, <1>8
  <1> QED BY <1>3, <1>10

\* A thread that nobody disturbs is refused a block only if the pool has none
\* for it: the search goes around all superblocks, whatever the size it starts
\* at, and passes none that is empty or has room.
THEOREM PoolFailsOnlyIfFull == Spec => FailsOnlyIfFull
  <1>1. Init => AloneInv
    BY DEF Init, AloneInv
  <1>2. Spec => []AloneInv
    BY <1>1, StepAlone, PoolInvariant, PTL DEF Spec
  <1>3. PoolInv /\ AloneInv /\ [Next]_vars =>
          [\A t \in alone : local[t].pc = "search" /\ local'[t].pc = "idle" =>
              \A s \in Superblocks : ~Usable(s, Want(t))]_vars
    BY FailsFull
  <1> QED BY <1>2, <1>3, PoolInvariant, PTL DEF Spec, FailsOnlyIfFull
=============================================================================
