----------------------------- MODULE MemoryPool -----------------------------
(***************************************************************************)
(* MemoryPool of core/src/Kokkos_MemoryPool.hpp.  The memory is cut into   *)
(* superblocks; a superblock is assigned to one block size, and a          *)
(* concurrent bitset says which of its blocks are allocated.  The header   *)
(* of the bitset is the assignment: the log2 of the number of blocks, so a *)
(* larger header means smaller blocks.  An empty superblock may be         *)
(* assigned to another size at any moment by a compare-exchange.           *)
(*                                                                         *)
(* Addresses are bytes from the first superblock.  One action is one       *)
(* access to the shared words; threads other than the one that allocated   *)
(* a block may deallocate it.                                              *)
(***************************************************************************)
EXTENDS ConcurrentBitset

CONSTANTS
    Shapes,         \* the pools to construct: records of sbs superblocks of 2^sb
                    \* bytes, with blocks of 2^min .. 2^max bytes, and the
                    \* attempt_limit that allocate is called with
    MaxLive         \* bound: blocks allocated or being allocated at once

ASSUME ShapesAssumption ==
    Shapes \subseteq
        {p \in [sbs : Nat \ {0}, sb : Nat, min : Nat, max : Nat, limit : Nat \ {0}] :
            p.min <= p.max /\ p.max <= p.sb}
ASSUME MaxLiveAssumption == MaxLive \in Nat

\* A buffer for every superblock; words of 1 << bits_per_int_lg2 bits.
ASSUME BuffersAssumption == \A p \in Shapes : 0 .. p.sbs - 1 \subseteq Buffers
ASSUME ThreadsAssumption == IsFiniteSet(Threads)
ASSUME WordAssumption == \E k \in 0 .. BitsPerInt : BitsPerInt = 2^k

VARIABLES
    shape,     \* m_sb_count, m_sb_size_lg2, m_min_block_size_lg2, m_max_...
    hint,      \* hint[h]: the superblock to try first for header h
    local,     \* local[t]: the locals of allocate and deallocate
    live,      \* the blocks that are allocated and not yet deallocated
    alone,     \* the thread, if any, that has had no company in its allocate
    aborted    \* Kokkos::abort was called

poolVars == <<shape, hint, live, alone, aborted>>
vars == <<buffer, call, shape, hint, local, live, alone, aborted>>

Superblocks == 0 .. shape.sbs - 1
Headers == {shape.sb - k : k \in shape.min .. shape.max}

\* integral_power_of_two_that_contains: the least i with n <= 2^i.
Lg2(n) == CHOOSE i \in 0 .. n : n <= 2^i /\ \A j \in 0 .. i - 1 : 2^j < n

\* block_count_lg2 of the block size for n bytes, by get_block_size_lg2.
HeaderFor(n) == shape.sb - (IF Lg2(n) < shape.min THEN shape.min ELSE Lg2(n))

\* The static start of the searches for a header: the constructor deals the
\* superblocks out to the block sizes, the smallest size first.
Sizes == 1 + shape.max - shape.min
SizeIndex(h) == shape.sb - shape.min - h
Begin(h) == (SizeIndex(h) * shape.sbs) \div Sizes
End(h) == ((SizeIndex(h) + 1) * shape.sbs) \div Sizes

Idling == [pc |-> "idle", size |-> 0, limit |-> 0, sb |-> -1, state |-> 0,
           hinted |-> -1, i |-> 0, empty |-> -1, large |-> -1, update |-> FALSE]

Init ==
    /\ shape \in Shapes
    /\ buffer = [s \in Buffers |->
           [header |-> IF s \in Superblocks
                       THEN CHOOSE h \in Headers : Begin(h) <= s /\ s < End(h)
                       ELSE 0,
            used |-> 0, bits |-> {}]]
    /\ hint = [h \in Headers |-> Begin(h)]
    /\ call = [t \in Threads |-> Idle]
    /\ local = [t \in Threads |-> Idling]
    /\ live = {}
    /\ alone = {}
    /\ aborted = FALSE

\* The header that t's request asks for.
Want(t) == HeaderFor(local[t].size)

\* The locals at the head of the loop, with superblock sb in a given state
\* to try next, and when a search begins.
Try(l, sb, state) ==
    [Idling EXCEPT !.pc = "check", !.size = l.size, !.limit = l.limit,
                   !.sb = sb, !.state = state]
ToSearch(l, want) ==
    [l EXCEPT !.pc = "search", !.sb = -1, !.state = want, !.i = 0,
              !.empty = -1, !.large = -1, !.update = FALSE]

Busy == {t \in Threads : local[t].pc # "idle"}

Company(t) == alone' = IF Busy \subseteq {t} THEN {t} ELSE {}

\* allocate is called, for 1 .. max_block_size() bytes.
Allocate(t) ==
    /\ local[t].pc = "idle"
    /\ Cardinality(live) + Cardinality(Busy) < MaxLive
    /\ \E n \in 1 .. 2^shape.max :
        local' = [local EXCEPT ![t] =
            [Idling EXCEPT !.pc = "hint", !.size = n, !.limit = shape.limit,
                           !.state = HeaderFor(n)]]
    /\ Company(t)
    /\ UNCHANGED <<buffer, call, shape, hint, live, aborted>>

\* No superblock specified: read the hint.
ReadHint(t) ==
    LET sb == hint[Want(t)] IN
    /\ local[t].pc = "hint"
    /\ local' = [local EXCEPT ![t] = [@ EXCEPT !.pc = "check", !.sb = sb, !.hinted = sb]]
    /\ UNCHANGED <<buffer, call, poolVars>>

\* Is the superblock, for the moment, in the expected state?
CheckState(t) ==
    LET l == local[t] IN
    /\ l.pc = "check"
    /\ local' = [local EXCEPT ![t] =
           IF l.state = buffer[l.sb].header THEN [l EXCEPT !.pc = "claim"]
           ELSE ToSearch(l, Want(t))]
    /\ UNCHANGED <<buffer, call, poolVars>>

\* acquire_bounded_lg2 with a hint from the clock, masked to the block count.
Claim(t) ==
    LET l == local[t] IN
    /\ l.pc = "claim"
    /\ \E h \in 0 .. 2^l.state - 1 : Acquire(t, l.sb, 2^l.state, h, l.state, TRUE)
    /\ local' = [local EXCEPT ![t].pc = "claiming"]
    /\ UNCHANGED poolVars

\* The block of superblock sb whose bit was acquired.
Block(l, bit) ==
    LET lg2 == shape.sb - l.state
    IN  [at |-> l.sb * 2^shape.sb + bit * 2^lg2, bytes |-> 2^lg2, size |-> l.size]

\* acquire_bounded_lg2 returns: a block, or a new superblock must be found.
Claimed(t) ==
    /\ local[t].pc = "claiming"
    /\ Returns(t)
    /\ IF Result(t) >= 0
       THEN /\ live' = live \cup {Block(local[t], Result(t))}
            /\ local' = [local EXCEPT ![t] = Idling]
            /\ alone' = alone \ {t}
       ELSE /\ local' = [local EXCEPT ![t] = ToSearch(@, Want(t))]
            /\ UNCHANGED <<live, alone>>
    /\ Consume(t)
    /\ UNCHANGED <<buffer, shape, hint, aborted>>

\* A part-full superblock of a larger block size, the first one seen, and no
\* empty one seen before it.
IsLarge(l, h, st) ==
    l.empty = -1 /\ l.large = -1 /\ st.header < h /\ st.used < 2^st.header

HasRoomOrFull(h, st) == st.used <= 2^h

\* Is there room to allocate one block?
HasRoom(h, st) == st.used < 2^h

\* What the search for header h makes of superblock id in state st.
Seen(l, h, id, st) ==
    IF st.header = h
    THEN IF HasRoom(h, st) THEN [l EXCEPT !.sb = id, !.update = st.used + 1 < 2^h] ELSE l
    ELSE IF st.used = 0
    THEN IF l.empty = -1 THEN [l EXCEPT !.empty = id] ELSE l
    ELSE IF IsLarge(l, h, st) THEN [l EXCEPT !.large = id, !.state = st.header] ELSE l

TriesAgainAlways(l) == TRUE

\* while (attempt_limit), after it was decremented.
TriesAgain(l) == l.limit > 1

\* What is tried after the search.  The expected state stays that of the
\* larger superblock only if that is the one to try.
Decide(l, h) ==
    IF l.sb >= 0
    THEN IF l.update THEN [Try(l, l.sb, h) EXCEPT !.pc = "sethint", !.hinted = l.hinted]
         ELSE Try(l, l.sb, h)
    ELSE IF l.empty >= 0
    THEN [Try(l, l.empty, h) EXCEPT !.pc = "readempty", !.hinted = l.hinted]
    ELSE IF l.large >= 0 THEN Try(l, l.large, l.state)
    ELSE IF TriesAgain(l)
    THEN [Idling EXCEPT !.pc = "hint", !.size = l.size, !.limit = l.limit - 1, !.state = h]
    ELSE Idling

SearchEndsEarly(l) == l.sb >= 0 \/ l.i >= shape.sbs - 1

SearchEnds(l) == l.sb >= 0 \/ l.i = shape.sbs

\* One superblock of the search, which begins at the static start of the size
\* and goes around; after the last one, or the first that fits, the decision.
Search(t) ==
    LET h    == Want(t)
        id   == (Begin(h) + local[t].i) % shape.sbs
        l    == [Seen(local[t], h, id, buffer[id]) EXCEPT !.i = @ + 1]
        next == IF SearchEnds(l) THEN Decide(l, h) ELSE l
    IN
    /\ local[t].pc = "search"
    /\ local' = [local EXCEPT ![t] = next]
    /\ alone' = IF next.pc = "idle" THEN alone \ {t} ELSE alone
    /\ UNCHANGED <<buffer, call, shape, hint, live, aborted>>

\* Read the assignment of the superblock that was seen empty, into large.
ReadEmpty(t) ==
    LET l == local[t] IN
    /\ l.pc = "readempty"
    /\ local' = [local EXCEPT ![t] =
           [l EXCEPT !.pc = "assign", !.large = buffer[l.sb].header]]
    /\ UNCHANGED <<buffer, call, poolVars>>

AssignsUsed(l) == buffer[l.sb].header = l.large

\* The compare-exchange expects that assignment with no block used.
Assigns(l) == buffer[l.sb].header = l.large /\ buffer[l.sb].used = 0

\* Assign the superblock to the wanted size, and try it in any case.
Assign(t) ==
    LET l == local[t] IN
    /\ l.pc = "assign"
    /\ buffer' = IF Assigns(l) THEN [buffer EXCEPT ![l.sb].header = l.state] ELSE buffer
    /\ local' = [local EXCEPT ![t] =
           IF Assigns(l) THEN [l EXCEPT !.pc = "sethint"] ELSE Try(l, l.sb, l.state)]
    /\ UNCHANGED <<call, poolVars>>

\* The compare-exchange of the hint: it fails after a superblock that was not
\* tried because of the hint (hint_sb_id = -1).
SetHint(t) ==
    LET l == local[t] IN
    /\ l.pc = "sethint"
    /\ hint' = [hint EXCEPT ![Want(t)] = IF @ = l.hinted THEN l.sb ELSE @]
    /\ local' = [local EXCEPT ![t] = Try(l, l.sb, l.state)]
    /\ UNCHANGED <<buffer, call, shape, live, alone, aborted>>

\* deallocate: read the superblock's state, and from it the block's size and
\* bit.  Here sb, i and state are the locals sb_id, bit and block_state.
Deallocate(t) ==
    /\ local[t].pc = "idle"
    /\ \E b \in live :
        LET sb    == b.at \div 2^shape.sb
            state == buffer[sb].header
            bytes == 2^(shape.sb - state)
        IN  /\ live' = live \ {b}
            /\ IF b.at % bytes = 0
               THEN /\ local' = [local EXCEPT ![t] =
                           [Idling EXCEPT !.pc = "free", !.sb = sb, !.state = state,
                                          !.i = (b.at % 2^shape.sb) \div bytes]]
                    /\ UNCHANGED aborted
               ELSE aborted' = TRUE /\ UNCHANGED local
    /\ alone' = {}
    /\ UNCHANGED <<buffer, call, shape, hint>>

Free(t) ==
    LET l == local[t] IN
    /\ l.pc = "free"
    /\ Release(t, l.sb, l.i, l.state)
    /\ local' = [local EXCEPT ![t].pc = "freeing"]
    /\ UNCHANGED poolVars

Freed(t) ==
    /\ local[t].pc = "freeing"
    /\ Returns(t)
    /\ aborted' = (Result(t) < 0)
    /\ local' = [local EXCEPT ![t] = Idling]
    /\ Consume(t)
    /\ UNCHANGED <<buffer, shape, hint, live, alone>>

\* What t does inside allocate and deallocate.
Progress(t) ==
    /\ ~aborted
    /\ \/ BitsetStep(t) /\ UNCHANGED <<local, poolVars>>
       \/ ReadHint(t) \/ CheckState(t) \/ Claim(t) \/ Claimed(t) \/ Search(t)
       \/ ReadEmpty(t) \/ Assign(t) \/ SetHint(t) \/ Free(t) \/ Freed(t)

Use(t) == ~aborted /\ (Allocate(t) \/ Deallocate(t))

Next == \E t \in Threads : Progress(t) \/ Use(t)

\* A call that has begun goes on; nobody has to make one.
Spec == Init /\ [][Next]_vars /\ \A t \in Threads : WF_vars(Progress(t))

-----------------------------------------------------------------------------
\* The pool's words and the locals of the calls have their types.
TypeOK ==
    /\ BitsetTypeOK
    /\ \A s \in Superblocks : buffer[s].header \in Headers
    /\ hint \in [Headers -> Superblocks]
    /\ \A t \in Threads :
        /\ local[t].pc \in {"idle", "hint", "check", "claim", "claiming", "search",
                            "readempty", "assign", "sethint", "free", "freeing"}
        /\ local[t].sb \in Superblocks \cup {-1}
        /\ local[t].limit \in 0 .. shape.limit
    /\ alone \in SUBSET Threads
    /\ aborted \in BOOLEAN

\* The block that allocate returns lies in the pool, is as large as was asked
\* for ("a block of memory that is at least 'alloc_size'",
\* Kokkos_MemoryPool.hpp:466) and overlaps no block that is allocated, whatever
\* sizes its superblock had before.
BlocksDisjoint ==
    [][\A t \in Threads : local[t].pc = "claiming" /\ local'[t].pc = "idle" =>
        LET b == Block(local[t], Result(t)) IN
        /\ b.size <= b.bytes
        /\ b.at + b.bytes <= shape.sbs * 2^shape.sb
        /\ \A c \in live : b.at + b.bytes <= c.at \/ c.at + c.bytes <= b.at]_vars

\* deallocate finds every block that allocate returned to be one of the pool's
\* and allocated once: it does not abort ("given erroneous pointer").
TakesBackItsBlocks == ~aborted

\* Could allocate take a block for header h from superblock s?
Usable(s, h) ==
    \/ buffer[s].used = 0
    \/ buffer[s].header <= h /\ buffer[s].used < 2^buffer[s].header

\* allocate returns no block to a thread that is alone in the pool only if no
\* superblock has one.
FailsOnlyIfFull ==
    [][\A t \in alone : local[t].pc = "search" /\ local'[t].pc = "idle" =>
        \A s \in Superblocks : ~Usable(s, Want(t))]_vars

Acts(t) == local'[t] # local[t] \/ call'[t] # call[t]

\* A call goes on for ever only if other threads disturb it for ever.
ReturnsUndisturbed ==
    \A t \in Threads : (<>[](t \in Busy)) =>
        \E u \in Threads : u # t /\ []<><<Acts(u)>>_<<local, call>>
=============================================================================
