-------------------------- MODULE ConcurrentBitset --------------------------
(***************************************************************************)
(* concurrent_bitset of core/src/impl/Kokkos_ConcurrentBitset.hpp: threads *)
(* claim and release bits of a shared buffer without a lock.  A buffer is  *)
(* one word that holds a header and a count of claims, and the words of    *)
(* the bits.  A claim is counted before its bit is looked for, and a bit   *)
(* is cleared before its claim is counted down.                            *)
(*                                                                         *)
(* One action is one atomic access with the local code up to the next one. *)
(* The modules that use bitsets call the actions and take the result from  *)
(* call[t]; the counts that acquire and release also return are not used   *)
(* by any of them.                                                         *)
(***************************************************************************)
EXTENDS Integers, FiniteSets

CONSTANTS
    Threads,     \* threads that use the buffers
    Buffers,     \* the buffers
    BitsPerInt   \* bits of a word

ASSUME BitsPerIntAssumption == BitsPerInt \in Nat \ {0}

VARIABLES
    buffer,   \* buffer[s]: its header, its count of claims, and the set bits
    call      \* call[t]: the locals of the call that t is in

\* The results of a call that fails.
Filled == -1
WrongHeader == -2
BadArgument == -3

Idle == [at |-> "idle", on |-> 0, bit |-> 0, bound |-> 0, lg2 |-> FALSE]

\* The call of t is over and has returned r.
Returning(t, r) == [call[t] EXCEPT !.at = "done", !.bit = r]
Returns(t) == call[t].at = "done"
Result(t) == call[t].bit

Word(bit) == bit \div BitsPerInt

\* bit_first_zero of a word, -1 if the word is all ones.
FirstZero(bits, word) ==
    LET zeros == {j \in 0 .. BitsPerInt - 1 : word * BitsPerInt + j \notin bits}
    IN  IF zeros = {} THEN -1 ELSE CHOOSE j \in zeros : \A k \in zeros : j <= k

NextBitSameWord(bits, bit, bound, lg2) ==
    Word(bit) * BitsPerInt + ((bit + 1) % BitsPerInt)

NextBitUnbounded(bits, bit, bound, lg2) ==
    LET word  == Word(bit)
        j     == FirstZero(bits, word)
        start == IF word + 1 < bound \div BitsPerInt THEN (word + 1) * BitsPerInt ELSE 0
    IN  IF j < 0 THEN start + (bit % BitsPerInt) ELSE word * BitsPerInt + j

\* The bit to try when the fetch_or found that bit was taken in the word bits:
\* a zero of that word, or the same place in the next of bound / BitsPerInt
\* words.  acquire_bounded also goes on when the zero is outside the bound.
NextBit(bits, bit, bound, lg2) ==
    LET word  == Word(bit)
        j     == FirstZero(bits, word)
        found == IF 0 <= j THEN word * BitsPerInt + j ELSE bit
        start == IF word + 1 < bound \div BitsPerInt THEN (word + 1) * BitsPerInt ELSE 0
    IN  IF j < 0 \/ (~lg2 /\ bound <= found) THEN start + (found % BitsPerInt) ELSE found

\* Is the hint refused?  The two acquires differ when it equals the bound.
RefusesHint(bit, bound, lg2) == IF lg2 THEN bound < bit ELSE bound <= bit

FullAt(bound, used) == bound < used

\* Has a claim that found the count at used come too late?
Full(bound, used) == bound <= used

\* acquire_bounded and acquire_bounded_lg2: the checks of the arguments and
\* the fetch_add that counts the claim.
Acquire(t, s, bound, hint, header, lg2) ==
    LET state == buffer[s]
        begun == [at |-> "or", on |-> s, bit |-> hint, bound |-> bound, lg2 |-> lg2]
        late(r) == [begun EXCEPT !.at = "undo", !.bit = r]
    IN
    /\ call[t].at = "idle"
    /\ IF RefusesHint(hint, bound, lg2)
       THEN /\ call' = [call EXCEPT ![t] = Returning(t, BadArgument)]
            /\ UNCHANGED buffer
       ELSE /\ buffer' = [buffer EXCEPT ![s].used = @ + 1]
            /\ call' = [call EXCEPT ![t] =
                   IF header # state.header THEN late(WrongHeader)
                   ELSE IF Full(bound, state.used) THEN late(Filled) ELSE begun]

\* The second fetch_add of an acquire that fails.
Undo(t) ==
    /\ call[t].at = "undo"
    /\ buffer' = [buffer EXCEPT ![call[t].on].used = @ - 1]
    /\ call' = [call EXCEPT ![t].at = "done"]

\* The fetch_or of the acquire's loop, and the next bit if it lost the race.
FetchOr(t) ==
    LET s == call[t].on
        b == call[t].bit
        next == NextBit(buffer[s].bits, b, call[t].bound, call[t].lg2)
    IN
    /\ call[t].at = "or"
    /\ buffer' = [buffer EXCEPT ![s].bits = @ \cup {b}]
    /\ call' = [call EXCEPT ![t] =
           IF b \notin buffer[s].bits THEN Returning(t, b)
           ELSE [@ EXCEPT !.bit = next]]

\* release: the load that compares the header.
Release(t, s, bit, header) ==
    LET begun == [Idle EXCEPT !.at = "and", !.on = s, !.bit = bit] IN
    /\ call[t].at = "idle"
    /\ call' = [call EXCEPT ![t] =
           IF header # buffer[s].header THEN Returning(t, WrongHeader) ELSE begun]
    /\ UNCHANGED buffer

\* release: the fetch_and that clears the bit.
FetchAnd(t) ==
    LET s == call[t].on
        b == call[t].bit
    IN
    /\ call[t].at = "and"
    /\ buffer' = [buffer EXCEPT ![s].bits = @ \ {b}]
    /\ call' = [call EXCEPT ![t] =
           IF b \in buffer[s].bits THEN [@ EXCEPT !.at = "sub"] ELSE Returning(t, Filled)]

CountDownForgotten(t) ==
    /\ call[t].at = "sub"
    /\ call' = [call EXCEPT ![t] = Returning(t, 0)]
    /\ UNCHANGED buffer

\* release: the fetch_add that counts the claim down, after the bit is clear.
CountDown(t) ==
    /\ call[t].at = "sub"
    /\ buffer' = [buffer EXCEPT ![call[t].on].used = @ - 1]
    /\ call' = [call EXCEPT ![t] = Returning(t, 0)]

\* The steps that t takes inside a call.
BitsetStep(t) == Undo(t) \/ FetchOr(t) \/ FetchAnd(t) \/ CountDown(t)

\* The caller has taken the result.
Consume(t) == call' = [call EXCEPT ![t] = Idle]

-----------------------------------------------------------------------------
\* The bits of a buffer and the calls in progress.
BitsetTypeOK ==
    /\ \A s \in Buffers :
        /\ buffer[s].header \in Nat /\ buffer[s].used \in Nat
        /\ buffer[s].bits \subseteq Nat
    /\ \A t \in Threads :
        /\ call[t].at \in {"idle", "undo", "or", "and", "sub", "done"}
        /\ call[t].on \in Buffers /\ call[t].bit \in Nat \cup {-1, -2, -3}
        /\ call[t].bound \in Nat /\ call[t].lg2 \in BOOLEAN
=============================================================================
