---------------------------- MODULE UniqueToken -----------------------------
(***************************************************************************)
(* UniqueToken<OpenMP, Instance> of core/src/OpenMP: the threads of a pool *)
(* acquire small integers to index per-token storage with, and release     *)
(* them.  With at least as many tokens as threads a thread's token is its  *)
(* rank; with fewer it is a bit of a concurrent bitset.                    *)
(***************************************************************************)
EXTENDS ConcurrentBitset

CONSTANTS
    PoolSize,   \* impl_thread_pool_size()
    Counts,     \* the token counts the object may be constructed with
    None        \* no token

ASSUME PoolSizeAssumption == PoolSize \in Nat \ {0}
ASSUME ThreadsAssumption == Threads \subseteq 0 .. PoolSize - 1
ASSUME BuffersAssumption == Buffers = {0}
ASSUME CountsAssumption == Counts \subseteq Nat \ {0}
ASSUME NoneAssumption == None \notin Nat

VARIABLES
    count,     \* m_count
    held,      \* held[t]: the token that t's acquire has returned
    using,     \* the threads between a call of acquire and the end of release
    aborted    \* Kokkos::abort was called

vars == <<buffer, call, count, held, using, aborted>>

\* The buffer is a new View: all zero.
Init ==
    /\ count \in Counts
    /\ buffer = [s \in Buffers |-> [header |-> 0, used |-> 0, bits |-> {}]]
    /\ call = [t \in Threads |-> Idle]
    /\ held = [t \in Threads |-> None]
    /\ using = {}
    /\ aborted = FALSE

\* More tokens than threads: nothing is shared.
ByRank == count >= PoolSize

AcquireRank(t) ==
    /\ ByRank
    /\ t \notin using
    /\ held' = [held EXCEPT ![t] = t]
    /\ using' = using \cup {t}
    /\ UNCHANGED <<buffer, call, count, aborted>>

\* The hint is clock_tic() % m_count.
AcquireBit(t) ==
    /\ ~ByRank
    /\ t \notin using
    /\ \E hint \in 0 .. count - 1 : Acquire(t, 0, count, hint, 0, FALSE)
    /\ using' = using \cup {t}
    /\ UNCHANGED <<count, held, aborted>>

\* acquire returns the bit, or ends the program.
Acquired(t) ==
    /\ Returns(t)
    /\ held[t] = None
    /\ IF Result(t) < 0
       THEN aborted' = TRUE /\ UNCHANGED held
       ELSE held' = [held EXCEPT ![t] = Result(t)] /\ UNCHANGED aborted
    /\ Consume(t)
    /\ UNCHANGED <<buffer, count, using>>

ReleaseRank(t) ==
    /\ ByRank
    /\ held[t] # None
    /\ held' = [held EXCEPT ![t] = None]
    /\ using' = using \ {t}
    /\ UNCHANGED <<buffer, call, count, aborted>>

ReleaseBit(t) ==
    /\ ~ByRank
    /\ held[t] # None
    /\ Release(t, 0, held[t], 0)
    /\ UNCHANGED <<count, held, using, aborted>>

\* release ignores what the bitset returns.
Released(t) ==
    /\ Returns(t)
    /\ held[t] # None
    /\ held' = [held EXCEPT ![t] = None]
    /\ using' = using \ {t}
    /\ Consume(t)
    /\ UNCHANGED <<buffer, count, aborted>>

\* What t does inside acquire and release.
Progress(t) ==
    /\ ~aborted
    /\ \/ BitsetStep(t) /\ UNCHANGED <<count, held, using, aborted>>
       \/ Acquired(t) \/ Released(t)

\* What t's user code does.
Use(t) ==
    /\ ~aborted
    /\ AcquireRank(t) \/ AcquireBit(t) \/ ReleaseRank(t) \/ ReleaseBit(t)

Terminated == aborted /\ UNCHANGED vars

Next == (\E t \in Threads : Progress(t) \/ Use(t)) \/ Terminated

\* A call that has begun goes on; nobody has to acquire or to release.
Spec == Init /\ [][Next]_vars /\ \A t \in Threads : WF_vars(Progress(t))

-----------------------------------------------------------------------------
\* The tokens, the buffer and the calls have their types.
TypeOK ==
    /\ count \in Counts
    /\ BitsetTypeOK
    /\ held \in [Threads -> (0 .. count - 1) \cup {None}]
    /\ using \in SUBSET Threads
    /\ aborted \in BOOLEAN

\* The token that t owns: from the fetch_or that set its bit to the fetch_and
\* that clears it.
Owned(t) ==
    IF held[t] = None
    THEN IF Returns(t) /\ Result(t) >= 0 THEN Result(t) ELSE None
    ELSE IF call[t].at \in {"idle", "and"} THEN held[t] ELSE None

Pool == INSTANCE TokenPool WITH
            Users <- Threads, size <- count, owned <- [t \in Threads |-> Owned(t)]

\* A token that a thread has is in 0 .. size() - 1 and nobody else's,
\* "acquire value such that 0 <= value < size()" (Kokkos_OpenMP_UniqueToken.hpp:62).
ImplementsTokenPool == Pool!Spec

\* The set bits are exactly the tokens that are owned, so that a released
\* token can be acquired again, and the claims counted leave room for all of
\* the bits whose claim is not yet turned into a bit.
BitsAreOwned ==
    ~ByRank =>
        /\ buffer[0].bits = {Owned(t) : t \in Threads} \ {None}
        /\ Cardinality(buffer[0].bits)
             + Cardinality({t \in Threads : call[t].at = "or"}) <= count

\* acquire ends the program, "no tokens available", only when as many other
\* threads as there are tokens were using the object.
AbortsOnlyIfOversubscribed ==
    [][\A t \in Threads : call[t].at # "undo" /\ call'[t].at = "undo" =>
        Cardinality(using \ {t}) >= count]_vars

\* t looks for a bit, with its claim counted, in a program that goes on.
Searching(t) == ~aborted /\ call[t].at = "or"

BitsChange == buffer[0].bits' # buffer[0].bits

\* "There is a zero bit available somewhere, now find the (first) available
\* bit and set it" (Kokkos_ConcurrentBitset.hpp:213): a thread looks for ever
\* only if other threads keep claiming and releasing bits.
FindsZeroBit ==
    \A t \in Threads : (<>[]Searching(t)) => []<><<BitsChange>>_buffer

\* The same for the bounds whose words acquire_bounded visits: no partial last
\* word behind full ones.
FindsZeroBitInWholeWords ==
    count < BitsPerInt \/ count % BitsPerInt = 0 => FindsZeroBit
=============================================================================
