--------------------------- MODULE LockFreeProofs ---------------------------
(***************************************************************************)
(* That the containers the threads share without a mutex are what their    *)
(* users take them for: the tokens a pool of tokens, the intrusive lists a *)
(* stack, a team's ready queue a bag of tasks, for any threads, tokens,    *)
(* nodes, tasks and capacities.                                            *)
(*                                                                         *)
(* The tokens.  They are within 0 .. size() - 1 and never shared, the set  *)
(* bits are those in use, and acquire gives up only when it must.  The     *)
(* argument counts claims.  The word of the buffer counts the threads      *)
(* that have, look for, or give back a bit.  A thread goes on to look for  *)
(* a bit only if fewer than size() were counted, so the owners and the     *)
(* seekers together are at most size(), and a seeker finds a clear bit     *)
(* below the bound wherever the search takes it.                           *)
(***************************************************************************)
EXTENDS MCLockFree, BitsetLemmas, SequenceTheorems

CallType ==
    [at : {"idle", "undo", "or", "and", "sub", "done"}, on : {0}, bit : Nat \cup {-1},
     bound : Nat, lg2 : BOOLEAN]

WordType == [header : {0}, used : Nat, bits : SUBSET Nat]

Tokens == 0 .. count - 1

Types ==
    /\ count \in Counts
    /\ call \in [Threads -> CallType]
    /\ buffer \in [{0} -> WordType]
    /\ held \in [Threads -> Tokens \cup {None}]
    /\ using \in SUBSET Threads
    /\ aborted \in BOOLEAN

\* With a token for every thread: the bitset is not used.
Ranked ==
    \A t \in Threads :
        /\ call[t].at = "idle"
        /\ \/ held[t] = None /\ t \notin using
           \/ held[t] = t /\ t \in using

\* What t is doing: nothing, looking for a bit, failing, having a bit, giving
\* it back.
Away(t) == t \notin using /\ held[t] = None /\ call[t].at = "idle"

Seeks(t) ==
    /\ t \in using /\ held[t] = None /\ call[t].at = "or"
    /\ call[t].bit \in Tokens /\ call[t].bound = count /\ call[t].lg2 = FALSE

Fails(t) ==
    /\ t \in using /\ held[t] = None
    /\ \/ call[t].at \in {"undo", "done"} /\ call[t].bit = -1
       \/ call[t].at = "idle" /\ aborted

Finds(t) == t \in using /\ held[t] = None /\ call[t].at = "done" /\ call[t].bit \in Tokens

Has(t) ==
    /\ t \in using /\ held[t] \in Tokens
    /\ call[t].at \in {"idle", "and"}
    /\ call[t].at = "and" => call[t].bit = held[t]

GivesBack(t) == t \in using /\ held[t] \in Tokens /\ call[t].at \in {"sub", "done"}

Phase(t) == Away(t) \/ Seeks(t) \/ Fails(t) \/ Finds(t) \/ Has(t) \/ GivesBack(t)

\* The threads whose claim is counted, and those that have a bit or will find one.
Claims(t) == Owned(t) # None \/ call[t].at \in {"or", "undo", "sub"}
Claimers == {t \in Threads : Claims(t)}

HasShare(t) == Owned(t) # None \/ call[t].at = "or"
Sharers == {t \in Threads : HasShare(t)}

\* The bits are those of the owners, the count is that of the claims.
Agrees ==
    /\ buffer[0].bits = {Owned(t) : t \in Threads} \ {None}
    /\ \A t, u \in Threads : Owned(t) # None /\ Owned(t) = Owned(u) => t = u
    /\ buffer[0].used = Cardinality(Claimers)
    /\ Cardinality(Sharers) <= count

Shared == (\A t \in Threads : Phase(t)) /\ Agrees

\* The inductive invariant.
TokenInv == Types /\ (IF ByRank THEN Ranked ELSE Shared)

-----------------------------------------------------------------------------
LEMMA Finiteness == ASSUME NEW S \in SUBSET Threads PROVE IsFiniteSet(S) /\ Cardinality(S) \in Nat
  <1>1. IsFiniteSet(0 .. PoolSize - 1)
    BY FS_Interval, PoolSizeAssumption
  <1>2. S \in SUBSET (0 .. PoolSize - 1)
    BY ThreadsAssumption
  <1>3. IsFiniteSet(S)
    BY <1>1, <1>2, FS_Subset
  <1> QED BY <1>3, FS_CardinalityType

LEMMA CountFacts == ASSUME Types PROVE count \in Nat \ {0} /\ Tokens \subseteq Nat /\ None \notin Tokens
  BY CountsAssumption, NoneAssumption DEF Types, Tokens

\* What t owns in each phase.
LEMMA OwnedFacts ==
  ASSUME Types, NEW t \in Threads
  PROVE  /\ Away(t) \/ Seeks(t) \/ Fails(t) \/ GivesBack(t) => Owned(t) = None
         /\ Finds(t) => Owned(t) = call[t].bit /\ Owned(t) \in Tokens
         /\ Has(t) => Owned(t) = held[t] /\ Owned(t) \in Tokens
  <1>1. None \notin Tokens /\ \A k \in Tokens : k >= 0
    BY CountFacts
  <1>2. ~(-1 >= 0)
    OBVIOUS
  <1> QED BY <1>1, <1>2 DEF Away, Seeks, Fails, GivesBack, Finds, Has, Owned, Returns, Result

LEMMA InitToken == Init => TokenInv
  <1> SUFFICES ASSUME Init PROVE TokenInv
    OBVIOUS
  <1>1. Types
    <2>1. Idle \in CallType
      BY DEF Idle, CallType
    <2>2. [header |-> 0, used |-> 0, bits |-> {}] \in WordType
      BY DEF WordType
    <2> QED BY <2>1, <2>2, BuffersAssumption DEF Init, Types
  <1>2. \A t \in Threads : call[t].at = "idle" /\ held[t] = None /\ t \notin using
    BY DEF Init, Idle
  <1>3. \A t \in Threads : Away(t) /\ Owned(t) = None
    BY <1>1, <1>2, OwnedFacts DEF Away
  <1>4. Claimers = {} /\ Sharers = {}
    BY <1>2, <1>3 DEF Claimers, Claims, Sharers, HasShare
  <1>5. buffer[0].bits = {} /\ buffer[0].used = 0
    BY BuffersAssumption DEF Init
  <1>6. Agrees
    BY <1>1, <1>3, <1>4, <1>5, FS_EmptySet, CountFacts DEF Agrees
  <1> QED BY <1>1, <1>2, <1>3, <1>6 DEF TokenInv, Ranked, Shared, Phase

\* What one thread's step does to the two counts.
LEMMA Recount ==
  ASSUME NEW t \in Threads, \A u \in Threads \ {t} : Owned(u)' = Owned(u) /\ call'[u].at = call[u].at
  PROVE  /\ (Claims(t)' <=> Claims(t)) => Claimers' = Claimers
         /\ Claims(t)' /\ ~Claims(t) => Cardinality(Claimers') = Cardinality(Claimers) + 1
         /\ ~Claims(t)' /\ Claims(t) => Cardinality(Claimers') = Cardinality(Claimers) - 1
         /\ (HasShare(t)' <=> HasShare(t)) => Sharers' = Sharers
         /\ HasShare(t)' /\ ~HasShare(t) => Cardinality(Sharers') = Cardinality(Sharers) + 1
         /\ ~HasShare(t)' /\ HasShare(t) => Cardinality(Sharers') = Cardinality(Sharers) - 1
  <1>1. \A u \in Threads \ {t} : (Claims(u)' <=> Claims(u)) /\ (HasShare(u)' <=> HasShare(u))
    BY DEF Claims, HasShare
  <1>2. IsFiniteSet(Claimers) /\ IsFiniteSet(Sharers)
    BY Finiteness DEF Claimers, Sharers
  <1>3. /\ (Claims(t)' <=> Claims(t)) => Claimers' = Claimers
        /\ Claims(t)' /\ ~Claims(t) => Claimers' = Claimers \cup {t} /\ t \notin Claimers
        /\ ~Claims(t)' /\ Claims(t) => Claimers' = Claimers \ {t} /\ t \in Claimers
    BY <1>1 DEF Claimers
  <1>4. /\ (HasShare(t)' <=> HasShare(t)) => Sharers' = Sharers
        /\ HasShare(t)' /\ ~HasShare(t) => Sharers' = Sharers \cup {t} /\ t \notin Sharers
        /\ ~HasShare(t)' /\ HasShare(t) => Sharers' = Sharers \ {t} /\ t \in Sharers
    BY <1>1 DEF Sharers
  <1>5. /\ t \notin Claimers => Cardinality(Claimers \cup {t}) = Cardinality(Claimers) + 1
        /\ t \in Claimers => Cardinality(Claimers \ {t}) = Cardinality(Claimers) - 1
    BY <1>2, FS_AddElement, FS_RemoveElement
  <1>6. /\ t \notin Sharers => Cardinality(Sharers \cup {t}) = Cardinality(Sharers) + 1
        /\ t \in Sharers => Cardinality(Sharers \ {t}) = Cardinality(Sharers) - 1
    BY <1>2, FS_AddElement, FS_RemoveElement
  <1> QED BY <1>3, <1>4, <1>5, <1>6

\* The bits are at most as many as the owners.
LEMMA BitsBound ==
  ASSUME Types, Shared
  PROVE  /\ IsFiniteSet(buffer[0].bits) /\ buffer[0].bits \subseteq Tokens
         /\ Cardinality(buffer[0].bits) + Cardinality({t \in Threads : call[t].at = "or"}) <= count
  <1> DEFINE Owners == {t \in Threads : Owned(t) # None}
             Seekers == {t \in Threads : call[t].at = "or"}
             bits == buffer[0].bits
  <1>1. IsFiniteSet(Owners) /\ IsFiniteSet(Seekers)
        /\ Cardinality(Owners) \in Nat /\ Cardinality(Seekers) \in Nat
    BY Finiteness
  <1>2. bits = {Owned(t) : t \in Threads} \ {None} /\ Cardinality(Sharers) <= count
    BY DEF Shared, Agrees
  <1>3. IsFiniteSet(bits) /\ Cardinality(bits) <= Cardinality(Owners)
    <2> DEFINE f == [t \in Owners |-> Owned(t)]
    <2>1. f \in Surjection(Owners, bits)
      BY <1>2 DEF Surjection
    <2> QED BY <2>1, <1>1, FS_Surjection
  <1>4. Sharers = Owners \cup Seekers
    BY DEF Sharers, HasShare
  <1>5. Owners \cap Seekers = {}
    <2>1. \A t \in Seekers : Seeks(t)
      BY DEF Shared, Phase, Away, Fails, Finds, Has, GivesBack
    <2>2. \A t \in Seekers : Owned(t) = None
      BY <2>1, OwnedFacts
    <2> QED BY <2>2
  <1>6. Cardinality(Sharers) = Cardinality(Owners) + Cardinality(Seekers)
    <2>1. Cardinality(Owners \cup Seekers)
            = Cardinality(Owners) + Cardinality(Seekers) - Cardinality(Owners \cap Seekers)
      BY <1>1, FS_Union
    <2> QED BY <2>1, <1>1, <1>4, <1>5, FS_EmptySet
  <1>7. bits \subseteq Tokens
    <2> SUFFICES ASSUME NEW t \in Threads, Owned(t) # None PROVE Owned(t) \in Tokens
      BY <1>2
    <2> QED BY OwnedFacts DEF Shared, Phase
  <1>8. Cardinality(bits) \in Nat
    BY <1>3, FS_CardinalityType
  <1>9. count \in Nat
    BY CountFacts
  <1> QED BY <1>1, <1>2, <1>3, <1>6, <1>7, <1>8, <1>9

\* Whoever looks for a bit can find one.
LEMMA ZeroBitExists ==
  ASSUME Types, Shared, NEW t \in Threads, call[t].at = "or"
  PROVE  \E z \in Tokens : z \notin buffer[0].bits
  <1> DEFINE Seekers == {u \in Threads : call[u].at = "or"}
             bits == buffer[0].bits
  <1>1. IsFiniteSet(Seekers) /\ Cardinality(Seekers) \in Nat /\ Seekers # {}
    BY Finiteness
  <1>2. Cardinality(Seekers) >= 1
    BY <1>1, FS_EmptySet
  <1>3. IsFiniteSet(bits) /\ bits \subseteq Tokens /\ Cardinality(bits) + Cardinality(Seekers) <= count
    BY BitsBound
  <1>4. count \in Nat \ {0} /\ Cardinality(bits) \in Nat
    BY <1>3, CountFacts, FS_CardinalityType
  <1>5. Cardinality(Tokens) = count
    BY <1>4, FS_Interval DEF Tokens
  <1>6. bits # Tokens
    BY <1>1, <1>2, <1>3, <1>4, <1>5
  <1> QED BY <1>3, <1>6

-----------------------------------------------------------------------------
\* With a token for every thread, a token is its thread's rank.
LEMMA StepRanked == ByRank /\ TokenInv /\ [Next]_vars => TokenInv'
  <1> SUFFICES ASSUME ByRank, TokenInv, [Next]_vars PROVE TokenInv'
    OBVIOUS
  <1>i. Types /\ Ranked
    BY DEF TokenInv
  <1>r. ASSUME NEW t \in Threads PROVE t \in Tokens /\ t # None
    <2>1. t \in 0 .. PoolSize - 1 /\ count \in Nat /\ count >= PoolSize
      BY <1>i, CountFacts, ThreadsAssumption DEF ByRank
    <2> QED BY <2>1, PoolSizeAssumption, NoneAssumption DEF Tokens
  <1>1. ASSUME NEW t \in Threads, AcquireRank(t) \/ ReleaseRank(t) PROVE TokenInv'
    <2>1. /\ UNCHANGED <<buffer, call, count, aborted>>
          /\ \/ held' = [held EXCEPT ![t] = t] /\ using' = using \cup {t}
             \/ held' = [held EXCEPT ![t] = None] /\ using' = using \ {t}
      BY <1>1 DEF AcquireRank, ReleaseRank
    <2>2. Tokens' = Tokens /\ ByRank'
      BY <2>1 DEF Tokens, ByRank
    <2>3. Types'
      BY <1>i, <1>r, <2>1, <2>2 DEF Types
    <2>4. Ranked'
      BY <1>i, <2>1 DEF Ranked, Types
    <2> QED BY <2>2, <2>3, <2>4 DEF TokenInv
  <1>2. ASSUME NEW t \in Threads, Progress(t) PROVE FALSE
    BY <1>i, <1>2 DEF Progress, BitsetStep, Undo, FetchOr, FetchAnd, CountDown, Acquired, Released,
          Returns, Ranked
  <1>3. ASSUME NEW t \in Threads, Use(t) PROVE AcquireRank(t) \/ ReleaseRank(t)
    BY <1>3 DEF Use, AcquireBit, ReleaseBit
  <1>4. CASE Terminated \/ UNCHANGED vars
    <2>1. UNCHANGED <<buffer, call, count, held, using, aborted>>
      BY <1>4 DEF Terminated, vars
    <2> QED BY <1>i, <2>1 DEF TokenInv, Types, Ranked, Tokens, ByRank
  <1> QED BY <1>1, <1>2, <1>3, <1>4 DEF Next

\* A thread of which nothing changes stays in its phase.
LEMMA OthersKeep ==
  ASSUME Types, NEW u \in Threads, Phase(u), call'[u] = call[u], held'[u] = held[u],
         u \in using' <=> u \in using, count' = count, aborted => aborted'
  PROVE  Phase(u)' /\ Owned(u)' = Owned(u)
  <1>1. Tokens' = Tokens
    BY DEF Tokens
  <1> QED BY <1>1 DEF Phase, Away, Seeks, Fails, Finds, Has, GivesBack, Owned, Returns, Result

\* The steps that only t's own phase is concerned with: what it owns and
\* whether it is counted stay as they are.
LEMMA QuietStep ==
  ASSUME Agrees, NEW t \in Threads, count' = count, buffer' = buffer,
         \A u \in Threads \ {t} : Owned(u)' = Owned(u) /\ call'[u].at = call[u].at,
         Owned(t)' = Owned(t), Claims(t)' <=> Claims(t), HasShare(t)' <=> HasShare(t)
  PROVE  Agrees'
  <1>1. \A u \in Threads : Owned(u)' = Owned(u)
    OBVIOUS
  <1>2. Claimers' = Claimers /\ Sharers' = Sharers
    BY Recount
  <1> QED BY <1>1, <1>2 DEF Agrees

\* The steps of the threads that share the bitset.
LEMMA StepShared == ~ByRank /\ TokenInv /\ [Next]_vars => TokenInv'
  <1> SUFFICES ASSUME ~ByRank, TokenInv, [Next]_vars PROVE TokenInv'
    OBVIOUS
  <1>i. Types /\ Shared /\ (\A t \in Threads : Phase(t)) /\ Agrees
    BY DEF TokenInv, Shared
  <1>t. /\ call \in [Threads -> CallType] /\ buffer \in [{0} -> WordType]
        /\ held \in [Threads -> Tokens \cup {None}]
    BY <1>i DEF Types
  <1>c. count \in Nat \ {0} /\ Tokens \subseteq Nat /\ None \notin Tokens
    BY <1>i, CountFacts
  <1>z. \A k \in Tokens : k \in Nat /\ k >= 0 /\ ~(k < 0) /\ k # None
    BY <1>c
  <1>k. Cardinality(Claimers) \in Nat /\ Cardinality(Sharers) \in Nat /\ Claimers \subseteq Threads
    BY Finiteness DEF Claimers, Sharers
  <1>a. buffer[0].header = 0 /\ buffer[0].used = Cardinality(Claimers) /\ buffer[0] \in WordType
    BY <1>i, <1>t DEF Agrees, WordType
  \* The frame: what follows for the threads that do not move.
  <1>f. ASSUME NEW t \in Threads, UNCHANGED count, aborted => aborted',
               \A u \in Threads \ {t} : call'[u] = call[u] /\ held'[u] = held[u]
                                        /\ (u \in using' <=> u \in using)
        PROVE  /\ \A u \in Threads \ {t} :
                      Phase(u)' /\ Owned(u)' = Owned(u) /\ call'[u].at = call[u].at
               /\ Tokens' = Tokens /\ ~ByRank'
    BY <1>f, <1>i, OthersKeep DEF Tokens, ByRank
  <1>1. ASSUME NEW t \in Threads, Undo(t) /\ UNCHANGED <<count, held, using, aborted>> PROVE TokenInv'
    <2>1. /\ call[t].at = "undo" /\ call' = [call EXCEPT ![t].at = "done"]
          /\ buffer' = [buffer EXCEPT ![0].used = @ - 1]
      BY <1>1, <1>t DEF Undo, CallType
    <2>2. Fails(t)
      BY <2>1, <1>i DEF Phase, Away, Seeks, Finds, Has, GivesBack
    <2>3. Owned(t) = None /\ Claims(t) /\ ~HasShare(t)
      BY <2>1, <2>2, <1>i, OwnedFacts DEF Claims, HasShare
    <2>4. /\ call'[t] = [call[t] EXCEPT !.at = "done"] /\ call' \in [Threads -> CallType]
          /\ \A u \in Threads \ {t} : call'[u] = call[u]
      BY <2>1, <1>t DEF CallType
    <2>5. /\ \A u \in Threads \ {t} : Phase(u)' /\ Owned(u)' = Owned(u) /\ call'[u].at = call[u].at
          /\ Tokens' = Tokens /\ ~ByRank'
      BY <1>1, <1>f, <2>4
    <2>6. Fails(t)' /\ call'[t].at = "done"
      BY <1>1, <2>1, <2>2, <2>4, <1>t DEF Fails, CallType
    <2>7. buffer'[0].used = buffer[0].used - 1 /\ buffer'[0].bits = buffer[0].bits /\ buffer'[0].header = 0
      BY <2>1, <1>a, <1>t DEF WordType
    <2>8. buffer[0].used >= 1
      <3>1. t \in Claimers
        BY <2>3 DEF Claimers
      <3>2. IsFiniteSet(Claimers)
        BY Finiteness, <1>k
      <3> QED BY <3>1, <3>2, <1>a, <1>k, FS_EmptySet
    <2>9. buffer' \in [{0} -> WordType]
      BY <2>1, <2>7, <2>8, <1>a, <1>k, <1>t DEF WordType
    <2>10. Types'
      BY <1>1, <1>i, <2>4, <2>5, <2>9 DEF Types
    <2>11. Owned(t)' = None /\ ~Claims(t)' /\ ~HasShare(t)'
      <3>1. Owned(t)' = None
        BY <1>1, <2>2, <2>4, <2>6, <1>t DEF Owned, Returns, Result, Fails, CallType
      <3> QED BY <3>1, <2>6 DEF Claims, HasShare
    <2>12. Cardinality(Claimers') = Cardinality(Claimers) - 1 /\ Sharers' = Sharers
      BY <2>3, <2>5, <2>11, Recount
    <2>13. \A u \in Threads : Owned(u)' = Owned(u)
      BY <2>3, <2>5, <2>11
    <2>14. Agrees'
      BY <1>1, <1>i, <2>7, <2>12, <2>13 DEF Agrees
    <2>15. \A u \in Threads : Phase(u)'
      BY <2>5, <2>6 DEF Phase
    <2> QED BY <2>5, <2>10, <2>14, <2>15 DEF TokenInv, Shared
  <1>2. ASSUME NEW t \in Threads, FetchOr(t) /\ UNCHANGED <<count, held, using, aborted>> PROVE TokenInv'
    <2> DEFINE b == call[t].bit
               bits == buffer[0].bits
    <2>1. call[t].at = "or" /\ call[t].on = 0
      BY <1>2, <1>t DEF FetchOr, CallType
    <2>2. Seeks(t)
      BY <2>1, <1>i DEF Phase, Away, Fails, Finds, Has, GivesBack
    <2>3. Owned(t) = None /\ Claims(t) /\ HasShare(t) /\ b \in Tokens /\ b \in Nat /\ b # None
          /\ b >= 0 /\ held[t] = None
      <3>1. Owned(t) = None /\ b \in Tokens /\ held[t] = None
        BY <2>2, <1>i, OwnedFacts DEF Seeks
      <3> QED BY <3>1, <2>1, <1>z DEF Claims, HasShare
    <2>4. /\ buffer' = [buffer EXCEPT ![0].bits = @ \cup {b}]
          /\ call' = [call EXCEPT ![t] = IF b \notin bits THEN Returning(t, b)
                        ELSE [@ EXCEPT !.bit = NextBit(bits, b, call[t].bound, call[t].lg2)]]
      BY <1>2, <2>1 DEF FetchOr
    <2>5. /\ \A u \in Threads \ {t} : Phase(u)' /\ Owned(u)' = Owned(u) /\ call'[u].at = call[u].at
          /\ Tokens' = Tokens /\ ~ByRank'
      BY <1>2, <1>f, <2>4, <1>t
    <2>6. buffer'[0].bits = bits \cup {b} /\ buffer'[0].used = buffer[0].used
          /\ buffer' \in [{0} -> WordType]
      BY <2>3, <2>4, <1>a, <1>t DEF WordType
    \* The bit was clear: it is t's.
    <2>7. CASE b \notin bits
      <3>1. call'[t] = [call[t] EXCEPT !.at = "done", !.bit = b] /\ call' \in [Threads -> CallType]
        <4>1. call'[t] = Returning(t, b)
          BY <2>4, <2>7, <1>t
        <4>2. Returning(t, b) = [call[t] EXCEPT !.at = "done", !.bit = b] /\ Returning(t, b) \in CallType
          BY <2>3, <1>t DEF Returning, CallType
        <4> QED BY <4>1, <4>2, <2>4, <2>7, <1>t
      <3>2. call'[t].at = "done" /\ call'[t].bit = b
        BY <3>1, <1>t DEF CallType
      <3>3. Finds(t)'
        BY <1>2, <3>2, <2>2, <2>3, <2>5 DEF Finds, Seeks
      <3>4. Owned(t)' = b
        BY <1>2, <3>2, <2>3 DEF Owned, Returns, Result
      <3>5. Claims(t)' /\ HasShare(t)'
        BY <3>4, <2>3 DEF Claims, HasShare
      <3>6. Claimers' = Claimers /\ Sharers' = Sharers
        BY <2>3, <2>5, <3>5, Recount
      <3>7. {Owned(u)' : u \in Threads} \ {None} = bits \cup {b}
        <4>1. bits = {Owned(u) : u \in Threads} \ {None}
          BY <1>i DEF Agrees
        <4>2. \A u \in Threads : Owned(u)' = IF u = t THEN b ELSE Owned(u)
          BY <2>5, <3>4
        <4> QED BY <4>1, <4>2, <2>3
      <3>8. \A u, v \in Threads : Owned(u)' # None /\ Owned(u)' = Owned(v)' => u = v
        <4>1. \A u \in Threads : Owned(u) # b
          BY <2>3, <2>7, <1>i DEF Agrees
        <4>2. \A u \in Threads : Owned(u)' = IF u = t THEN b ELSE Owned(u)
          BY <2>5, <3>4
        <4> QED BY <4>1, <4>2, <1>i DEF Agrees
      <3>9. Agrees'
        BY <1>2, <1>i, <2>6, <3>6, <3>7, <3>8 DEF Agrees
      <3>10. Types'
        BY <1>2, <1>i, <2>5, <2>6, <3>1 DEF Types
      <3>11. \A u \in Threads : Phase(u)'
        BY <2>5, <3>3 DEF Phase
      <3> QED BY <2>5, <3>9, <3>10, <3>11 DEF TokenInv, Shared
    \* The bit was taken: t goes on with one that is below the bound.
    <2>8. CASE b \in bits
      <3> DEFINE next == NextBit(bits, b, count, FALSE)
      <3>0. call[t].bound = count /\ call[t].lg2 = FALSE
        BY <2>2 DEF Seeks
      <3>1. next \in Tokens /\ next \in Nat
        <4>1. PICK z \in Tokens : z \notin bits
          BY <1>i, <2>1, ZeroBitExists
        <4>2. next \in 0 .. count - 1
          BY <4>1, <1>c, <2>3, NextBitInBound DEF Tokens
        <4> QED BY <4>2, <1>c DEF Tokens
      <3>2. call'[t] = [call[t] EXCEPT !.bit = next]
        BY <2>4, <2>8, <3>0, <1>t
      <3> HIDE DEF next
      <3>3. call'[t].at = "or" /\ call'[t].bit = next /\ call'[t].bound = count /\ call'[t].lg2 = FALSE
            /\ call'[t] \in CallType
        BY <3>0, <3>1, <3>2, <2>1, <1>t DEF CallType
      <3>4. call' \in [Threads -> CallType]
        BY <3>3, <2>4, <1>t
      <3>5. Seeks(t)'
        BY <1>2, <3>1, <3>3, <2>2, <2>5 DEF Seeks
      <3>6. Owned(t)' = None
        BY <1>2, <3>3, <2>3 DEF Owned, Returns
      <3>7. Claims(t)' /\ HasShare(t)'
        BY <3>3 DEF Claims, HasShare
      <3>8. bits \cup {b} = bits
        BY <2>8
      <3>9. buffer' = buffer
        <4>1. buffer'[0] = buffer[0]
          BY <2>4, <3>8, <1>a, <1>t DEF WordType
        <4> QED BY <4>1, <2>4, <1>t
      <3>10. Agrees'
        BY <1>2, <1>i, <2>3, <2>5, <3>6, <3>7, <3>9, QuietStep
      <3>11. Types'
        BY <1>2, <1>i, <2>5, <2>6, <3>4 DEF Types
      <3>12. \A u \in Threads : Phase(u)'
        BY <2>5, <3>5 DEF Phase
      <3> QED BY <2>5, <3>10, <3>11, <3>12 DEF TokenInv, Shared
    <2> QED BY <2>7, <2>8
  <1>3. ASSUME NEW t \in Threads, FetchAnd(t) /\ UNCHANGED <<count, held, using, aborted>> PROVE TokenInv'
    <2> DEFINE b == call[t].bit
               bits == buffer[0].bits
    <2>1. call[t].at = "and" /\ call[t].on = 0
      BY <1>3, <1>t DEF FetchAnd, CallType
    <2>2. Has(t) /\ held[t] = b
      BY <2>1, <1>i DEF Phase, Away, Seeks, Fails, Finds, GivesBack, Has
    <2>3. Owned(t) = b /\ b \in Tokens /\ b # None /\ Claims(t) /\ HasShare(t)
      BY <2>2, <1>i, <1>c, OwnedFacts DEF Claims, HasShare
    <2>4. b \in bits
      BY <2>3, <1>i DEF Agrees
    <2>5. buffer' = [buffer EXCEPT ![0].bits = @ \ {b}] /\ call' = [call EXCEPT ![t].at = "sub"]
      BY <1>3, <2>1, <2>4 DEF FetchAnd
    <2>6. /\ \A u \in Threads \ {t} : Phase(u)' /\ Owned(u)' = Owned(u) /\ call'[u].at = call[u].at
          /\ Tokens' = Tokens /\ ~ByRank'
      BY <1>3, <1>f, <2>5, <1>t
    <2>7. buffer'[0].bits = bits \ {b} /\ buffer'[0].used = buffer[0].used
          /\ buffer' \in [{0} -> WordType]
      BY <2>5, <1>a, <1>t DEF WordType
    <2>8. call'[t].at = "sub" /\ call' \in [Threads -> CallType]
      BY <2>5, <1>t DEF CallType
    <2>9. GivesBack(t)'
      BY <1>3, <2>2, <2>6, <2>8 DEF GivesBack, Has
    <2>10. Owned(t)' = None
      BY <1>3, <2>2, <2>3, <2>8 DEF Owned
    <2>11. Claims(t)' /\ ~HasShare(t)'
      BY <2>8, <2>10 DEF Claims, HasShare
    <2>12. Claimers' = Claimers /\ Cardinality(Sharers') = Cardinality(Sharers) - 1
      BY <2>3, <2>6, <2>11, Recount
    <2>13. \A u \in Threads : Owned(u)' = IF u = t THEN None ELSE Owned(u)
      BY <2>6, <2>10
    <2>14. {Owned(u)' : u \in Threads} \ {None} = bits \ {b}
      <3>1. bits = {Owned(u) : u \in Threads} \ {None}
        BY <1>i DEF Agrees
      <3>2. \A u \in Threads : Owned(u) = b => u = t
        BY <2>3, <1>i DEF Agrees
      <3> QED BY <3>1, <3>2, <2>3, <2>13
    <2>15. \A u, v \in Threads : Owned(u)' # None /\ Owned(u)' = Owned(v)' => u = v
      BY <2>13, <1>i DEF Agrees
    <2>16. Cardinality(Sharers') <= count'
      BY <1>3, <1>i, <1>k, <1>c, <2>12 DEF Agrees
    <2>17. Agrees'
      BY <1>i, <2>7, <2>12, <2>14, <2>15, <2>16 DEF Agrees
    <2>18. Types'
      BY <1>3, <1>i, <2>6, <2>7, <2>8 DEF Types
    <2>19. \A u \in Threads : Phase(u)'
      BY <2>6, <2>9 DEF Phase
    <2> QED BY <2>6, <2>17, <2>18, <2>19 DEF TokenInv, Shared
  <1>4. ASSUME NEW t \in Threads, CountDown(t) /\ UNCHANGED <<count, held, using, aborted>> PROVE TokenInv'
    <2>1. /\ call[t].at = "sub" /\ call' = [call EXCEPT ![t] = Returning(t, 0)]
          /\ buffer' = [buffer EXCEPT ![0].used = @ - 1]
      BY <1>4, <1>t DEF CountDown, CallType
    <2>2. GivesBack(t)
      BY <2>1, <1>i DEF Phase, Away, Seeks, Fails, Finds, Has
    <2>3. Owned(t) = None /\ Claims(t) /\ ~HasShare(t)
      BY <2>1, <2>2, <1>i, OwnedFacts DEF Claims, HasShare
    <2>4. call'[t].at = "done" /\ call' \in [Threads -> CallType]
      BY <2>1, <1>t DEF Returning, CallType
    <2>5. /\ \A u \in Threads \ {t} : Phase(u)' /\ Owned(u)' = Owned(u) /\ call'[u].at = call[u].at
          /\ Tokens' = Tokens /\ ~ByRank'
      BY <1>4, <1>f, <2>1, <1>t
    <2>6. GivesBack(t)'
      BY <1>4, <2>2, <2>4, <2>5 DEF GivesBack
    <2>7. buffer'[0].used = buffer[0].used - 1 /\ buffer'[0].bits = buffer[0].bits /\ buffer'[0].header = 0
      BY <2>1, <1>a, <1>t DEF WordType
    <2>8. buffer[0].used >= 1
      <3>1. t \in Claimers
        BY <2>3 DEF Claimers
      <3>2. IsFiniteSet(Claimers)
        BY Finiteness, <1>k
      <3> QED BY <3>1, <3>2, <1>a, <1>k, FS_EmptySet
    <2>9. buffer' \in [{0} -> WordType]
      BY <2>1, <2>7, <2>8, <1>a, <1>k, <1>t DEF WordType
    <2>10. Types'
      BY <1>4, <1>i, <2>4, <2>5, <2>9 DEF Types
    <2>11. Owned(t)' = None /\ ~Claims(t)' /\ ~HasShare(t)'
      <3>1. Owned(t)' = None
        BY <1>4, <2>2, <2>4, <1>c DEF Owned, GivesBack
      <3> QED BY <3>1, <2>4 DEF Claims, HasShare
    <2>12. Cardinality(Claimers') = Cardinality(Claimers) - 1 /\ Sharers' = Sharers
      BY <2>3, <2>5, <2>11, Recount
    <2>13. \A u \in Threads : Owned(u)' = Owned(u)
      BY <2>3, <2>5, <2>11
    <2>14. Agrees'
      BY <1>4, <1>i, <2>7, <2>12, <2>13 DEF Agrees
    <2>15. \A u \in Threads : Phase(u)'
      BY <2>5, <2>6 DEF Phase
    <2> QED BY <2>5, <2>10, <2>14, <2>15 DEF TokenInv, Shared
  <1>5. ASSUME NEW t \in Threads, ~aborted, Acquired(t) PROVE TokenInv'
    <2>1. /\ call[t].at = "done" /\ held[t] = None /\ call' = [call EXCEPT ![t] = Idle]
          /\ UNCHANGED <<buffer, count, using>>
          /\ IF call[t].bit < 0
             THEN aborted' = TRUE /\ UNCHANGED held
             ELSE held' = [held EXCEPT ![t] = call[t].bit] /\ UNCHANGED aborted
      BY <1>5 DEF Acquired, Returns, Result, Consume
    <2>2. (Fails(t) /\ call[t].bit = -1) \/ Finds(t)
      BY <2>1, <1>i, <1>c DEF Phase, Away, Seeks, Fails, Has, GivesBack
    <2>3. call'[t].at = "idle" /\ call' \in [Threads -> CallType]
      BY <2>1, <1>t DEF Idle, CallType
    <2>4. \A u \in Threads \ {t} : held'[u] = held[u] /\ call'[u] = call[u]
      BY <2>1, <1>t
    <2>5. /\ \A u \in Threads \ {t} : Phase(u)' /\ Owned(u)' = Owned(u) /\ call'[u].at = call[u].at
          /\ Tokens' = Tokens /\ ~ByRank'
      BY <1>5, <1>f, <2>1, <2>4
    <2>6. CASE Fails(t) /\ call[t].bit = -1
      <3>1. aborted' = TRUE /\ held' = held /\ Owned(t) = None
        BY <2>1, <2>6, <1>i, OwnedFacts
      <3>2. Fails(t)' /\ Owned(t)' = None
        BY <2>1, <2>3, <2>6, <3>1 DEF Fails, Owned, Returns
      <3>3. (Claims(t)' <=> Claims(t)) /\ (HasShare(t)' <=> HasShare(t))
        BY <2>1, <2>3, <3>1, <3>2 DEF Claims, HasShare
      <3>4. Agrees'
        BY <1>i, <2>1, <2>5, <3>1, <3>2, <3>3, QuietStep
      <3>5. Types'
        BY <1>i, <2>1, <2>3, <2>5, <3>1 DEF Types
      <3>6. \A u \in Threads : Phase(u)'
        BY <2>5, <3>2 DEF Phase
      <3> QED BY <2>5, <3>4, <3>5, <3>6 DEF TokenInv, Shared
    <2>7. CASE Finds(t)
      <3>1. call[t].bit \in Tokens /\ ~(call[t].bit < 0) /\ call[t].bit # None /\ t \in using
        BY <2>7, <1>z DEF Finds
      <3>2. held' = [held EXCEPT ![t] = call[t].bit] /\ UNCHANGED aborted /\ held'[t] = call[t].bit
        BY <2>1, <3>1, <1>t
      <3>3. Has(t)' /\ Owned(t)' = call[t].bit /\ Owned(t) = call[t].bit
        BY <2>1, <2>3, <2>5, <2>7, <3>1, <3>2, <1>i, OwnedFacts DEF Has, Owned
      <3>4. (Claims(t)' <=> Claims(t)) /\ (HasShare(t)' <=> HasShare(t))
        BY <3>1, <3>3 DEF Claims, HasShare
      <3>5. Agrees'
        BY <1>i, <2>1, <2>5, <3>3, <3>4, QuietStep
      <3>6. Types'
        BY <1>i, <2>1, <2>3, <2>5, <3>1, <3>2 DEF Types
      <3>7. \A u \in Threads : Phase(u)'
        BY <2>5, <3>3 DEF Phase
      <3> QED BY <2>5, <3>5, <3>6, <3>7 DEF TokenInv, Shared
    <2> QED BY <2>2, <2>6, <2>7
  <1>6. ASSUME NEW t \in Threads, Released(t) PROVE TokenInv'
    <2>1. /\ call[t].at = "done" /\ held[t] # None /\ call' = [call EXCEPT ![t] = Idle]
          /\ held' = [held EXCEPT ![t] = None] /\ using' = using \ {t}
          /\ UNCHANGED <<buffer, count, aborted>>
      BY <1>6 DEF Released, Returns, Consume
    <2>2. GivesBack(t)
      BY <2>1, <1>i DEF Phase, Away, Seeks, Fails, Finds, Has
    <2>3. call'[t].at = "idle" /\ call' \in [Threads -> CallType] /\ held'[t] = None
      BY <2>1, <1>t DEF Idle, CallType
    <2>4. \A u \in Threads \ {t} : held'[u] = held[u] /\ call'[u] = call[u]
      BY <2>1, <1>t
    <2>5. /\ \A u \in Threads \ {t} : Phase(u)' /\ Owned(u)' = Owned(u) /\ call'[u].at = call[u].at
          /\ Tokens' = Tokens /\ ~ByRank'
      BY <1>f, <2>1, <2>4
    <2>6. Away(t)' /\ Owned(t)' = None /\ Owned(t) = None
      BY <2>1, <2>2, <2>3, <1>i, OwnedFacts DEF Away, Owned, Returns
    <2>7. (Claims(t)' <=> Claims(t)) /\ (HasShare(t)' <=> HasShare(t))
      BY <2>1, <2>3, <2>6 DEF Claims, HasShare
    <2>8. Agrees'
      BY <1>i, <2>1, <2>5, <2>6, <2>7, QuietStep
    <2>9. Types'
      BY <1>i, <2>1, <2>3, <2>5 DEF Types
    <2>10. \A u \in Threads : Phase(u)'
      BY <2>5, <2>6 DEF Phase
    <2> QED BY <2>5, <2>8, <2>9, <2>10 DEF TokenInv, Shared
  <1>7. ASSUME NEW t \in Threads, ~aborted, AcquireBit(t) PROVE TokenInv'
    <2>1. PICK hint \in Tokens : Acquire(t, 0, count, hint, 0, FALSE)
      BY <1>7 DEF AcquireBit, Tokens
    <2> DEFINE begun == [at |-> "or", on |-> 0, bit |-> hint, bound |-> count, lg2 |-> FALSE]
               full == Full(count, buffer[0].used)
    <2>2. /\ t \notin using /\ using' = using \cup {t} /\ UNCHANGED <<count, held, aborted>>
          /\ call[t].at = "idle"
      BY <1>7, <2>1 DEF AcquireBit, Acquire
    <2>3. /\ buffer' = [buffer EXCEPT ![0].used = @ + 1]
          /\ call' = [call EXCEPT ![t] = IF full THEN [begun EXCEPT !.at = "undo", !.bit = -1] ELSE begun]
      <3>1. ~RefusesHint(hint, count, FALSE)
        BY <1>c DEF RefusesHint, Tokens
      <3> QED BY <2>1, <3>1, <1>a DEF Acquire, Filled
    <2>4. Away(t)
      BY <2>2, <1>i DEF Phase, Seeks, Fails, Finds, Has, GivesBack
    <2>5. Owned(t) = None /\ ~Claims(t) /\ ~HasShare(t) /\ held[t] = None
      BY <2>2, <2>4, <1>i, OwnedFacts DEF Claims, HasShare, Away
    <2>6. /\ \A u \in Threads \ {t} : Phase(u)' /\ Owned(u)' = Owned(u) /\ call'[u].at = call[u].at
          /\ Tokens' = Tokens /\ ~ByRank'
      BY <1>f, <2>2, <2>3, <1>t
    <2>7. /\ call' \in [Threads -> CallType] /\ call'[t].at \in {"or", "undo"}
          /\ call'[t].at = "undo" => call'[t].bit = -1 /\ full
          /\ call'[t].at = "or" =>
                /\ call'[t].bit \in Tokens /\ call'[t].bound = count /\ call'[t].lg2 = FALSE /\ ~full
      BY <2>3, <1>t, <1>c DEF CallType
    <2>8. Phase(t)' /\ Owned(t)' = None
      BY <2>2, <2>4, <2>6, <2>7 DEF Phase, Seeks, Fails, Owned, Returns, Away
    <2>9. Claims(t)' /\ (HasShare(t)' <=> call'[t].at = "or")
      BY <2>7, <2>8 DEF Claims, HasShare
    <2>10. Cardinality(Claimers') = Cardinality(Claimers) + 1
      BY <2>5, <2>6, <2>9, Recount
    <2>11. buffer'[0].used = buffer[0].used + 1 /\ buffer'[0].bits = buffer[0].bits
           /\ buffer' \in [{0} -> WordType]
      BY <2>3, <1>a, <1>t DEF WordType
    \* Who is let in finds the count below the number of tokens.
    <2>12. Cardinality(Sharers') <= count
      <3>1. CASE call'[t].at = "undo"
        BY <3>1, <2>5, <2>6, <2>9, <1>i, Recount DEF Agrees
      <3>2. CASE call'[t].at = "or"
        <4>1. Cardinality(Claimers) < count
          BY <3>2, <2>7, <1>a, <1>c, <1>k DEF Full
        <4>2. Sharers \in SUBSET Claimers
          BY DEF Sharers, Claimers, HasShare, Claims
        <4>3. Cardinality(Sharers) <= Cardinality(Claimers)
          BY <4>2, <1>k, Finiteness, FS_Subset
        <4>4. Cardinality(Sharers') = Cardinality(Sharers) + 1
          BY <3>2, <2>5, <2>6, <2>9, Recount
        <4> QED BY <4>1, <4>3, <4>4, <1>k, <1>c
      <3> QED BY <3>1, <3>2, <2>7
    <2>13. \A u \in Threads : Owned(u)' = Owned(u)
      BY <2>5, <2>6, <2>8
    <2>14. Agrees'
      BY <1>i, <1>a, <2>2, <2>10, <2>11, <2>12, <2>13 DEF Agrees
    <2>15. Types'
      BY <1>i, <2>2, <2>6, <2>7, <2>11 DEF Types
    <2> QED BY <2>6, <2>8, <2>14, <2>15 DEF TokenInv, Shared
  <1>8. ASSUME NEW t \in Threads, ReleaseBit(t) PROVE TokenInv'
    <2>1. /\ held[t] # None /\ call[t].at = "idle" /\ UNCHANGED <<buffer, count, held, using, aborted>>
          /\ call' = [call EXCEPT ![t] = [Idle EXCEPT !.at = "and", !.on = 0, !.bit = held[t]]]
      BY <1>8, <1>a DEF ReleaseBit, Release
    <2>2. Has(t)
      BY <2>1, <1>i DEF Phase, Away, Seeks, Fails, Finds, GivesBack
    <2>3. held[t] \in Tokens /\ held[t] \in Nat
      BY <2>2, <1>c DEF Has
    <2>4. call'[t].at = "and" /\ call'[t].bit = held[t] /\ call' \in [Threads -> CallType]
      BY <2>1, <2>3, <1>t DEF Idle, CallType
    <2>5. /\ \A u \in Threads \ {t} : Phase(u)' /\ Owned(u)' = Owned(u) /\ call'[u].at = call[u].at
          /\ Tokens' = Tokens /\ ~ByRank'
      BY <1>f, <2>1, <1>t
    <2>6. Has(t)' /\ Owned(t)' = held[t] /\ Owned(t) = held[t]
      BY <2>1, <2>2, <2>4, <2>5, <1>i, OwnedFacts DEF Has, Owned
    <2>7. (Claims(t)' <=> Claims(t)) /\ (HasShare(t)' <=> HasShare(t))
      BY <2>1, <2>6 DEF Claims, HasShare
    <2>8. Agrees'
      BY <1>i, <2>1, <2>5, <2>6, <2>7, QuietStep
    <2>9. Types'
      BY <1>i, <2>1, <2>4, <2>5 DEF Types
    <2>10. \A u \in Threads : Phase(u)'
      BY <2>5, <2>6 DEF Phase
    <2> QED BY <2>5, <2>8, <2>9, <2>10 DEF TokenInv, Shared
  <1>9. CASE Terminated \/ UNCHANGED vars
    <2>1. UNCHANGED <<buffer, call, count, held, using, aborted>>
      BY <1>9 DEF Terminated, vars
    <2>2. Tokens' = Tokens /\ ~ByRank'
      BY <2>1 DEF Tokens, ByRank
    <2>3. Types'
      BY <1>i, <2>1, <2>2 DEF Types
    <2>4. \A u \in Threads : Phase(u)' /\ Owned(u)' = Owned(u)
      BY <1>i, <2>1, OthersKeep
    <2>5. Claimers' = Claimers /\ Sharers' = Sharers
      BY <2>1, <2>4 DEF Claimers, Claims, Sharers, HasShare
    <2>6. Agrees'
      BY <1>i, <2>1, <2>4, <2>5 DEF Agrees
    <2> QED BY <2>2, <2>3, <2>4, <2>6 DEF TokenInv, Shared
  <1>10. ASSUME NEW t \in Threads, AcquireRank(t) \/ ReleaseRank(t) PROVE FALSE
    BY <1>10 DEF AcquireRank, ReleaseRank
  <1> QED BY <1>1, <1>2, <1>3, <1>4, <1>5, <1>6, <1>7, <1>8, <1>9, <1>10
          DEF Next, Progress, Use, BitsetStep

LEMMA TokenInvariant == Spec => []TokenInv
  <1>1. TokenInv /\ [Next]_vars => TokenInv'
    BY StepRanked, StepShared
  <1> QED BY InitToken, <1>1, PTL DEF Spec

LEMMA TokenInvTypes == TokenInv => TypeOK
  <1> SUFFICES ASSUME TokenInv PROVE TypeOK
    OBVIOUS
  <1>1. Types
    BY DEF TokenInv
  <1>2. \A t \in Threads : call[t] \in CallType
    BY <1>1 DEF Types
  <1>3. buffer[0] \in WordType
    BY <1>1 DEF Types
  <1>4. BitsetTypeOK
    BY <1>2, <1>3, BuffersAssumption DEF BitsetTypeOK, CallType, WordType
  <1> QED BY <1>1, <1>4 DEF Types, TypeOK, Tokens

\* A thread's token, the buffer and the calls keep their types: the token is
\* below size() and the count of claims never goes below zero.
THEOREM TokenTypes == Spec => []TypeOK
  BY TokenInvariant, TokenInvTypes, PTL

\* The set bits are the tokens in use, and there is a bit for everyone who
\* looks for one (acquire_bounded, Kokkos_ConcurrentBitset.hpp:183), for any
\* number of threads, tokens and bits in a word.
THEOREM TokenBitsAreOwned == Spec => []BitsAreOwned
  <1>1. TokenInv => BitsAreOwned
    BY BitsBound DEF TokenInv, Shared, Agrees, BitsAreOwned
  <1> QED BY TokenInvariant, <1>1, PTL

\* acquire gives up, and ends the program, only when as many other threads as
\* there are tokens are using the object (Kokkos_OpenMP_UniqueToken.hpp:76).
THEOREM TokenAborts == Spec => AbortsOnlyIfOversubscribed
  <1> DEFINE A == \A t \in Threads : call[t].at # "undo" /\ call'[t].at = "undo" =>
                      Cardinality(using \ {t}) >= count
  <1>1. TokenInv /\ [Next]_vars => A
    <2> SUFFICES ASSUME TokenInv, [Next]_vars, NEW t \in Threads,
                        call[t].at # "undo", call'[t].at = "undo"
                 PROVE  Cardinality(using \ {t}) >= count
      OBVIOUS
    <2>t. Types /\ call \in [Threads -> CallType]
      BY DEF TokenInv, Types
    \* Only a call of acquire brings a thread to its second fetch_add.
    <2>1. ~ByRank /\ AcquireBit(t)
      <3>1. ASSUME NEW u \in Threads, Progress(u) PROVE FALSE
        <4>1. \/ call' = [call EXCEPT ![u].at = "done"]
              \/ \E r : call' = [call EXCEPT ![u] = Returning(u, r)]
              \/ \E r : call[u].at = "or" /\ call' = [call EXCEPT ![u] = [@ EXCEPT !.bit = r]]
              \/ call' = [call EXCEPT ![u].at = "sub"]
              \/ call' = [call EXCEPT ![u] = Idle]
          BY <3>1 DEF Progress, BitsetStep, Undo, FetchOr, FetchAnd, CountDown, Acquired, Released, Consume
        <4>2. t = u
          BY <4>1, <2>t
        <4>3. call[t] \in CallType
          BY <2>t
        <4>4. ASSUME NEW r, call' = [call EXCEPT ![t] = Returning(t, r)] PROVE call'[t].at = "done"
          BY <4>3, <4>4, <2>t DEF Returning, CallType
        <4>5. ASSUME NEW r, call[t].at = "or", call' = [call EXCEPT ![t] = [@ EXCEPT !.bit = r]]
              PROVE  call'[t].at = "or"
          BY <4>3, <4>5, <2>t DEF CallType
        <4>6. ASSUME NEW r, call' = [call EXCEPT ![t].at = r] PROVE call'[t].at = r
          BY <4>3, <4>6, <2>t DEF CallType
        <4>7. ASSUME call' = [call EXCEPT ![t] = Idle] PROVE call'[t].at = "idle"
          BY <4>7, <2>t DEF Idle
        <4>8. call'[t].at \in {"done", "or", "sub", "idle"}
          BY <4>1, <4>2, <4>4, <4>5, <4>6, <4>7
        <4> QED BY <4>8
      <3>2. ASSUME NEW u \in Threads, AcquireRank(u) \/ ReleaseRank(u) PROVE FALSE
        BY <3>2 DEF AcquireRank, ReleaseRank
      <3>3. ASSUME NEW u \in Threads, ReleaseBit(u) PROVE FALSE
        <4>1. \/ call' = [call EXCEPT ![u] = Returning(u, WrongHeader)]
              \/ call' = [call EXCEPT ![u] = [Idle EXCEPT !.at = "and", !.on = 0, !.bit = held[u]]]
          BY <3>3 DEF ReleaseBit, Release
        <4> QED BY <4>1, <2>t DEF Returning, Idle, CallType
      <3>4. ASSUME NEW u \in Threads, AcquireBit(u) PROVE u = t
        <4>1. \E k : call' = [call EXCEPT ![u] = k]
          BY <3>4 DEF AcquireBit, Acquire
        <4> QED BY <4>1, <2>t
      <3>5. CASE Terminated \/ UNCHANGED vars
        BY <3>5 DEF Terminated, vars
      <3>6. ASSUME NEW u \in Threads, AcquireBit(u) PROVE ~ByRank
        BY <3>6 DEF AcquireBit
      <3> QED BY <3>1, <3>2, <3>3, <3>4, <3>5, <3>6 DEF Next, Use
    <2>2. Shared /\ (\A u \in Threads : Phase(u)) /\ Agrees
      BY <2>1 DEF TokenInv, Shared
    <2>3. buffer[0].header = 0 /\ buffer[0].used = Cardinality(Claimers)
      BY <2>t, <2>2 DEF Agrees, Types, WordType
    <2>4. count \in Nat \ {0}
      BY <2>t, CountFacts
    <2>5. Cardinality(Claimers) \in Nat /\ Claimers \subseteq Threads
      BY Finiteness DEF Claimers
    \* It was counted out.
    <2>6. count <= buffer[0].used
      <3>1. PICK hint \in 0 .. count - 1 : Acquire(t, 0, count, hint, 0, FALSE)
        BY <2>1 DEF AcquireBit
      <3>2. ~RefusesHint(hint, count, FALSE)
        BY <2>4 DEF RefusesHint
      <3>3. CASE ~Full(count, buffer[0].used)
        <4>1. call' = [call EXCEPT ![t] =
                  [at |-> "or", on |-> 0, bit |-> hint, bound |-> count, lg2 |-> FALSE]]
          BY <3>1, <3>2, <3>3, <2>3 DEF Acquire
        <4> QED BY <4>1, <2>t
      <3>4. CASE Full(count, buffer[0].used)
        BY <3>4 DEF Full
      <3> QED BY <3>3, <3>4
    \* All that are counted are using the object, and t was not.
    <2>7. Claimers \subseteq using \ {t}
      <3>1. t \notin using
        BY <2>1 DEF AcquireBit
      <3>2. ASSUME NEW u \in Claimers PROVE u \in using
        <4>1. u \in Threads /\ Phase(u) /\ Claims(u)
          BY <2>2 DEF Claimers
        <4>2. ~Away(u)
          BY <4>1, <2>t, OwnedFacts DEF Away, Claims
        <4> QED BY <4>1, <4>2 DEF Phase, Seeks, Fails, Finds, Has, GivesBack
      <3> QED BY <3>1, <3>2
    <2>8. IsFiniteSet(using \ {t}) /\ Cardinality(using \ {t}) \in Nat
      BY <2>t, Finiteness DEF Types
    <2>9. Cardinality(Claimers) <= Cardinality(using \ {t})
      BY <2>7, <2>8, FS_Subset
    <2> QED BY <2>3, <2>4, <2>5, <2>6, <2>8, <2>9
  <1>2. TokenInv /\ [Next]_vars => [A]_vars
    BY <1>1
  <1> QED BY TokenInvariant, <1>2, PTL DEF Spec, AbortsOnlyIfOversubscribed

-----------------------------------------------------------------------------
\* A step that leaves everybody's token alone.
LEMMA SameTokens ==
  ASSUME count' = count, \A u \in Threads : Owned(u)' = Owned(u)
  PROVE  UNCHANGED <<count, [u \in Threads |-> Owned(u)]>>
  OBVIOUS

\* A fetch_or that finds its bit clear takes a token, a fetch_and gives one
\* back, and every other step leaves the tokens alone.
LEMMA StepTokenPool ==
  TokenInv /\ TokenInv' /\ [Next]_vars => [Pool!Next]_(Pool!poolVars)
  <1> DEFINE owned == [t \in Threads |-> Owned(t)]
  <1> SUFFICES ASSUME TokenInv, TokenInv', [Next]_vars
               PROVE  Pool!Next \/ UNCHANGED <<count, owned>>
    BY DEF Pool!poolVars
  <1>t. /\ Types /\ Types' /\ call \in [Threads -> CallType] /\ buffer \in [{0} -> WordType]
        /\ held \in [Threads -> Tokens \cup {None}] /\ buffer[0] \in WordType
    BY DEF TokenInv, Types
  <1>z. \A k \in Tokens : k \in Nat /\ k >= 0 /\ ~(k < 0) /\ k # None
    BY <1>t, CountFacts
  <1>g. ASSUME NEW t \in Threads, UNCHANGED count, Owned(t) # None, Owned(t)' = None,
               \A u \in Threads \ {t} : Owned(u)' = Owned(u)
        PROVE  Pool!Next
    <2>0. \A u \in Threads : Owned(u)' = IF u = t THEN None ELSE Owned(u)
      BY <1>g
    <2>1. owned' = [owned EXCEPT ![t] = None]
      BY <2>0
    <2>2. owned[t] # None
      BY <1>g
    <2>3. Pool!Give(t)
      BY <1>g, <2>1, <2>2 DEF Pool!Give
    <2> QED BY <2>3 DEF Pool!Next
  <1>h. ASSUME NEW t \in Threads, UNCHANGED count, Owned(t) = None, Owned(t)' \in Tokens,
               \A u \in Threads : Owned(u) # Owned(t)',
               \A u \in Threads \ {t} : Owned(u)' = Owned(u)
        PROVE  Pool!Next
    <2>1. Pool!Take(t)
      BY <1>h DEF Pool!Take, Tokens
    <2> QED BY <2>1 DEF Pool!Next
  <1>k. ASSUME NEW u \in Threads, call'[u] = call[u], held'[u] = held[u]
        PROVE  Owned(u)' = Owned(u)
    BY <1>k DEF Owned, Returns, Result
  <1>1. CASE ByRank
    <2>r. Ranked /\ Ranked'
      <3>1. ByRank'
        BY <1>1 DEF Next, Progress, Use, Acquired, Released, AcquireRank, AcquireBit, ReleaseRank,
             ReleaseBit, Terminated, vars, ByRank
      <3> QED BY <1>1, <3>1 DEF TokenInv
    <2>o. \A u \in Threads : Owned(u) = held[u] /\ Owned(u)' = held'[u] /\ (held[u] = None \/ held[u] = u)
      BY <2>r DEF Ranked, Owned, Returns
    <2>1. ASSUME NEW t \in Threads, AcquireRank(t) PROVE Pool!Next
      <3>1. /\ t \notin using /\ held' = [held EXCEPT ![t] = t] /\ UNCHANGED count
        BY <2>1 DEF AcquireRank
      <3>2. held[t] = None /\ held'[t] = t /\ \A u \in Threads \ {t} : held'[u] = held[u]
        BY <3>1, <2>r, <1>t DEF Ranked
      <3>3. t \in Tokens
        <4>1. t \in 0 .. PoolSize - 1 /\ count \in Nat /\ count >= PoolSize
          BY <1>1, <1>t, CountFacts, ThreadsAssumption DEF ByRank
        <4> QED BY <4>1, PoolSizeAssumption DEF Tokens
      <3>4. \A u \in Threads : Owned(u) # t
        BY <3>2, <3>3, <2>o, <1>z
      <3> QED BY <1>h, <2>o, <3>1, <3>2, <3>3, <3>4
    <2>2. ASSUME NEW t \in Threads, ReleaseRank(t) PROVE Pool!Next
      <3>1. held[t] # None /\ held' = [held EXCEPT ![t] = None] /\ UNCHANGED count
        BY <2>2 DEF ReleaseRank
      <3>2. held'[t] = None /\ \A u \in Threads \ {t} : held'[u] = held[u]
        BY <3>1, <1>t
      <3> QED BY <1>g, <2>o, <3>1, <3>2
    <2>3. ASSUME NEW t \in Threads, Progress(t) PROVE FALSE
      BY <2>r, <2>3 DEF Progress, BitsetStep, Undo, FetchOr, FetchAnd, CountDown, Acquired, Released,
            Returns, Ranked
    <2>4. ASSUME NEW t \in Threads, Use(t) PROVE AcquireRank(t) \/ ReleaseRank(t)
      BY <1>1, <2>4 DEF Use, AcquireBit, ReleaseBit
    <2>5. CASE Terminated \/ UNCHANGED vars
      <3>1. UNCHANGED <<call, held, count>>
        BY <2>5 DEF Terminated, vars
      <3> QED BY <1>k, <3>1, SameTokens
    <2> QED BY <2>1, <2>2, <2>3, <2>4, <2>5 DEF Next
  <1>2. CASE ~ByRank
    <2>i. Shared /\ (\A t \in Threads : Phase(t)) /\ Agrees
      BY <1>2 DEF TokenInv, Shared
    <2>1. ASSUME NEW t \in Threads, FetchOr(t) /\ UNCHANGED <<count, held, using, aborted>>
          PROVE  Pool!Next \/ UNCHANGED <<count, owned>>
      <3> DEFINE b == call[t].bit
                 bits == buffer[0].bits
      <3>1. call[t].at = "or" /\ call[t].on = 0
        BY <2>1, <1>t DEF FetchOr, CallType
      <3>2. Seeks(t) /\ Owned(t) = None /\ b \in Tokens /\ held[t] = None
        <4>1. Seeks(t)
          BY <3>1, <2>i DEF Phase, Away, Fails, Finds, Has, GivesBack
        <4> QED BY <4>1, <1>t, OwnedFacts DEF Seeks
      <3>3. call' = [call EXCEPT ![t] = IF b \notin bits THEN Returning(t, b)
                        ELSE [@ EXCEPT !.bit = NextBit(bits, b, call[t].bound, call[t].lg2)]]
        BY <2>1, <3>1 DEF FetchOr
      <3>4. \A u \in Threads \ {t} : Owned(u)' = Owned(u)
        BY <1>k, <2>1, <3>3, <1>t
      <3>5. CASE b \notin bits
        <4>1. call'[t].at = "done" /\ call'[t].bit = b
          BY <3>3, <3>5, <1>t DEF Returning, CallType
        <4>2. Owned(t)' = b
          BY <2>1, <4>1, <3>2, <1>z DEF Owned, Returns, Result
        <4>3. \A u \in Threads : Owned(u) # b
          BY <3>2, <3>5, <2>i, <1>z DEF Agrees
        <4>4. UNCHANGED count
          BY <2>1
        <4> QED BY <1>h, <3>2, <3>4, <4>2, <4>3, <4>4
      <3>6. CASE b \in bits
        <4>1. PICK r : r = NextBit(bits, b, call[t].bound, call[t].lg2)
          OBVIOUS
        <4>2. call' = [call EXCEPT ![t] = [@ EXCEPT !.bit = r]]
          BY <3>3, <3>6, <4>1
        <4>3. call'[t].at = "or"
          BY <4>2, <3>1, <1>t DEF CallType
        <4>4. Owned(t)' = None
          BY <2>1, <4>3, <3>2 DEF Owned, Returns
        <4> QED BY <2>1, <3>2, <3>4, <4>4, SameTokens
      <3> QED BY <3>5, <3>6
    <2>2. ASSUME NEW t \in Threads, FetchAnd(t) /\ UNCHANGED <<count, held, using, aborted>>
          PROVE  Pool!Next
      <3> DEFINE b == call[t].bit
      <3>1. call[t].at = "and" /\ call[t].on = 0
        BY <2>2, <1>t DEF FetchAnd, CallType
      <3>2. Has(t) /\ Owned(t) = b /\ b # None /\ held[t] # None
        <4>1. Has(t) /\ held[t] = b
          BY <3>1, <2>i DEF Phase, Away, Seeks, Fails, Finds, GivesBack, Has
        <4> QED BY <4>1, <1>t, <1>z, OwnedFacts
      <3>3. b \in buffer[0].bits
        BY <3>2, <2>i DEF Agrees
      <3>4. call' = [call EXCEPT ![t].at = "sub"]
        BY <2>2, <3>1, <3>3 DEF FetchAnd
      <3>5. Owned(t)' = None
        BY <2>2, <3>2, <3>4, <1>t DEF Owned, CallType
      <3>6. \A u \in Threads \ {t} : Owned(u)' = Owned(u)
        BY <1>k, <2>2, <3>4, <1>t
      <3> QED BY <1>g, <2>2, <3>2, <3>5, <3>6
    <2>3. ASSUME NEW t \in Threads, Undo(t) /\ UNCHANGED <<count, held, using, aborted>>
          PROVE  UNCHANGED <<count, owned>>
      <3>1. call[t].at = "undo" /\ call' = [call EXCEPT ![t].at = "done"]
        BY <2>3 DEF Undo
      <3>2. Fails(t) /\ Owned(t) = None /\ call[t].bit = -1 /\ held[t] = None
        <4>1. Fails(t) /\ call[t].bit = -1 /\ held[t] = None
          BY <3>1, <2>i DEF Phase, Away, Seeks, Fails, Finds, Has, GivesBack
        <4> QED BY <4>1, <1>t, OwnedFacts
      <3>3. call'[t].bit = -1
        BY <3>1, <3>2, <1>t DEF CallType
      <3>4. Owned(t)' = None
        BY <2>3, <3>2, <3>3 DEF Owned, Returns, Result
      <3>5. \A u \in Threads \ {t} : Owned(u)' = Owned(u)
        BY <1>k, <2>3, <3>1, <1>t
      <3> QED BY <2>3, <3>2, <3>4, <3>5, SameTokens
    <2>4. ASSUME NEW t \in Threads, CountDown(t) /\ UNCHANGED <<count, held, using, aborted>>
          PROVE  UNCHANGED <<count, owned>>
      <3>1. call[t].at = "sub" /\ call' = [call EXCEPT ![t] = Returning(t, 0)]
        BY <2>4 DEF CountDown
      <3>2. GivesBack(t) /\ Owned(t) = None /\ held[t] # None
        <4>1. GivesBack(t)
          BY <3>1, <2>i DEF Phase, Away, Seeks, Fails, Finds, Has
        <4> QED BY <4>1, <1>t, <1>z, OwnedFacts DEF GivesBack
      <3>3. call'[t].at = "done"
        BY <3>1, <1>t DEF Returning, CallType
      <3>4. Owned(t)' = None
        BY <2>4, <3>2, <3>3 DEF Owned
      <3>5. \A u \in Threads \ {t} : Owned(u)' = Owned(u)
        BY <1>k, <2>4, <3>1, <1>t
      <3> QED BY <2>4, <3>2, <3>4, <3>5, SameTokens
    <2>5. ASSUME NEW t \in Threads, Acquired(t) PROVE UNCHANGED <<count, owned>>
      <3>1. /\ call[t].at = "done" /\ held[t] = None /\ call' = [call EXCEPT ![t] = Idle]
            /\ UNCHANGED count
            /\ IF call[t].bit < 0 THEN UNCHANGED held ELSE held' = [held EXCEPT ![t] = call[t].bit]
        BY <2>5 DEF Acquired, Returns, Result, Consume
      <3>2. (Fails(t) /\ call[t].bit = -1) \/ Finds(t)
        BY <3>1, <2>i, <1>z DEF Phase, Away, Seeks, Fails, Has, GivesBack
      <3>3. call'[t].at = "idle"
        BY <3>1, <1>t DEF Idle
      <3>4. Owned(t)' = Owned(t)
        <4>1. CASE Fails(t) /\ call[t].bit = -1
          BY <3>1, <3>3, <4>1, <1>t, OwnedFacts DEF Owned, Returns
        <4>2. CASE Finds(t)
          <5>1. Owned(t) = call[t].bit /\ call[t].bit # None /\ held'[t] = call[t].bit
            BY <3>1, <4>2, <1>t, <1>z, OwnedFacts DEF Finds
          <5> QED BY <3>3, <5>1 DEF Owned
        <4> QED BY <3>2, <4>1, <4>2
      <3>5. \A u \in Threads \ {t} : call'[u] = call[u] /\ held'[u] = held[u]
        BY <3>1, <1>t
      <3> QED BY <1>k, <3>1, <3>4, <3>5, SameTokens
    <2>6. ASSUME NEW t \in Threads, Released(t) PROVE UNCHANGED <<count, owned>>
      <3>1. /\ call[t].at = "done" /\ held[t] # None /\ call' = [call EXCEPT ![t] = Idle]
            /\ held' = [held EXCEPT ![t] = None] /\ UNCHANGED count
        BY <2>6 DEF Released, Returns, Consume
      <3>2. Owned(t) = None /\ call'[t].at = "idle" /\ held'[t] = None
        BY <3>1, <1>t DEF Owned, Idle
      <3>3. Owned(t)' = None
        BY <3>2 DEF Owned, Returns
      <3>4. \A u \in Threads \ {t} : call'[u] = call[u] /\ held'[u] = held[u]
        BY <3>1, <1>t
      <3> QED BY <1>k, <3>1, <3>2, <3>3, <3>4, SameTokens
    <2>7. ASSUME NEW t \in Threads, AcquireBit(t) PROVE UNCHANGED <<count, owned>>
      <3>1. PICK hint \in 0 .. count - 1 : Acquire(t, 0, count, hint, 0, FALSE)
        BY <2>7 DEF AcquireBit
      <3>2. t \notin using /\ call[t].at = "idle" /\ UNCHANGED <<count, held>>
        BY <2>7, <3>1 DEF AcquireBit, Acquire
      <3>3. Owned(t) = None /\ held[t] = None
        <4>1. Away(t)
          BY <3>2, <2>i DEF Phase, Seeks, Fails, Finds, Has, GivesBack
        <4> QED BY <4>1, <1>t, OwnedFacts DEF Away
      <3>4. ~RefusesHint(hint, count, FALSE)
        BY <1>t, CountFacts DEF RefusesHint
      <3>5. call'[t].at \in {"or", "undo"} /\ \A u \in Threads \ {t} : call'[u] = call[u]
        <4> DEFINE begun == [at |-> "or", on |-> 0, bit |-> hint, bound |-> count, lg2 |-> FALSE]
        <4>1. buffer[0].header = 0
          BY <1>t DEF WordType
        <4>2. call' = [call EXCEPT ![t] = IF Full(count, buffer[0].used)
                                            THEN [begun EXCEPT !.at = "undo", !.bit = -1] ELSE begun]
          BY <3>1, <3>4, <4>1 DEF Acquire, Filled
        <4> QED BY <4>2, <1>t DEF CallType
      <3>6. Owned(t)' = None
        BY <3>2, <3>3, <3>5 DEF Owned, Returns
      <3> QED BY <1>k, <3>2, <3>3, <3>5, <3>6, SameTokens
    <2>8. ASSUME NEW t \in Threads, ReleaseBit(t) PROVE UNCHANGED <<count, owned>>
      <3>1. /\ held[t] # None /\ call[t].at = "idle" /\ UNCHANGED <<count, held>>
            /\ call' = [call EXCEPT ![t] = [Idle EXCEPT !.at = "and", !.on = 0, !.bit = held[t]]]
        BY <2>8, <1>t DEF ReleaseBit, Release, WordType
      <3>2. call'[t].at = "and"
        BY <3>1, <1>t DEF Idle
      <3>3. Owned(t)' = Owned(t)
        BY <3>1, <3>2 DEF Owned
      <3>4. \A u \in Threads \ {t} : call'[u] = call[u]
        BY <3>1, <1>t
      <3> QED BY <1>k, <3>1, <3>3, <3>4, SameTokens
    <2>9. CASE Terminated \/ UNCHANGED vars
      <3>1. UNCHANGED <<call, held, count>>
        BY <2>9 DEF Terminated, vars
      <3> QED BY <1>k, <3>1, SameTokens
    <2>10. ASSUME NEW t \in Threads, AcquireRank(t) \/ ReleaseRank(t) PROVE FALSE
      BY <1>2, <2>10 DEF AcquireRank, ReleaseRank
    <2> QED BY <2>1, <2>2, <2>3, <2>4, <2>5, <2>6, <2>7, <2>8, <2>9, <2>10
            DEF Next, Progress, Use, BitsetStep
  <1> QED BY <1>1, <1>2

\* UniqueToken is a pool of tokens: a token is within 0 .. size() - 1 and has
\* one owner from the end of acquire to the beginning of release
\* (Kokkos_OpenMP_UniqueToken.hpp:62), by rank and by bitset.
THEOREM TokenRefinesPool == Spec => ImplementsTokenPool
  <1>1. Init => Pool!Init
    <2> SUFFICES ASSUME Init PROVE Pool!Init
      OBVIOUS
    <2>1. count \in Nat
      BY CountsAssumption DEF Init
    <2>2. \A t \in Threads : Owned(t) = None
      BY DEF Init, Owned, Returns, Idle
    <2> QED BY <2>1, <2>2 DEF Pool!Init
  <1>2. TokenInv /\ TokenInv' /\ [Next]_vars => [Pool!Next]_(Pool!poolVars)
    BY StepTokenPool
  <1> QED BY TokenInvariant, <1>1, <1>2, PTL DEF Spec, ImplementsTokenPool, Pool!Spec

-----------------------------------------------------------------------------
(***************************************************************************)
(* The lists.  A list is what the links spell from the head, or from the   *)
(* node that the pop that locks it holds, to the end tag.  The inductive   *)
(* invariant, ListInv, says that there is such a path, that it is shared   *)
(* with nobody's nodes, and what each thread in a call has seen.           *)
(***************************************************************************)

\* The sequence s has the nodes from n on, linked by nx up to the end tag, each once.
Path(nx, s, n) ==
    /\ s \in Seq(Nodes)
    /\ \A i \in 1 .. Len(s) : s[i] = IF i = 1 THEN n ELSE nx[s[i - 1]]
    /\ (IF Len(s) = 0 THEN n ELSE nx[s[Len(s)]]) = EndTag
    /\ \A i, j \in 1 .. Len(s) : s[i] = s[j] => i = j

\* Two lists from the same node are the same.
LEMMA ListUnique ==
  ASSUME NEW nx, NEW n, NEW s \in Seq(Nodes), NEW r \in Seq(Nodes),
         List!IsListFrom(n, s, nx), List!IsListFrom(n, r, nx), Len(s) <= Len(r)
  PROVE  s = r
  <1>0. Len(s) \in Nat /\ Len(r) \in Nat
    OBVIOUS
  <1>1. \A i \in 1 .. Len(s) : s[i] = r[i]
    <2> DEFINE D == {i \in 1 .. Len(s) : s[i] # r[i]}
    <2> SUFFICES ASSUME D # {} PROVE FALSE
      OBVIOUS
    <2>1. D \in SUBSET Nat
      OBVIOUS
    <2>2. PICK m \in D : \A k \in D : m <= k
      BY <2>1, LeastNatural
    <2>3. m # 1
      BY <2>2, <1>0 DEF List!IsListFrom
    <2>4. m - 1 \in 1 .. Len(s) /\ m - 1 \notin D
      BY <2>2, <2>3, <1>0
    <2>5. s[m - 1] = r[m - 1]
      BY <2>4
    <2>6. s[m] = nx[s[m - 1]] /\ r[m] = nx[r[m - 1]]
      BY <2>2, <2>3, <1>0 DEF List!IsListFrom
    <2> QED BY <2>2, <2>5, <2>6
  <1>2. Len(s) = Len(r)
    <2> SUFFICES ASSUME Len(s) < Len(r) PROVE FALSE
      BY <1>0
    <2>1. Len(s) + 1 \in 1 .. Len(r)
      BY <1>0
    <2>2. r[Len(s) + 1] \in Nodes
      BY <2>1, ElementOfSeq
    <2>3. CASE Len(s) = 0
      BY <2>1, <2>2, <2>3 DEF List!IsListFrom
    <2>4. CASE Len(s) # 0
      <3>1. r[Len(s) + 1] = nx[r[Len(s)]]
        BY <2>1, <2>4, <1>0 DEF List!IsListFrom
      <3>2. r[Len(s)] = s[Len(s)]
        BY <1>1, <1>0, <2>4
      <3> QED BY <3>1, <3>2, <2>2, <2>4 DEF List!IsListFrom
    <2> QED BY <2>3, <2>4
  <1> QED BY <1>1, <1>2, SeqEqual

\* The lists' module counts as this one does.
LEMMA SameCounting ==
  ASSUME NEW S
  PROVE  (List!IsFiniteSet(S) <=> IsFiniteSet(S)) /\ List!Cardinality(S) = Cardinality(S)
  <1>1. List!IsFiniteSet(S) <=> IsFiniteSet(S)
    BY DEF List!IsFiniteSet, IsFiniteSet
  <1>2. List!Cardinality(S) = Cardinality(S)
    BY DEF List!Cardinality, Cardinality
  <1> QED BY <1>1, <1>2

\* A list with every node once is not longer than there are nodes.
LEMMA PathLength ==
  ASSUME List!TagsDiffer, NEW nx, NEW s, NEW n, Path(nx, s, n)
  PROVE  s \in List!SeqOf(Nodes, Cardinality(Nodes))
  <1>0. s \in Seq(Nodes) /\ Len(s) \in Nat /\ IsFiniteSet(Nodes) /\ Cardinality(Nodes) \in Nat
    BY FS_CardinalityType, SameCounting DEF Path, List!TagsDiffer
  <1>1. s \in [1 .. Len(s) -> Nodes]
    BY <1>0, LenProperties
  <1>2. s \in Injection(1 .. Len(s), Nodes)
    BY <1>0, <1>1 DEF Path, Injection, IsInjective
  <1>3. IsFiniteSet(1 .. Len(s)) /\ Cardinality(1 .. Len(s)) = Len(s)
    <2>1. 1 \in Int /\ Len(s) \in Int
      BY <1>0
    <2>2. /\ IsFiniteSet(1 .. Len(s))
          /\ Cardinality(1 .. Len(s)) = IF 1 > Len(s) THEN 0 ELSE Len(s) - 1 + 1
      BY <2>1, FS_Interval
    <2> QED BY <1>0, <2>2
  <1>4. Len(s) <= Cardinality(Nodes)
    BY <1>0, <1>2, <1>3, FS_Injection DEF ExistsInjection
  <1>5. Len(s) \in 0 .. Cardinality(Nodes)
    BY <1>0, <1>4
  <1> QED BY <1>1, <1>5 DEF List!SeqOf

\* What the code sees as the list from n on.
LEMMA FollowingPath ==
  ASSUME List!TagsDiffer, NEW nx, NEW s, NEW n, Path(nx, s, n)
  PROVE  List!Following(n, nx) = s
  <1> DEFINE r == List!Following(n, nx)
  <1>1. s \in List!SeqOf(Nodes, Cardinality(Nodes)) /\ List!IsListFrom(n, s, nx) /\ s \in Seq(Nodes)
    <2>1. EndTag \notin Nodes
      BY DEF List!TagsDiffer
    <2>2. List!IsListFrom(n, s, nx) /\ s \in Seq(Nodes)
      BY <2>1 DEF Path, List!IsListFrom
    <2> QED BY <2>2, PathLength
  <1>2. r \in List!SeqOf(Nodes, Cardinality(Nodes)) /\ List!IsListFrom(n, r, nx)
    BY <1>1, SameCounting DEF List!Following
  <1>3. r \in Seq(Nodes)
    <2>1. PICK m \in 0 .. Cardinality(Nodes) : r \in [1 .. m -> Nodes]
      BY <1>2 DEF List!SeqOf
    <2>2. m \in Nat
      BY <2>1, FS_CardinalityType, SameCounting DEF List!TagsDiffer
    <2> QED BY <2>1, <2>2, IsASeq
  <1> HIDE DEF r
  <1>4. Len(s) <= Len(r) \/ Len(r) <= Len(s)
    BY <1>1, <1>3
  <1>5. r = s
    BY <1>1, <1>2, <1>3, <1>4, ListUnique
  <1> QED BY <1>5 DEF r

\* Links of other nodes do not matter.
LEMMA PathKept ==
  ASSUME NEW nx, NEW ny, NEW s, NEW n, Path(nx, s, n),
         \A i \in 1 .. Len(s) : ny[s[i]] = nx[s[i]]
  PROVE  Path(ny, s, n)
  <1>1. s \in Seq(Nodes) /\ Len(s) \in Nat
    BY DEF Path
  <1> QED BY <1>1 DEF Path

LEMMA PathEmpty ==
  ASSUME NEW nx
  PROVE  Path(nx, <<>>, EndTag)
  BY DEF Path

\* A node in front of a list.
LEMMA PathCons ==
  ASSUME NEW nx, NEW s, NEW m \in Nodes, Path(nx, s, nx[m]), \A i \in 1 .. Len(s) : s[i] # m
  PROVE  Path(nx, <<m>> \o s, m)
  <1> DEFINE r == <<m>> \o s
  <1>1. s \in Seq(Nodes) /\ Len(s) \in Nat /\ <<m>> \in Seq(Nodes) /\ Len(<<m>>) = 1
    BY DEF Path
  <1>2. r \in Seq(Nodes) /\ Len(r) = Len(s) + 1 /\ r[1] = m
    BY <1>1
  <1>3. \A i \in 2 .. Len(r) : r[i] = s[i - 1]
    BY <1>1, <1>2
  <1> HIDE DEF r
  <1>4. ASSUME NEW i \in 1 .. Len(r) PROVE r[i] = IF i = 1 THEN m ELSE nx[r[i - 1]]
    <2>1. CASE i = 1
      BY <2>1, <1>2
    <2>2. CASE i = 2
      <3>1. 1 \in 1 .. Len(s) /\ r[2] = s[1]
        BY <2>2, <1>1, <1>2, <1>3
      <3> QED BY <3>1, <2>2, <1>2 DEF Path
    <2>3. CASE i > 2
      <3>1. i - 1 \in 1 .. Len(s) /\ i - 1 # 1 /\ i - 1 \in 2 .. Len(r) /\ i \in 2 .. Len(r)
        BY <2>3, <1>1, <1>2
      <3>2. r[i] = s[i - 1] /\ r[i - 1] = s[(i - 1) - 1]
        BY <3>1, <1>3
      <3>3. s[i - 1] = nx[s[(i - 1) - 1]]
        BY <3>1 DEF Path
      <3> QED BY <3>1, <3>2, <3>3
    <2> QED BY <2>1, <2>2, <2>3, <1>1, <1>2
  <1>5. nx[r[Len(r)]] = EndTag
    <2>1. CASE Len(s) = 0
      BY <2>1, <1>2 DEF Path
    <2>2. CASE Len(s) # 0
      <3>1. Len(r) \in 2 .. Len(r) /\ r[Len(r)] = s[Len(s)]
        BY <2>2, <1>1, <1>2, <1>3
      <3> QED BY <3>1, <2>2 DEF Path
    <2> QED BY <2>1, <2>2
  <1>6. \A i, j \in 1 .. Len(r) : r[i] = r[j] => i = j
    <2> SUFFICES ASSUME NEW i \in 1 .. Len(r), NEW j \in 1 .. Len(r), r[i] = r[j], i < j PROVE FALSE
      BY <1>1, <1>2
    <2>1. j \in 2 .. Len(r) /\ j - 1 \in 1 .. Len(s)
      BY <1>1, <1>2
    <2>2. i # 1
      BY <2>1, <1>2, <1>3
    <2>3. i \in 2 .. Len(r) /\ i - 1 \in 1 .. Len(s)
      BY <2>2, <1>1, <1>2
    <2>4. s[i - 1] = s[j - 1] /\ i - 1 # j - 1
      BY <2>1, <2>3, <1>3
    <2> QED BY <2>1, <2>3, <2>4 DEF Path
  <1>7. Path(nx, r, m)
    BY <1>1, <1>2, <1>4, <1>5, <1>6 DEF Path
  <1> QED BY <1>7 DEF r

\* What is behind the first node.
LEMMA PathTail ==
  ASSUME List!TagsDiffer, NEW nx, NEW s, NEW m \in Nodes, Path(nx, s, m)
  PROVE  /\ s # <<>> /\ Head(s) = m
         /\ Path(nx, Tail(s), nx[m])
         /\ \A i \in 1 .. Len(Tail(s)) : Tail(s)[i] # m
         /\ Len(Tail(s)) \in Nat /\ Len(s) = Len(Tail(s)) + 1
         /\ \A i \in 1 .. Len(Tail(s)) : i + 1 \in 1 .. Len(s) /\ Tail(s)[i] = s[i + 1]
  <1>1. s \in Seq(Nodes) /\ Len(s) \in Nat
    BY DEF Path
  <1>2. Len(s) # 0
    BY DEF Path, List!TagsDiffer
  <1>3. s # <<>> /\ Head(s) = m
    BY <1>1, <1>2 DEF Path
  <1> DEFINE r == Tail(s)
  <1>4. r \in Seq(Nodes) /\ Len(r) = Len(s) - 1 /\ \A i \in 1 .. Len(r) : r[i] = s[i + 1]
    BY <1>1, <1>3, HeadTailProperties
  <1>5. s[1] = m
    BY <1>1, <1>2 DEF Path
  <1> HIDE DEF r
  <1>6. \A i \in 1 .. Len(r) : i + 1 \in 1 .. Len(s) /\ i + 1 # 1
    BY <1>1, <1>2, <1>4
  <1>7. \A i \in 1 .. Len(r) : r[i] = IF i = 1 THEN nx[m] ELSE nx[r[i - 1]]
    <2> TAKE i \in 1 .. Len(r)
    <2>1. r[i] = s[i + 1] /\ s[i + 1] = nx[s[(i + 1) - 1]]
      BY <1>4, <1>6 DEF Path
    <2>2. CASE i = 1
      BY <2>1, <2>2, <1>5
    <2>3. CASE i # 1
      <3>1. i - 1 \in 1 .. Len(r)
        BY <2>3, <1>1, <1>4
      <3>2. r[i - 1] = s[(i - 1) + 1]
        BY <3>1, <1>4
      <3> QED BY <2>1, <2>3, <3>1, <3>2
    <2> QED BY <2>2, <2>3
  <1>8. (IF Len(r) = 0 THEN nx[m] ELSE nx[r[Len(r)]]) = EndTag
    <2>1. nx[s[Len(s)]] = EndTag
      BY <1>2 DEF Path
    <2>2. CASE Len(r) = 0
      <3>1. Len(s) = 1
        BY <2>2, <1>1, <1>4
      <3> QED BY <3>1, <2>1, <2>2, <1>5
    <2>3. CASE Len(r) # 0
      <3>1. r[Len(r)] = s[Len(s)]
        BY <2>3, <1>1, <1>4
      <3> QED BY <2>1, <2>3, <3>1
    <2> QED BY <2>2, <2>3
  <1>9. \A i, j \in 1 .. Len(r) : r[i] = r[j] => i = j
    <2> TAKE i, j \in 1 .. Len(r)
    <2> HAVE r[i] = r[j]
    <2>1. s[i + 1] = s[j + 1] /\ i + 1 \in 1 .. Len(s) /\ j + 1 \in 1 .. Len(s)
      BY <1>4, <1>6
    <2>2. i + 1 = j + 1
      BY <2>1 DEF Path
    <2> QED BY <2>2
  <1>10. \A i \in 1 .. Len(r) : r[i] # m
    <2> TAKE i \in 1 .. Len(r)
    <2>1. r[i] = s[i + 1] /\ i + 1 \in 1 .. Len(s) /\ 1 \in 1 .. Len(s) /\ i + 1 # 1
      BY <1>4, <1>6, <1>1, <1>2
    <2>2. s[i + 1] # s[1]
      BY <2>1 DEF Path
    <2> QED BY <2>1, <2>2, <1>5
  <1>11. Path(nx, r, nx[m])
    BY <1>4, <1>7, <1>8, <1>9 DEF Path
  <1>12. Len(r) \in Nat /\ Len(s) = Len(r) + 1
    BY <1>1, <1>2, <1>4
  <1> QED BY <1>3, <1>4, <1>6, <1>10, <1>11, <1>12 DEF r

-----------------------------------------------------------------------------
Places == {"idle", "head", "exchange", "look", "lock", "unlock", "visit"}
Calls ==
    [op : {"none", "push", "try_push", "pop", "steal", "consume"}, at : Places,
     node : Nodes \cup {EndTag, NotEnqueued}, seen : Nodes \cup {EndTag, NotEnqueued}]

Typed ==
    /\ kind \in {"ready", "wait"}
    /\ m_head \in Nodes \cup {LockTag, EndTag}
    /\ link \in [Nodes -> Nodes \cup {EndTag, NotEnqueued}]
    /\ owns \in [Workers -> SUBSET Nodes]
    /\ visit \in [Workers -> Calls]

\* What t knows where it is: the node that it pushes is its own and linked to the
\* head that it has seen; who unlocks or visits has found the list unlocked.
Located(t) ==
    /\ visit[t].at \in {"head", "exchange"} => visit[t].node \in owns[t]
    /\ List!At(t, "exchange") => link[visit[t].node] = visit[t].seen /\ visit[t].seen # NotEnqueued
    /\ List!At(t, "lock") => visit[t].node # EndTag
    /\ visit[t].at \in {"look", "lock", "unlock"} => kind = "ready"
    /\ List!At(t, "unlock") => m_head = LockTag /\ visit[t].node \in Nodes
    /\ List!At(t, "visit") => kind = "wait" /\ m_head = LockTag /\ visit[t].node # NotEnqueued

\* One thread has the list to itself.
Alone ==
    \A t, u \in Workers :
        visit[t].at \in {"unlock", "visit"} /\ visit[u].at \in {"unlock", "visit"} => t = u

Own(t) == owns[t] \cup List!Popped(t)

\* A node is in the list, once, or belongs to one thread.
OwnedNodes == \A t, u \in Workers : t # u => Own(t) \cap Own(u) = {}

Outside(s) == \A i \in 1 .. Len(s) : \A t \in Workers : s[i] \notin Own(t)

Listed == \E s : Path(link, s, List!Start) /\ Outside(s)

ListInv == Typed /\ (\A t \in Workers : Located(t)) /\ Alone /\ OwnedNodes /\ Listed

-----------------------------------------------------------------------------
\* Where the list starts.
LEMMA StartOpen ==
  ASSUME m_head # LockTag
  PROVE  List!Start = m_head
  BY DEF List!Start

LEMMA StartLocked ==
  ASSUME Alone, m_head = LockTag, NEW t \in Workers, List!At(t, "unlock")
  PROVE  List!Start = link[visit[t].node]
  <1>1. (CHOOSE u \in Workers : List!At(u, "unlock")) = t
    BY DEF Alone, List!At
  <1> QED BY <1>1 DEF List!Start

LEMMA StartConsumed ==
  ASSUME Alone, m_head = LockTag, NEW t \in Workers, List!At(t, "visit")
  PROVE  List!Start = visit[t].node
  <1>1. (CHOOSE u \in Workers : List!At(u, "visit")) = t
    BY DEF Alone, List!At
  <1>2. ~ \E u \in Workers : List!At(u, "unlock")
    BY DEF Alone, List!At
  <1> QED BY <1>1, <1>2 DEF List!Start

LEMMA StartOver ==
  ASSUME m_head = LockTag, \A t \in Workers : visit[t].at \notin {"unlock", "visit"}
  PROVE  List!Start = EndTag
  BY DEF List!Start, List!At

\* A step that leaves the head and whoever has the list alone.
LEMMA StartKept ==
  ASSUME Alone, m_head' = m_head,
         \A u \in Workers :
            /\ visit[u].at \in {"unlock", "visit"} => visit'[u].at = visit[u].at /\ visit'[u].node = visit[u].node
            /\ visit'[u].at \in {"unlock", "visit"} => visit'[u].at = visit[u].at
            /\ List!At(u, "unlock") => link'[visit[u].node] = link[visit[u].node]
  PROVE  List!Start' = List!Start /\ Alone'
  <1>1. Alone'
    BY DEF Alone
  <1>2. CASE m_head # LockTag
    BY <1>1, <1>2 DEF List!Start
  <1>3. CASE m_head = LockTag /\ \E u \in Workers : List!At(u, "unlock")
    <2>1. PICK u \in Workers : List!At(u, "unlock")
      BY <1>3
    <2>2. List!At(u, "unlock")'
      BY <2>1 DEF List!At
    <2>3. List!Start = link[visit[u].node]
      BY <1>3, <2>1, StartLocked
    <2>4. (CHOOSE v \in Workers : List!At(v, "unlock")') = u
      BY <1>1, <2>2 DEF Alone, List!At
    <2>5. List!Start' = link'[visit'[u].node]
      BY <1>3, <2>2, <2>4 DEF List!Start
    <2> QED BY <1>1, <2>1, <2>3, <2>5 DEF List!At
  <1>4. CASE m_head = LockTag /\ \E u \in Workers : List!At(u, "visit")
    <2>1. PICK u \in Workers : List!At(u, "visit")
      BY <1>4
    <2>2. List!At(u, "visit")'
      BY <2>1 DEF List!At
    <2>3. List!Start = visit[u].node
      BY <1>4, <2>1, StartConsumed
    <2>4. (CHOOSE v \in Workers : List!At(v, "visit")') = u
      BY <1>1, <2>2 DEF Alone, List!At
    <2>5. ~ \E v \in Workers : List!At(v, "unlock")'
      BY <1>1, <2>2 DEF Alone, List!At
    <2>6. List!Start' = visit'[u].node
      BY <1>4, <2>2, <2>4, <2>5 DEF List!Start
    <2> QED BY <1>1, <2>1, <2>3, <2>6 DEF List!At
  <1>5. CASE m_head = LockTag /\ \A u \in Workers : visit[u].at \notin {"unlock", "visit"}
    BY <1>1, <1>5 DEF List!Start, List!At
  <1> QED BY <1>2, <1>3, <1>4, <1>5 DEF List!At

-----------------------------------------------------------------------------
absHeld == [t \in Workers |-> owns[t] \cup List!Popped(t)]
absClosed == kind = "wait" /\ m_head = LockTag
absVars == <<List!Contents, absHeld, absClosed>>

LEMMA InitInv ==
  ASSUME List!TagsDiffer, List!Init
  PROVE  ListInv /\ List!List!Init
  <1>1. PICK home \in [Nodes -> Workers] :
            owns = [t \in Workers |-> {n \in Nodes : home[n] = t}]
    BY DEF List!Init
  <1>2. Typed /\ \A t \in Workers : Located(t)
    BY <1>1 DEF List!Init, Typed, Located, Calls, Places, List!Idle, List!At
  <1>3. Alone
    BY DEF List!Init, Alone, List!Idle
  <1>4. \A t \in Workers : List!Popped(t) = {}
    BY DEF List!Init, List!Popped, List!At, List!Idle
  <1>5. OwnedNodes
    BY <1>1, <1>4 DEF OwnedNodes, Own
  <1>6. List!Start = EndTag
    BY DEF List!Init, List!Start, List!TagsDiffer
  <1>7. Path(link, <<>>, List!Start)
    BY <1>6, PathEmpty
  <1>8. Listed
    BY <1>7 DEF Listed, Outside
  <1>9. List!Contents = <<>>
    BY <1>7, FollowingPath DEF List!Contents
  <1>10. absHeld \in [Workers -> SUBSET Nodes] /\ absClosed = FALSE
    BY <1>2, <1>4 DEF absHeld, absClosed, List!Init, Typed, List!TagsDiffer
  <1>11. \A t, u \in Workers : t # u => absHeld[t] \cap absHeld[u] = {}
    BY <1>5 DEF OwnedNodes, Own, absHeld
  <1> QED BY <1>2, <1>3, <1>5, <1>8, <1>9, <1>10, <1>11
          DEF ListInv, List!List!Init, absHeld, absClosed

\* A step that changes neither the list nor the owner of a node.
LEMMA Stutters ==
  ASSUME List!TagsDiffer, ListInv, kind' = kind, m_head' = LockTag <=> m_head = LockTag,
         List!Start' = List!Start, \A t \in Workers : Own(t)' = Own(t),
         \A n \in Nodes : link'[n] # link[n] => \E t \in Workers : n \in Own(t)
  PROVE  Listed' /\ OwnedNodes' /\ absVars' = absVars
  <1>1. PICK s : Path(link, s, List!Start) /\ Outside(s)
    BY DEF ListInv, Listed
  <1>2. s \in Seq(Nodes) /\ Len(s) \in Nat
    BY <1>1 DEF Path
  <1>3. \A i \in 1 .. Len(s) : link'[s[i]] = link[s[i]]
    BY <1>1, <1>2, ElementOfSeq DEF Outside
  <1>4. Path(link', s, List!Start')
    BY <1>1, <1>3, PathKept
  <1>5. Outside(s)'
    BY <1>1 DEF Outside
  <1>6. OwnedNodes'
    BY DEF ListInv, OwnedNodes
  <1>7. List!Contents = s
    BY <1>1, FollowingPath DEF List!Contents
  <1>8. List!Contents' = s
    BY <1>4, FollowingPath DEF List!Contents
  <1>9. absHeld' = absHeld /\ absClosed' = absClosed
    BY DEF absHeld, absClosed, Own
  <1> QED BY <1>4, <1>5, <1>6, <1>7, <1>8, <1>9 DEF Listed, absVars

\* What t does, the other threads do not notice.
LEMMA OthersLocated ==
  ASSUME ListInv, NEW t \in Workers, kind' = kind,
         \A u \in Workers \ {t} :
            /\ visit'[u] = visit[u] /\ owns'[u] = owns[u]
            /\ visit[u].at \in {"unlock", "visit"} => m_head' = LockTag,
         \A u \in Workers \ {t} : \A n \in Own(u) : link'[n] = link[n]
  PROVE  \A u \in Workers \ {t} : Located(u)' /\ Own(u)' = Own(u)
  <1> TAKE u \in Workers \ {t}
  <1>1. Located(u) /\ visit'[u] = visit[u] /\ owns'[u] = owns[u]
    BY DEF ListInv
  <1>2. Own(u)' = Own(u)
    BY <1>1 DEF Own, List!Popped, List!At
  <1>3. List!At(u, "exchange") => link'[visit[u].node] = link[visit[u].node]
    BY <1>1 DEF Located, Own, List!At
  <1> QED BY <1>1, <1>2, <1>3 DEF Located, List!At

\* The step of t is quiet: nothing moves, t is where it may be.
LEMMA QuietListStep ==
  ASSUME List!TagsDiffer, ListInv, NEW t \in Workers, UNCHANGED <<kind, m_head, owns>>,
         Typed', Located(t)',
         \A u \in Workers \ {t} : visit'[u] = visit[u],
         visit[t].at \notin {"unlock", "visit"}, visit'[t].at \notin {"unlock", "visit"},
         \A n \in Nodes : link'[n] # link[n] => n \in owns[t]
  PROVE  ListInv' /\ absVars' = absVars
  <1>1. \A u \in Workers \ {t} : \A n \in Own(u) : n \in Nodes /\ n \notin owns[t]
    BY DEF ListInv, Typed, Calls, Located, OwnedNodes, Own, List!Popped, List!At
  <1>2. \A u \in Workers \ {t} : visit[u].at \in {"unlock", "visit"} => m_head' = LockTag
    BY DEF ListInv, Located, List!At
  <1>3. \A u \in Workers \ {t} : Located(u)' /\ Own(u)' = Own(u)
    BY <1>1, <1>2, OthersLocated
  <1>4. Own(t)' = Own(t)
    BY DEF Own, List!Popped, List!At
  <1>5. \A u \in Workers : List!At(u, "unlock") => link'[visit[u].node] = link[visit[u].node]
    <2> SUFFICES ASSUME NEW u \in Workers, List!At(u, "unlock")
                 PROVE  link'[visit[u].node] = link[visit[u].node]
      OBVIOUS
    <2>1. u # t /\ visit[u].node \in Own(u)
      BY DEF List!At, Own, List!Popped
    <2> QED BY <2>1, <1>1
  <1>6. List!Start' = List!Start /\ Alone'
    <2>1. Alone /\ m_head' = m_head
      BY DEF ListInv
    <2>2. \A u \in Workers :
            /\ visit[u].at \in {"unlock", "visit"} =>
                 visit'[u].at = visit[u].at /\ visit'[u].node = visit[u].node
            /\ visit'[u].at \in {"unlock", "visit"} => visit'[u].at = visit[u].at
      OBVIOUS
    <2> QED BY <2>1, <2>2, <1>5, StartKept
  <1>7. \A n \in Nodes : link'[n] # link[n] => \E u \in Workers : n \in Own(u)
    BY DEF Own
  <1>8. \A u \in Workers : Own(u)' = Own(u)
    BY <1>3, <1>4
  <1>9. Listed' /\ OwnedNodes' /\ absVars' = absVars
    BY <1>6, <1>7, <1>8, Stutters
  <1>10. \A u \in Workers : Located(u)'
    BY <1>3
  <1> QED BY <1>6, <1>9, <1>10 DEF ListInv

LEMMA BeginInv ==
  ASSUME List!TagsDiffer, ListInv, NEW t \in Workers,
         NEW op \in {"push", "try_push", "pop", "steal"}, NEW at \in {"head", "look"},
         NEW n \in Nodes \cup {NotEnqueued},
         at = "head" => n \in owns[t], at = "look" => kind = "ready", List!Begin(t, op, at, n)
  PROVE  ListInv' /\ absVars' = absVars
  <1> USE DEF List!Begin
  <1>1. Typed'
    BY DEF ListInv, Typed, Calls, Places
  <1>2. visit'[t].at = at /\ visit'[t].node = n
    BY DEF ListInv, Typed
  <1>3. Located(t)'
    BY <1>2 DEF Located, List!At
  <1>4. visit[t].at \notin {"unlock", "visit"} /\ visit'[t].at \notin {"unlock", "visit"}
    BY <1>2 DEF List!At
  <1>5. \A u \in Workers \ {t} : visit'[u] = visit[u]
    BY DEF ListInv, Typed
  <1> QED BY <1>1, <1>3, <1>4, <1>5, QuietListStep

LEMMA LinkInv ==
  ASSUME List!TagsDiffer, ListInv, NEW t \in Workers, visit[t].at \in {"head", "exchange"}, List!Link(t),
         UNCHANGED <<kind, m_head, owns>>
  PROVE  ListInv' /\ absVars' = absVars
  <1> DEFINE n == visit[t].node
  <1>1. n \in owns[t] /\ n \in Nodes /\ visit[t] \in Calls
    BY DEF ListInv, Located, Typed
  <1>2. \A u \in Workers \ {t} : visit'[u] = visit[u]
    BY DEF ListInv, Typed, List!Link
  <1>3. \A m \in Nodes : link'[m] # link[m] => m \in owns[t]
    BY <1>1 DEF ListInv, Typed, List!Link
  <1>4. CASE m_head # LockTag
    <2>1. visit'[t] = [visit[t] EXCEPT !.at = "exchange", !.seen = m_head] /\ link' = [link EXCEPT ![n] = m_head]
      BY <1>4 DEF ListInv, Typed, List!Link
    <2>2. m_head \in Nodes \cup {EndTag}
      BY <1>4 DEF ListInv, Typed
    <2>3. visit'[t] \in Calls /\ visit'[t].at = "exchange" /\ visit'[t].seen = m_head /\ visit'[t].node = n
      BY <2>1, <2>2, <1>1 DEF Calls, Places
    <2>4. Typed'
      BY <2>1, <2>2, <2>3, <1>1, <1>2, <1>4 DEF ListInv, Typed, List!Link
    <2>5. link'[n] = m_head
      BY <2>1, <1>1 DEF ListInv, Typed
    <2>6. Located(t)'
      BY <2>2, <2>3, <2>5, <1>1 DEF Located, List!At, List!TagsDiffer
    <2> QED BY <2>3, <2>4, <2>6, <1>2, <1>3, QuietListStep
  <1>5. CASE m_head = LockTag
    <2>1. /\ visit'[t] = IF visit[t].op = "push" THEN [visit[t] EXCEPT !.at = "head"] ELSE List!Idle
          /\ link' = [link EXCEPT ![n] = NotEnqueued]
      BY <1>5 DEF ListInv, Typed, List!Link
    <2>2. visit'[t] \in Calls
      BY <2>1, <1>1 DEF Calls, Places, List!Idle
    <2>3. visit'[t].at = "idle" \/ (visit'[t].at = "head" /\ visit'[t].node = n)
      BY <2>1, <1>1 DEF Calls, List!Idle
    <2>4. Typed'
      BY <2>1, <2>2, <1>1, <1>2, <1>5 DEF ListInv, Typed, List!Link
    <2>5. Located(t)'
      BY <2>3, <1>1 DEF Located, List!At
    <2> QED BY <2>3, <2>4, <2>5, <1>2, <1>3, QuietListStep
  <1> QED BY <1>4, <1>5

LEMMA InspectInv ==
  ASSUME List!TagsDiffer, ListInv, NEW t \in Workers, visit[t].at \in {"look", "lock"}, List!Inspect(t),
         UNCHANGED <<kind, m_head, link, owns>>
  PROVE  ListInv' /\ absVars' = absVars
  <1>1. visit[t] \in Calls /\ kind = "ready"
    BY DEF ListInv, Located, Typed
  <1>2. \A u \in Workers \ {t} : visit'[u] = visit[u]
    BY DEF ListInv, Typed, List!Inspect
  <1>3. visit'[t] = IF m_head = EndTag \/ (m_head = LockTag /\ visit[t].op = "steal") THEN List!Idle
                   ELSE [visit[t] EXCEPT !.at = "lock",
                            !.node = IF m_head = LockTag THEN NotEnqueued ELSE m_head]
    BY DEF ListInv, Typed, List!Inspect
  <1>4. /\ visit'[t] \in Calls
        /\ \/ visit'[t].at = "idle"
           \/ visit'[t].at = "lock" /\ visit'[t].node # EndTag
    <2>1. CASE m_head = EndTag \/ (m_head = LockTag /\ visit[t].op = "steal")
      BY <2>1, <1>3 DEF Calls, Places, List!Idle
    <2>2. CASE ~(m_head = EndTag \/ (m_head = LockTag /\ visit[t].op = "steal"))
      <3> DEFINE n == IF m_head = LockTag THEN NotEnqueued ELSE m_head
      <3>1. n \in Nodes \cup {NotEnqueued} /\ n # EndTag
        BY <2>2 DEF ListInv, Typed, List!TagsDiffer
      <3>2. visit'[t] = [visit[t] EXCEPT !.at = "lock", !.node = n]
        BY <2>2, <1>3
      <3> HIDE DEF n
      <3> QED BY <3>1, <3>2, <1>1 DEF Calls, Places
    <2> QED BY <2>1, <2>2
  <1>5. Typed'
    BY <1>2, <1>4 DEF ListInv, Typed, List!Inspect
  <1>6. Located(t)'
    BY <1>1, <1>4 DEF Located, List!At
  <1> QED BY <1>2, <1>4, <1>5, <1>6, QuietListStep

\* The push that wins the exchange.
LEMMA PushInv ==
  ASSUME List!TagsDiffer, ListInv, NEW t \in Workers, List!PushExchanges(t), m_head = visit[t].seen
  PROVE  ListInv' /\ \E n \in Nodes : List!List!Push(t, n)
  <1>0. PICK n : n = visit[t].node
    OBVIOUS
  <1>1. /\ List!At(t, "exchange") /\ m_head' = n /\ owns' = [owns EXCEPT ![t] = @ \ {n}]
        /\ visit' = [visit EXCEPT ![t] = List!Idle] /\ link' = link /\ kind' = kind
    BY <1>0 DEF List!PushExchanges, List!Return
  <1>2. n \in owns[t] /\ n \in Nodes /\ link[n] = m_head /\ m_head \in Nodes \cup {EndTag}
    BY <1>0, <1>1 DEF ListInv, Located, Typed, Calls, List!At
  <1>3. m_head # LockTag /\ m_head' # LockTag
    BY <1>1, <1>2 DEF List!TagsDiffer
  <1>4. PICK s : Path(link, s, List!Start) /\ Outside(s)
    BY DEF ListInv, Listed
  <1>5. List!Start = m_head /\ List!Start' = n
    BY <1>1, <1>3 DEF List!Start
  <1>6. \A i \in 1 .. Len(s) : s[i] # n
    BY <1>2, <1>4 DEF Outside, Own
  <1>7. Path(link', <<n>> \o s, List!Start')
    BY <1>1, <1>2, <1>4, <1>5, <1>6, PathCons
  <1>8. /\ \A u \in Workers \ {t} : visit'[u] = visit[u] /\ owns'[u] = owns[u]
        /\ visit'[t] = List!Idle /\ owns'[t] = owns[t] \ {n}
    BY <1>1 DEF ListInv, Typed
  <1>9. \A u \in Workers : visit[u].at \notin {"unlock", "visit"}
    BY <1>3 DEF ListInv, Located, List!At
  <1>10. \A u \in Workers \ {t} : Located(u)' /\ Own(u)' = Own(u)
    BY <1>1, <1>8, <1>9, OthersLocated
  <1>11. Own(t)' = Own(t) \ {n}
    BY <1>8, <1>9 DEF Own, List!Popped, List!At, List!Idle
  <1>12. Located(t)'
    BY <1>8 DEF Located, List!At, List!Idle
  <1>13. Typed'
    BY <1>1, <1>2 DEF ListInv, Typed, Calls, Places, List!Idle
  <1>14. Alone'
    BY <1>8, <1>9 DEF Alone, List!Idle
  <1>15. OwnedNodes'
    BY <1>10, <1>11 DEF ListInv, OwnedNodes
  <1>16. Outside(<<n>> \o s)'
    <2>1. s \in Seq(Nodes) /\ Len(s) \in Nat /\ <<n>> \in Seq(Nodes) /\ Len(<<n>>) = 1
      BY <1>2, <1>4 DEF Path
    <2>2. ASSUME NEW i \in 1 .. Len(<<n>> \o s), NEW u \in Workers
          PROVE  (<<n>> \o s)[i] \notin Own(u)'
      <3>1. CASE i = 1
        <4>1. (<<n>> \o s)[i] = n
          BY <2>1, <3>1
        <4>2. u # t => n \notin Own(u)
          BY <1>2 DEF ListInv, OwnedNodes, Own
        <4> QED BY <4>1, <4>2, <1>10, <1>11
      <3>2. CASE i # 1
        <4>1. (<<n>> \o s)[i] = s[i - 1] /\ i - 1 \in 1 .. Len(s)
          BY <2>1, <3>2
        <4>2. s[i - 1] \notin Own(u)
          BY <4>1, <1>4 DEF Outside
        <4> QED BY <4>1, <4>2, <1>10, <1>11
      <3> QED BY <3>1, <3>2
    <2> QED BY <2>2 DEF Outside
  <1>17. List!Contents = s /\ List!Contents' = <<n>> \o List!Contents
    BY <1>4, <1>7, FollowingPath DEF List!Contents
  <1>18. absHeld' = [absHeld EXCEPT ![t] = @ \ {n}] /\ n \in absHeld[t]
    BY <1>2, <1>10, <1>11 DEF absHeld, Own
  <1>19. absClosed = FALSE /\ absClosed' = FALSE
    BY <1>3 DEF absClosed
  <1>20. Listed'
    BY <1>7, <1>16 DEF Listed
  <1>21. \A u \in Workers : Located(u)'
    BY <1>10, <1>12
  <1>22. List!List!Push(t, n)
    BY <1>17, <1>18, <1>19 DEF List!List!Push, absHeld, absClosed
  <1> QED BY <1>2, <1>13, <1>14, <1>15, <1>20, <1>21, <1>22 DEF ListInv

\* The pop that locks the list has taken its first node.
LEMMA LockInv ==
  ASSUME List!TagsDiffer, ListInv, NEW t \in Workers, List!PopLocks(t), m_head = visit[t].node
  PROVE  ListInv' /\ List!List!Pop(t)
  <1>0. PICK n : n = visit[t].node
    OBVIOUS
  <1>1. /\ List!At(t, "lock") /\ m_head' = LockTag /\ visit' = [visit EXCEPT ![t].at = "unlock"]
        /\ UNCHANGED <<kind, link, owns>>
    BY DEF List!PopLocks
  <1>2. n \in Nodes /\ m_head = n /\ kind = "ready" /\ visit[t] \in Calls /\ m_head # LockTag
    BY <1>0, <1>1 DEF ListInv, Located, Typed, Calls, List!At, List!TagsDiffer
  <1>3. PICK s : Path(link, s, List!Start) /\ Outside(s)
    BY DEF ListInv, Listed
  <1>4. List!Start = n
    BY <1>2 DEF List!Start
  <1>5. /\ s # <<>> /\ Head(s) = n /\ Path(link, Tail(s), link[n])
        /\ Len(Tail(s)) \in Nat /\ Len(s) = Len(Tail(s)) + 1
        /\ \A i \in 1 .. Len(Tail(s)) :
             Tail(s)[i] # n /\ i + 1 \in 1 .. Len(s) /\ Tail(s)[i] = s[i + 1]
    BY <1>2, <1>3, <1>4, PathTail
  <1>6. /\ \A u \in Workers \ {t} : visit'[u] = visit[u]
        /\ visit'[t] \in Calls /\ visit'[t].at = "unlock" /\ visit'[t].node = n
    BY <1>0, <1>1, <1>2 DEF ListInv, Typed, Calls, Places
  <1>7. \A u \in Workers : visit[u].at \notin {"unlock", "visit"}
    BY <1>2 DEF ListInv, Located, List!At
  <1>8. \A u \in Workers \ {t} : Located(u)' /\ Own(u)' = Own(u)
    BY <1>1, <1>6, <1>7, OthersLocated
  <1>9. Own(t)' = Own(t) \cup {n}
    BY <1>1, <1>6, <1>7 DEF Own, List!Popped, List!At
  <1>10. Located(t)'
    BY <1>1, <1>2, <1>6 DEF Located, List!At
  <1>11. Typed'
    BY <1>1, <1>6 DEF ListInv, Typed
  <1>12. Alone'
    BY <1>6, <1>7 DEF Alone
  <1>13. 1 \in 1 .. Len(s) /\ s[1] = n
    BY <1>3, <1>4, <1>5 DEF Path
  <1>14. \A u \in Workers : n \notin Own(u)
    BY <1>3, <1>13 DEF Outside
  <1>15. OwnedNodes'
    BY <1>8, <1>9, <1>14 DEF ListInv, OwnedNodes
  <1>16. List!Start' = link[n]
    <2>1. (CHOOSE u \in Workers : List!At(u, "unlock")') = t
      BY <1>6, <1>7 DEF List!At
    <2>2. List!At(t, "unlock")'
      BY <1>6 DEF List!At
    <2> QED BY <1>1, <1>6, <2>1, <2>2 DEF List!Start
  <1>17. Path(link', Tail(s), List!Start')
    BY <1>1, <1>5, <1>16
  <1>18. \A i \in 1 .. Len(Tail(s)) : \A u \in Workers : Tail(s)[i] \notin Own(u)'
    BY <1>3, <1>5, <1>8, <1>9 DEF Outside
  <1>19. Listed'
    BY <1>17, <1>18 DEF Listed, Outside
  <1>20. List!Contents = s /\ List!Contents' = Tail(s)
    BY <1>3, <1>17, FollowingPath DEF List!Contents
  <1>21. absHeld' = [absHeld EXCEPT ![t] = @ \cup {n}]
    BY <1>8, <1>9 DEF absHeld, Own
  <1>22. absClosed = FALSE /\ absClosed' = FALSE
    BY <1>1, <1>2 DEF absClosed
  <1>23. \A u \in Workers : Located(u)'
    BY <1>8, <1>10
  <1>24. List!List!Pop(t)
    BY <1>5, <1>20, <1>21, <1>22 DEF List!List!Pop, absHeld, absClosed
  <1> QED BY <1>11, <1>12, <1>15, <1>19, <1>23, <1>24 DEF ListInv

\* The lock is released with the rest of the list.
LEMMA UnlockInv ==
  ASSUME List!TagsDiffer, ListInv, NEW t \in Workers, List!PopUnlocks(t)
  PROVE  ListInv' /\ absVars' = absVars
  <1>0. PICK n : n = visit[t].node
    OBVIOUS
  <1>1. /\ List!At(t, "unlock") /\ m_head' = link[n] /\ link' = [link EXCEPT ![n] = NotEnqueued]
        /\ owns' = [owns EXCEPT ![t] = @ \cup {n}] /\ visit' = [visit EXCEPT ![t] = List!Idle] /\ kind' = kind
    BY <1>0 DEF List!PopUnlocks, List!Return
  <1>2. n \in Nodes /\ m_head = LockTag /\ kind = "ready"
    BY <1>0, <1>1 DEF ListInv, Located, List!At
  <1>3. PICK s : Path(link, s, List!Start) /\ Outside(s)
    BY DEF ListInv, Listed
  <1>4. List!Start = link[n]
    BY <1>0, <1>1, <1>2, StartLocked DEF ListInv
  <1>5. link[n] \in Nodes \cup {EndTag}
    <2>1. s \in Seq(Nodes) /\ Len(s) \in Nat
      BY <1>3 DEF Path
    <2>2. CASE Len(s) = 0
      BY <2>2, <1>3, <1>4 DEF Path
    <2>3. CASE Len(s) # 0
      <3>1. s[1] = link[n] /\ s[1] \in Nodes
        BY <2>1, <2>3, <1>3, <1>4 DEF Path
      <3> QED BY <3>1
    <2> QED BY <2>2, <2>3
  <1>6. m_head' # LockTag /\ List!Start' = link[n]
    BY <1>1, <1>5 DEF List!TagsDiffer, List!Start
  <1>7. /\ \A u \in Workers \ {t} : visit'[u] = visit[u] /\ owns'[u] = owns[u]
        /\ visit'[t] = List!Idle /\ owns'[t] = owns[t] \cup {n}
    BY <1>1 DEF ListInv, Typed
  <1>8. \A u \in Workers \ {t} : visit[u].at \notin {"unlock", "visit"}
    BY <1>1 DEF ListInv, Alone, List!At
  <1>9. n \in Own(t)
    BY <1>0, <1>1 DEF Own, List!Popped
  <1>10. \A m \in Nodes : m # n => link'[m] = link[m]
    BY <1>1 DEF ListInv, Typed
  <1>11. \A u \in Workers \ {t} : \A m \in Own(u) : link'[m] = link[m]
    <2> TAKE u \in Workers \ {t}
    <2> TAKE m \in Own(u)
    <2>1. m # n
      BY <1>9 DEF ListInv, OwnedNodes
    <2>2. m \in Nodes
      BY <1>8 DEF ListInv, Typed, Own, List!Popped, List!At
    <2> QED BY <2>1, <2>2, <1>10
  <1>12. \A u \in Workers \ {t} : Located(u)' /\ Own(u)' = Own(u)
    BY <1>1, <1>7, <1>8, <1>11, OthersLocated
  <1>13. Own(t)' = Own(t)
    BY <1>0, <1>1, <1>7 DEF Own, List!Popped, List!At, List!Idle
  <1>14. Located(t)'
    BY <1>7 DEF Located, List!At, List!Idle
  <1>15. Typed'
    BY <1>1, <1>2, <1>5 DEF ListInv, Typed, Calls, Places, List!Idle
  <1>16. Alone'
    BY <1>7, <1>8 DEF Alone, List!Idle
  <1>17. \A u \in Workers : Own(u)' = Own(u)
    BY <1>12, <1>13
  <1>18. OwnedNodes'
    BY <1>17 DEF ListInv, OwnedNodes
  <1>19. Outside(s)'
    BY <1>3, <1>17 DEF Outside
  <1>20. \A i \in 1 .. Len(s) : link'[s[i]] = link[s[i]]
    <2> TAKE i \in 1 .. Len(s)
    <2>1. s[i] \in Nodes /\ s[i] # n
      BY <1>3, <1>9, ElementOfSeq DEF Path, Outside
    <2> QED BY <2>1, <1>10
  <1>21. Path(link', s, List!Start')
    BY <1>3, <1>4, <1>6, <1>20, PathKept
  <1>22. Listed'
    BY <1>19, <1>21 DEF Listed
  <1>23. List!Contents' = List!Contents
    BY <1>3, <1>21, FollowingPath DEF List!Contents
  <1>24. absHeld' = absHeld
    BY <1>17 DEF absHeld, Own
  <1>25. absClosed = FALSE /\ absClosed' = FALSE
    BY <1>1, <1>2 DEF absClosed
  <1>26. \A u \in Workers : Located(u)'
    BY <1>12, <1>14
  <1> QED BY <1>15, <1>16, <1>18, <1>22, <1>23, <1>24, <1>25, <1>26 DEF ListInv, absVars

\* consume takes the list off the head, for good.
LEMMA ConsumeInv ==
  ASSUME List!TagsDiffer, ListInv, NEW t \in Workers, List!ConsumeExchanges(t)
  PROVE  ListInv' /\ List!List!Close
  <1>0. PICK n : n = m_head
    OBVIOUS
  <1>1. /\ kind = "wait" /\ List!At(t, "idle") /\ n # LockTag /\ m_head' = LockTag
        /\ visit' = [visit EXCEPT ![t] = [op |-> "consume", at |-> "visit", node |-> n,
                                        seen |-> NotEnqueued]]
        /\ UNCHANGED <<kind, link, owns>>
    BY <1>0 DEF List!ConsumeExchanges
  <1>2. n \in Nodes \cup {EndTag}
    BY <1>0, <1>1 DEF ListInv, Typed
  <1>3. PICK s : Path(link, s, List!Start) /\ Outside(s)
    BY DEF ListInv, Listed
  <1>4. List!Start = n
    BY <1>0, <1>1 DEF List!Start
  <1>5. /\ \A u \in Workers \ {t} : visit'[u] = visit[u]
        /\ visit'[t] \in Calls /\ visit'[t].at = "visit" /\ visit'[t].node = n
    BY <1>1, <1>2 DEF ListInv, Typed, Calls, Places
  <1>6. \A u \in Workers : visit[u].at \notin {"unlock", "visit"}
    BY <1>0, <1>1 DEF ListInv, Located, List!At
  <1>7. \A u \in Workers \ {t} : Located(u)' /\ Own(u)' = Own(u)
    BY <1>1, <1>5, <1>6, OthersLocated
  <1>8. Own(t)' = Own(t)
    BY <1>1, <1>5 DEF Own, List!Popped, List!At
  <1>9. Located(t)'
    BY <1>1, <1>2, <1>5 DEF Located, List!At, List!TagsDiffer
  <1>10. Typed'
    BY <1>1, <1>5 DEF ListInv, Typed
  <1>11. Alone'
    BY <1>5, <1>6 DEF Alone
  <1>12. \A u \in Workers : Own(u)' = Own(u)
    BY <1>7, <1>8
  <1>13. OwnedNodes' /\ Outside(s)'
    BY <1>3, <1>12 DEF ListInv, OwnedNodes, Outside
  <1>14. List!Start' = n
    <2>1. (CHOOSE u \in Workers : List!At(u, "visit")') = t
      BY <1>5, <1>6 DEF List!At
    <2>2. List!At(t, "visit")' /\ ~ \E u \in Workers : List!At(u, "unlock")'
      BY <1>5, <1>6 DEF List!At
    <2> QED BY <1>1, <1>5, <2>1, <2>2 DEF List!Start
  <1>15. Path(link', s, List!Start')
    BY <1>1, <1>3, <1>4, <1>14
  <1>16. Listed'
    BY <1>13, <1>15 DEF Listed
  <1>17. List!Contents' = List!Contents
    BY <1>3, <1>15, FollowingPath DEF List!Contents
  <1>18. absHeld' = absHeld
    BY <1>12 DEF absHeld, Own
  <1>19. absClosed = FALSE /\ absClosed' = TRUE
    BY <1>0, <1>1 DEF absClosed
  <1>20. \A u \in Workers : Located(u)'
    BY <1>7, <1>9
  <1>21. List!List!Close
    BY <1>17, <1>18, <1>19 DEF List!List!Close, absHeld, absClosed
  <1> QED BY <1>10, <1>11, <1>13, <1>16, <1>20, <1>21 DEF ListInv

\* consume visits the first node that is left.
LEMMA VisitInv ==
  ASSUME List!TagsDiffer, ListInv, NEW t \in Workers, List!ConsumeVisits(t), visit[t].node # EndTag
  PROVE  ListInv' /\ List!List!Pop(t)
  <1>0. PICK n : n = visit[t].node
    OBVIOUS
  <1>1. /\ List!At(t, "visit") /\ visit' = [visit EXCEPT ![t].node = link[n]]
        /\ link' = [link EXCEPT ![n] = NotEnqueued]
        /\ owns' = [owns EXCEPT ![t] = @ \cup {n}] /\ UNCHANGED <<kind, m_head>>
    BY <1>0 DEF List!ConsumeVisits
  <1>2. n \in Nodes /\ m_head = LockTag /\ kind = "wait" /\ visit[t] \in Calls
    BY <1>0, <1>1 DEF ListInv, Located, Typed, Calls, List!At
  <1>3. PICK s : Path(link, s, List!Start) /\ Outside(s)
    BY DEF ListInv, Listed
  <1>4. List!Start = n
    BY <1>0, <1>1, <1>2, StartConsumed DEF ListInv
  <1>5. /\ s # <<>> /\ Head(s) = n /\ Path(link, Tail(s), link[n])
        /\ Len(Tail(s)) \in Nat /\ Len(s) = Len(Tail(s)) + 1
        /\ \A i \in 1 .. Len(Tail(s)) :
             Tail(s)[i] # n /\ i + 1 \in 1 .. Len(s) /\ Tail(s)[i] = s[i + 1]
    BY <1>2, <1>3, <1>4, PathTail
  <1>6. link[n] \in Nodes \cup {EndTag}
    <2>1. Tail(s) \in Seq(Nodes)
      BY <1>5 DEF Path
    <2>2. CASE Len(Tail(s)) = 0
      BY <2>2, <1>5 DEF Path
    <2>3. CASE Len(Tail(s)) # 0
      <3>1. 1 \in 1 .. Len(Tail(s))
        BY <2>3, <1>5
      <3>2. Tail(s)[1] = link[n]
        BY <3>1, <1>5 DEF Path
      <3>3. Tail(s)[1] \in Nodes
        BY <2>1, <3>1, ElementOfSeq
      <3> QED BY <3>2, <3>3
    <2> QED BY <2>2, <2>3
  <1>7. /\ \A u \in Workers \ {t} : visit'[u] = visit[u] /\ owns'[u] = owns[u]
        /\ visit'[t] \in Calls /\ visit'[t].at = "visit" /\ visit'[t].node = link[n]
        /\ owns'[t] = owns[t] \cup {n}
    BY <1>1, <1>2, <1>6 DEF ListInv, Typed, Calls, List!At
  <1>8. \A u \in Workers \ {t} : visit[u].at \notin {"unlock", "visit"}
    BY <1>1 DEF ListInv, Alone, List!At
  <1>9. 1 \in 1 .. Len(s) /\ s[1] = n
    BY <1>3, <1>4, <1>5 DEF Path
  <1>10. \A u \in Workers : n \notin Own(u)
    BY <1>3, <1>9 DEF Outside
  <1>11. \A m \in Nodes : m # n => link'[m] = link[m]
    BY <1>1 DEF ListInv, Typed
  <1>12. \A u \in Workers \ {t} : \A m \in Own(u) : link'[m] = link[m]
    <2> TAKE u \in Workers \ {t}
    <2> TAKE m \in Own(u)
    <2>1. m # n
      BY <1>10
    <2>2. m \in Nodes
      BY <1>8 DEF ListInv, Typed, Own, List!Popped, List!At
    <2> QED BY <2>1, <2>2, <1>11
  <1>13. \A u \in Workers \ {t} : Located(u)' /\ Own(u)' = Own(u)
    BY <1>1, <1>7, <1>8, <1>12, OthersLocated
  <1>14. Own(t)' = Own(t) \cup {n}
    BY <1>1, <1>7 DEF Own, List!Popped, List!At
  <1>15. Located(t)'
    BY <1>1, <1>2, <1>6, <1>7 DEF Located, List!At, List!TagsDiffer
  <1>16. Typed'
    BY <1>1, <1>2, <1>7 DEF ListInv, Typed
  <1>17. Alone'
    BY <1>7, <1>8 DEF Alone
  <1>18. OwnedNodes'
    BY <1>10, <1>13, <1>14 DEF ListInv, OwnedNodes
  <1>19. List!Start' = link[n]
    <2>1. (CHOOSE u \in Workers : List!At(u, "visit")') = t
      BY <1>7, <1>8 DEF List!At
    <2>2. List!At(t, "visit")' /\ ~ \E u \in Workers : List!At(u, "unlock")'
      BY <1>7, <1>8 DEF List!At
    <2> QED BY <1>1, <1>2, <1>7, <2>1, <2>2 DEF List!Start
  <1>20. \A i \in 1 .. Len(Tail(s)) : link'[Tail(s)[i]] = link[Tail(s)[i]]
    <2> TAKE i \in 1 .. Len(Tail(s))
    <2>1. Tail(s)[i] \in Nodes /\ Tail(s)[i] # n
      BY <1>5, ElementOfSeq DEF Path
    <2> QED BY <2>1, <1>11
  <1>21. Path(link', Tail(s), List!Start')
    BY <1>5, <1>19, <1>20, PathKept
  <1>22. \A i \in 1 .. Len(Tail(s)) : \A u \in Workers : Tail(s)[i] \notin Own(u)'
    BY <1>3, <1>5, <1>13, <1>14 DEF Outside
  <1>23. Listed'
    BY <1>21, <1>22 DEF Listed, Outside
  <1>24. List!Contents = s /\ List!Contents' = Tail(s)
    BY <1>3, <1>21, FollowingPath DEF List!Contents
  <1>25. absHeld' = [absHeld EXCEPT ![t] = @ \cup {n}]
    BY <1>13, <1>14 DEF absHeld, Own
  <1>26. absClosed = TRUE /\ absClosed' = TRUE
    BY <1>1, <1>2 DEF absClosed
  <1>27. \A u \in Workers : Located(u)'
    BY <1>13, <1>15
  <1>28. List!List!Pop(t)
    BY <1>5, <1>24, <1>25, <1>26 DEF List!List!Pop, absHeld, absClosed
  <1> QED BY <1>16, <1>17, <1>18, <1>23, <1>27, <1>28 DEF ListInv

\* consume returns from an empty list.
LEMMA VisitEndInv ==
  ASSUME List!TagsDiffer, ListInv, NEW t \in Workers, List!ConsumeVisits(t), visit[t].node = EndTag
  PROVE  ListInv' /\ absVars' = absVars
  <1>1. List!At(t, "visit") /\ visit' = [visit EXCEPT ![t] = List!Idle] /\ UNCHANGED <<kind, m_head, link, owns>>
    BY DEF List!ConsumeVisits, List!Return
  <1>2. m_head = LockTag
    BY <1>1 DEF ListInv, Located
  <1>3. \A u \in Workers \ {t} : visit[u].at \notin {"unlock", "visit"} /\ visit'[u] = visit[u]
    BY <1>1 DEF ListInv, Alone, List!At, Typed
  <1>4. visit'[t] = List!Idle
    BY <1>1 DEF ListInv, Typed
  <1>5. \A u \in Workers \ {t} : Located(u)' /\ Own(u)' = Own(u)
    BY <1>1, <1>2, <1>3, OthersLocated
  <1>6. Located(t)' /\ Own(t)' = Own(t)
    BY <1>1, <1>4 DEF Located, List!At, List!Idle, Own, List!Popped
  <1>7. Typed' /\ Alone'
    BY <1>1, <1>3, <1>4 DEF ListInv, Typed, Calls, Places, List!Idle, Alone
  <1>8. List!Start = EndTag
    BY <1>1, <1>2, StartConsumed DEF ListInv
  <1>9. List!Start' = EndTag
    <2>1. ~ \E u \in Workers : List!At(u, "unlock")'
      BY <1>3, <1>4 DEF List!At, List!Idle
    <2>2. ~ \E u \in Workers : List!At(u, "visit")'
      BY <1>3, <1>4 DEF List!At, List!Idle
    <2> QED BY <1>1, <1>2, <2>1, <2>2 DEF List!Start
  <1>10. Listed' /\ OwnedNodes' /\ absVars' = absVars
    BY <1>1, <1>5, <1>6, <1>8, <1>9, Stutters
  <1> QED BY <1>5, <1>6, <1>7, <1>10 DEF ListInv

\* Every step keeps the invariant, and is a step of the stack or none.
LEMMA ListInvNext ==
  ASSUME List!TagsDiffer, ListInv, [List!Next]_List!vars
  PROVE  ListInv' /\ (List!List!Next \/ absVars' = absVars)
  <1>1. CASE UNCHANGED List!vars
    <2>1. Typed' /\ (\A t \in Workers : Located(t)') /\ Alone'
      BY <1>1 DEF List!vars, ListInv, Typed, Located, Alone, List!At
    <2>2. List!Start' = List!Start /\ \A t \in Workers : Own(t)' = Own(t)
      BY <1>1 DEF List!vars, List!Start, Own, List!Popped, List!At
    <2>3. Listed' /\ OwnedNodes' /\ absVars' = absVars
      BY <1>1, <2>2, Stutters DEF List!vars
    <2> QED BY <2>1, <2>3 DEF ListInv
  <1>2. ASSUME NEW t \in Workers, List!Use(t)
        PROVE  ListInv' /\ (List!List!Next \/ absVars' = absVars)
    <2>1. CASE \E n \in owns[t] : List!Begin(t, IF kind = "ready" THEN "push" ELSE "try_push", "head", n)
      <3>1. PICK n \in owns[t] : List!Begin(t, IF kind = "ready" THEN "push" ELSE "try_push", "head", n)
        BY <2>1
      <3>2. n \in Nodes
        BY DEF ListInv, Typed
      <3>3. PICK op \in {"push", "try_push"} : List!Begin(t, op, "head", n)
        BY <3>1
      <3> QED BY <3>2, <3>3, BeginInv
    <2>2. CASE kind = "ready" /\ \E op \in {"pop", "steal"} : List!Begin(t, op, "look", NotEnqueued)
      <3>1. PICK op \in {"pop", "steal"} : List!Begin(t, op, "look", NotEnqueued)
        BY <2>2
      <3> QED BY <2>2, <3>1, BeginInv
    <2>3. CASE List!ConsumeExchanges(t)
      BY <2>3, ConsumeInv DEF List!List!Next
    <2> QED BY <1>2, <2>1, <2>2, <2>3 DEF List!Use
  <1>3. ASSUME NEW t \in Workers, List!Progress(t)
        PROVE  ListInv' /\ (List!List!Next \/ absVars' = absVars)
    <2>1. CASE List!PushReadsHead(t)
      BY <2>1, LinkInv DEF List!PushReadsHead, List!At
    <2>2. CASE List!PushExchanges(t) /\ m_head = visit[t].seen
      BY <2>2, PushInv DEF List!List!Next
    <2>3. CASE List!PushExchanges(t) /\ m_head # visit[t].seen
      BY <2>3, LinkInv DEF List!PushExchanges, List!Relink, List!At
    <2>4. CASE List!PopReadsHead(t)
      BY <2>4, InspectInv DEF List!PopReadsHead, List!At
    <2>5. CASE List!PopLocks(t) /\ m_head = visit[t].node
      BY <2>5, LockInv DEF List!List!Next
    <2>6. CASE List!PopLocks(t) /\ m_head # visit[t].node
      BY <2>6, InspectInv DEF List!PopLocks, List!At
    <2>7. CASE List!PopUnlocks(t)
      BY <2>7, UnlockInv
    <2>8. CASE List!ConsumeVisits(t) /\ visit[t].node # EndTag
      BY <2>8, VisitInv DEF List!List!Next
    <2>9. CASE List!ConsumeVisits(t) /\ visit[t].node = EndTag
      BY <2>9, VisitEndInv
    <2> QED BY <1>3, <2>1, <2>2, <2>3, <2>4, <2>5, <2>6, <2>7, <2>8, <2>9 DEF List!Progress, List!Push, List!Pop
  <1> QED BY <1>1, <1>2, <1>3 DEF List!Next

\* The head is a lock, the end, or a node, and never null: all words and locals have
\* their types (Kokkos_LIFO.hpp:160-162).
THEOREM ListTypes ==
  List!Spec => []List!TypeOK
  <1>1. List!Init => ListInv
    BY InitInv, TagsAssumption
  <1>2. ListInv /\ [List!Next]_List!vars => ListInv'
    BY ListInvNext, TagsAssumption
  <1>3. ListInv => List!TypeOK
    BY DEF ListInv, Typed, Calls, Places, List!TypeOK
  <1> QED BY <1>1, <1>2, <1>3, PTL DEF List!Spec

\* The intrusive lists implement a stack: no push is lost, no node is popped twice, and
\* consume visits exactly the nodes whose try_push succeeded (Kokkos_LIFO.hpp:247-262).
THEOREM ListImplementsStack ==
  List!Spec => ImplementsStack
  <1>1. List!Init => ListInv /\ List!List!Init
    BY InitInv, TagsAssumption
  <1>2. ListInv /\ [List!Next]_List!vars => ListInv'
    BY ListInvNext, TagsAssumption
  <1>3. ListInv /\ [List!Next]_List!vars =>
            [List!List!Next]_<<List!Contents, [t \in Workers |-> owns[t] \cup List!Popped(t)],
                          kind = "wait" /\ m_head = LockTag>>
    BY ListInvNext, TagsAssumption DEF absVars, absHeld, absClosed
  <1> QED BY <1>1, <1>2, <1>3, PTL DEF List!Spec, ImplementsStack, List!ImplementsStack, List!List!Spec

-----------------------------------------------------------------------------
(***************************************************************************)
(* The ready queue.  DequeInv says which slots of the buffer hold tasks,   *)
(* that they, the owner's list and the tasks in somebody's hands are       *)
(* disjoint, how far the owner has lowered bottom, and what a thief knows  *)
(* of the slot that it read: if top is still what it saw, the task in the  *)
(* slot is the one it holds.                                               *)
(***************************************************************************)

-----------------------------------------------------------------------------
\* Chains of links.

Links == [Deque!Tasks -> Deque!Tasks \cup {None}]
Closed(S, links) == \A z \in S : links[z] \in S \cup {None}

LEMMA ChainLeast ==
  ASSUME NEW x, NEW links, NEW S \in SUBSET Deque!Tasks, x \in S \cup {None}, Closed(S, links)
  PROVE  Deque!Chain(x, links) \subseteq S
  BY DEF Deque!Chain, Closed

LEMMA ChainTasks ==
  ASSUME NEW x, NEW links
  PROVE  Deque!Chain(x, links) \in SUBSET Deque!Tasks
  BY DEF Deque!Chain

LEMMA ChainNone ==
  ASSUME NEW links
  PROVE  Deque!Chain(None, links) = {}
  <1>1. Closed({}, links) /\ {} \in SUBSET Deque!Tasks
    BY DEF Closed
  <1>2. Deque!Chain(None, links) \subseteq {}
    BY <1>1, ChainLeast
  <1> QED BY <1>2

\* A chain has its first task and every successor of a task of it.
LEMMA ChainClosed ==
  ASSUME NEW x \in Deque!Tasks \cup {None}, NEW links \in Links
  PROVE  /\ x \in Deque!Chain(x, links) \cup {None}
         /\ Closed(Deque!Chain(x, links), links)
  <1>1. ASSUME x # None PROVE x \in Deque!Chain(x, links)
    BY <1>1 DEF Deque!Chain
  <1>2. ASSUME NEW z \in Deque!Chain(x, links), links[z] # None
        PROVE  links[z] \in Deque!Chain(x, links)
    <2>1. z \in Deque!Tasks /\ links[z] \in Deque!Tasks
      BY <1>2 DEF Deque!Chain, Links
    <2>2. ASSUME NEW S \in SUBSET Deque!Tasks, x \in S \cup {None}, \A y \in S : links[y] \in S \cup {None}
          PROVE  links[z] \in S
      <3>1. z \in S
        BY <2>2, <1>2 DEF Deque!Chain
      <3> QED BY <3>1, <2>2, <1>2
    <2> QED BY <2>1, <2>2 DEF Deque!Chain
  <1> QED BY <1>1, <1>2 DEF Closed

LEMMA ChainWithin ==
  ASSUME NEW x \in Deque!Tasks \cup {None}, NEW links \in Links, NEW y \in Deque!Chain(x, links) \cup {None}
  PROVE  Deque!Chain(y, links) \subseteq Deque!Chain(x, links)
  BY ChainClosed, ChainLeast, ChainTasks

LEMMA ChainSplit ==
  ASSUME Deque!QueueParameters, NEW x \in Deque!Tasks, NEW links \in Links
  PROVE  Deque!Chain(x, links) = {x} \cup Deque!Chain(links[x], links)
  <1> DEFINE S == {x} \cup Deque!Chain(links[x], links)
  <1>1. links[x] \in Deque!Tasks \cup {None}
    BY DEF Links
  <1>2. S \in SUBSET Deque!Tasks
    BY ChainTasks
  <1>3. Closed(S, links)
    BY <1>1, ChainClosed DEF Closed
  <1>4. Deque!Chain(x, links) \subseteq S
    BY <1>2, <1>3, ChainLeast
  <1>5. x \in Deque!Chain(x, links) \cup {None} /\ Closed(Deque!Chain(x, links), links)
    BY ChainClosed
  <1>6. x \in Deque!Chain(x, links)
    BY <1>5 DEF Deque!QueueParameters
  <1>7. links[x] \in Deque!Chain(x, links) \cup {None}
    BY <1>5, <1>6 DEF Closed
  <1>8. Deque!Chain(links[x], links) \subseteq Deque!Chain(x, links)
    BY <1>7, ChainWithin
  <1> QED BY <1>4, <1>6, <1>8

\* A chain depends on its own links alone.
LEMMA ChainSame ==
  ASSUME NEW x \in Deque!Tasks \cup {None}, NEW links \in Links, NEW other \in Links,
         \A y \in Deque!Chain(x, links) : other[y] = links[y]
  PROVE  Deque!Chain(x, other) = Deque!Chain(x, links)
  <1>1. Closed(Deque!Chain(x, links), links) /\ x \in Deque!Chain(x, links) \cup {None}
    BY ChainClosed
  <1>2. Closed(Deque!Chain(x, links), other)
    BY <1>1 DEF Closed
  <1>3. Deque!Chain(x, other) \subseteq Deque!Chain(x, links)
    BY <1>1, <1>2, ChainLeast, ChainTasks
  <1>4. Closed(Deque!Chain(x, other), other) /\ x \in Deque!Chain(x, other) \cup {None}
    BY ChainClosed
  <1>5. Closed(Deque!Chain(x, other), links)
    BY <1>3, <1>4 DEF Closed
  <1>6. Deque!Chain(x, links) \subseteq Deque!Chain(x, other)
    BY <1>4, <1>5, ChainLeast, ChainTasks
  <1> QED BY <1>3, <1>6

\* No task of the list comes back to itself.
Acyclic(x, links) == \A y \in Deque!Chain(x, links) : y \notin Deque!Chain(links[y], links)

LEMMA AcyclicRest ==
  ASSUME Deque!QueueParameters, NEW x \in Deque!Tasks, NEW links \in Links, Acyclic(x, links)
  PROVE  /\ Acyclic(links[x], links)
         /\ Deque!Chain(links[x], links) = Deque!Chain(x, links) \ {x}
  BY ChainSplit DEF Acyclic

\* A task that is linked in at the head of a list.
LEMMA ChainGrows ==
  ASSUME Deque!QueueParameters, NEW x \in Deque!Tasks \cup {None}, NEW links \in Links, Acyclic(x, links),
         NEW n \in Deque!Tasks \ Deque!Chain(x, links), NEW other, other = [links EXCEPT ![n] = x]
  PROVE  /\ other \in Links
         /\ Deque!Chain(n, other) = {n} \cup Deque!Chain(x, links)
         /\ Acyclic(n, other)
  <1>1. other \in Links
    BY DEF Links
  <1>2. \A y \in Deque!Chain(x, links) : other[y] = links[y] /\ y \in Deque!Tasks
    BY ChainTasks DEF Links
  <1>3. Deque!Chain(x, other) = Deque!Chain(x, links)
    BY <1>1, <1>2, ChainSame
  <1>4. other[n] = x
    BY DEF Links
  <1>5. Deque!Chain(n, other) = {n} \cup Deque!Chain(x, links)
    <2>1. Deque!Chain(n, other) = {n} \cup Deque!Chain(other[n], other)
      BY <1>1, ChainSplit
    <2> QED BY <2>1, <1>3, <1>4
  <1>6. ASSUME NEW y \in Deque!Chain(x, links) PROVE y \notin Deque!Chain(other[y], other)
    <2>1. links[y] \in Deque!Chain(x, links) \cup {None} /\ links[y] \in Deque!Tasks \cup {None}
      BY <1>2, ChainClosed DEF Closed, Links
    <2>2. Deque!Chain(links[y], links) \subseteq Deque!Chain(x, links)
      BY <2>1, ChainWithin
    <2>3. Deque!Chain(links[y], other) = Deque!Chain(links[y], links)
      BY <1>1, <1>2, <2>1, <2>2, ChainSame
    <2> QED BY <1>2, <2>3 DEF Acyclic
  <1> QED BY <1>1, <1>3, <1>4, <1>5, <1>6 DEF Acyclic

-----------------------------------------------------------------------------
\* The circular buffer.

LEMMA SlotRange ==
  ASSUME Deque!QueueParameters, NEW i \in Nat
  PROVE  i % Capacity \in 0 .. Capacity - 1
  BY DEF Deque!QueueParameters

\* Two indices less than the capacity apart are in different slots.
LEMMA SlotsDiffer ==
  ASSUME Deque!QueueParameters, NEW i \in Nat, NEW j \in Nat, i < j, j < i + Capacity
  PROVE  i % Capacity # j % Capacity
  <1>1. Capacity \in Nat \ {0}
    BY DEF Deque!QueueParameters
  <1> DEFINE C == Capacity
  <1> DEFINE p == i \div C
  <1> DEFINE q == j \div C
  <1>2. p \in Nat /\ q \in Nat
    BY <1>1
  <1>3. i = C * p + (i % C) /\ j = C * q + (j % C)
    BY <1>1, Z3
  <1> SUFFICES ASSUME i % C = j % C PROVE FALSE
    OBVIOUS
  <1> HIDE DEF p, q
  <1>4. i % C \in Nat /\ j % C \in Nat
    BY <1>1
  <1>5. C * q - C * p = j - i /\ C * p \in Nat /\ C * q \in Nat
    BY <1>1, <1>2, <1>3, <1>4
  <1>6. CASE q <= p
    <2>1. C * q <= C * p
      BY <1>1, <1>2, <1>6
    <2> QED BY <2>1, <1>5, <1>1
  <1>7. CASE q >= p + 1
    <2>1. C * q >= C * (p + 1)
      BY <1>1, <1>2, <1>7
    <2>2. C * (p + 1) = C * p + C
      BY <1>1, <1>2
    <2> QED BY <2>1, <2>2, <1>5, <1>1
  <1> QED BY <1>2, <1>6, <1>7

-----------------------------------------------------------------------------
\* The inductive invariant.

OwnerPlaces == {"idle", "push", "write", "publish", "step", "flush", "pop",
                "top", "last", "restore", "return"}
OwnerLocals == [at : OwnerPlaces, task : Deque!Tasks \cup {None}, b : Nat \cup {-1},
                then : {"return", "pop"}]
ThiefLocals == [at : {"idle", "bottom", "element", "claim"}, task : Deque!Tasks \cup {None}, t : Nat]

QueueTyped ==
  /\ array \in [0 .. Capacity - 1 -> Deque!Tasks \cup {None}]
  /\ top \in Nat /\ bottom \in Nat \cup {-1}
  /\ failed_head \in Deque!Tasks \cup {None}
  /\ after \in Links
  /\ state \in [Deque!Tasks -> {"new", "scheduled", "taken", "freed"}]
  /\ owner \in OwnerLocals
  /\ thief \in [Thieves -> ThiefLocals]
  /\ hosted \in BOOLEAN
  /\ undefined \in {"nothing", "no such queue", "read of a freed task"}

\* The elements are in consecutive slots, no two of them in one.
Window == top <= Deque!Last + 1 /\ Deque!Last < top + Capacity

\* They are different tasks that nobody has taken, and that the list does not have.
QueuedIn(arr, lo, hi, st, failed) ==
  \A i \in lo .. hi :
     /\ arr[i % Capacity] \in Deque!Tasks \ failed
     /\ st[arr[i % Capacity]] = "scheduled"
     /\ \A j \in lo .. hi : arr[j % Capacity] = arr[i % Capacity] => j = i
Queued == QueuedIn(array, top, Deque!Last, state, Deque!FailedTasks)

InOwnersList ==
  /\ Acyclic(failed_head, after)
  /\ \A x \in Deque!FailedTasks : state[x] = "scheduled"

\* What the owner knows inside a call.
OwnerInv ==
  /\ owner.at \in {"push", "write", "publish"} =>
       /\ owner.task \in Deque!Tasks /\ state[owner.task] = "scheduled"
       /\ owner.task \notin Deque!Elements
       /\ owner.task = failed_head \/ owner.task \notin Deque!FailedTasks
  /\ owner.at \in {"write", "publish"} => owner.b = bottom /\ bottom < top + Capacity
  /\ owner.at = "publish" => array[owner.b % Capacity] = owner.task
  /\ owner.at = "step" => failed_head # None
  /\ Deque!Popping => failed_head = None /\ owner.b = bottom
  /\ owner.at = "last" => top >= owner.b /\ owner.task = array[owner.b % Capacity]
  /\ owner.at = "restore" => top = owner.b + 1

\* A thief whose top is still the top is about to claim the first element.
ThiefInv(p) ==
  /\ thief[p].at # "idle" => thief[p].t <= top
  /\ thief[p].at \in {"element", "claim"} /\ thief[p].t = top => top <= Deque!Last
  /\ thief[p].at = "claim" /\ thief[p].t = top => thief[p].task = array[top % Capacity]

DequeInv ==
  QueueTyped /\ Window /\ Queued /\ InOwnersList /\ OwnerInv /\ \A p \in Thieves : ThiefInv(p)

\* The state of the bag.
absBag == Deque!FailedTasks \cup Deque!Elements
absTaken == {x \in Deque!Tasks : state[x] \in {"taken", "freed"}}
bagVars == <<absBag, absTaken>>

Held(arr, lo, hi) == {arr[i % Capacity] : i \in lo .. hi}

LEMMA ElementsHeld == Deque!Elements = Held(array, top, Deque!Last)
  BY DEF Deque!Elements, Held

LEMMA LastTyped ==
  ASSUME QueueTyped
  PROVE  Deque!Last \in Int /\ top \in Nat
  <1>0. bottom \in Nat \cup {-1} /\ top \in Nat
    BY DEF QueueTyped
  <1>1. bottom \in Int /\ top \in Nat
    BY <1>0
  <1> QED BY <1>1 DEF Deque!Last

LEMMA FailedAre ==
  ASSUME QueueTyped
  PROVE  /\ Deque!FailedTasks \in SUBSET Deque!Tasks
         /\ failed_head = None => Deque!FailedTasks = {}
         /\ failed_head # None /\ owner.at = "step" => Deque!FailedTasks = Deque!Chain(after[failed_head], after)
         /\ owner.at # "step" => Deque!FailedTasks = Deque!Chain(failed_head, after)
  BY ChainTasks, ChainNone DEF Deque!FailedTasks, Deque!Owner

\* Taking away elements, or tasks of the list.
LEMMA QueuedLess ==
  ASSUME NEW arr, NEW lo \in Nat, NEW hi \in Int, NEW st, NEW failed,
         QueuedIn(arr, lo, hi, st, failed),
         NEW lo2 \in Nat, NEW hi2 \in Int, lo <= lo2, hi2 <= hi,
         NEW st2, NEW failed2, failed2 \subseteq failed,
         \A i \in lo2 .. hi2 : st2[arr[i % Capacity]] = st[arr[i % Capacity]]
  PROVE  QueuedIn(arr, lo2, hi2, st2, failed2)
  BY DEF QueuedIn

LEMMA HeldLess ==
  ASSUME NEW arr, NEW lo \in Nat, NEW hi \in Int, NEW st, NEW failed, lo <= hi,
         QueuedIn(arr, lo, hi, st, failed)
  PROVE  /\ Held(arr, lo + 1, hi) = Held(arr, lo, hi) \ {arr[lo % Capacity]}
         /\ Held(arr, lo, hi - 1) = Held(arr, lo, hi) \ {arr[hi % Capacity]}
         /\ arr[lo % Capacity] \in Held(arr, lo, hi)
         /\ arr[hi % Capacity] \in Held(arr, lo, hi)
  BY DEF QueuedIn, Held

\* The slot behind the last element is none of theirs.
LEMMA SlotBehind ==
  ASSUME Deque!QueueParameters, NEW lo \in Nat, NEW b \in Nat, b < lo + Capacity
  PROVE  /\ \A i \in lo .. b - 1 : i % Capacity # b % Capacity /\ i % Capacity \in 0 .. Capacity - 1
         /\ b % Capacity \in 0 .. Capacity - 1
  <1>1. \A i \in lo .. b - 1 : i \in Nat /\ i < b /\ b < i + Capacity
    BY DEF Deque!QueueParameters
  <1>2. \A i \in lo .. b - 1 : i % Capacity # b % Capacity /\ i % Capacity \in 0 .. Capacity - 1
    BY <1>1, SlotsDiffer, SlotRange
  <1>3. b % Capacity \in 0 .. Capacity - 1
    BY SlotRange
  <1> QED BY <1>2, <1>3

-----------------------------------------------------------------------------
\* Steps that leave the tasks where they are.

LEMMA Frame ==
  ASSUME DequeInv, UNCHANGED <<array, top, after, failed_head>>,
         Deque!Last' = Deque!Last, Deque!FailedTasks' = Deque!FailedTasks,
         \A x \in Deque!Tasks : state[x] = "scheduled" => state'[x] = "scheduled"
  PROVE  /\ Window' /\ Queued' /\ InOwnersList'
         /\ Deque!Elements' = Deque!Elements /\ absBag' = absBag
         /\ \A p \in Thieves : thief'[p] = thief[p] => ThiefInv(p)'
  <1>1. Window'
    BY DEF DequeInv, Window
  <1>2. Queued'
    <2>1. \A i \in top .. Deque!Last : state'[array[i % Capacity]] = state[array[i % Capacity]]
      BY DEF DequeInv, Queued, QueuedIn
    <2>2. Deque!Last \in Int /\ top \in Nat
      BY LastTyped DEF DequeInv
    <2>3. QueuedIn(array, top, Deque!Last, state', Deque!FailedTasks)
      BY <2>1, <2>2, QueuedLess DEF DequeInv, Queued
    <2> QED BY <2>3 DEF Queued
  <1>3. InOwnersList'
    BY FailedAre DEF DequeInv, InOwnersList
  <1>4. Deque!Elements' = Deque!Elements
    BY DEF Deque!Elements
  <1>5. absBag' = absBag
    BY <1>4 DEF absBag
  <1>6. \A p \in Thieves : thief'[p] = thief[p] => ThiefInv(p)'
    BY DEF DequeInv, ThiefInv
  <1> QED BY <1>1, <1>2, <1>3, <1>4, <1>5, <1>6

\* Steps of the owner that write to its locals, and perhaps to bottom, alone.
LEMMA OwnerFrame ==
  ASSUME DequeInv, UNCHANGED <<array, top, after, failed_head, state, thief, hosted>>,
         Deque!Last' = Deque!Last, owner.at # "step" /\ owner'.at # "step",
         owner' \in OwnerLocals, bottom' \in Nat \cup {-1},
         undefined' \in {"nothing", "no such queue", "read of a freed task"}, OwnerInv'
  PROVE  DequeInv' /\ bagVars' = bagVars
  <1>1. Deque!FailedTasks' = Deque!FailedTasks
    BY DEF Deque!FailedTasks, Deque!Owner
  <1>2. /\ Window' /\ Queued' /\ InOwnersList' /\ absBag' = absBag
        /\ \A p \in Thieves : ThiefInv(p)'
    BY <1>1, Frame
  <1>3. QueueTyped'
    BY DEF DequeInv, QueueTyped
  <1>4. absTaken' = absTaken
    BY DEF absTaken
  <1> QED BY <1>2, <1>3, <1>4 DEF DequeInv, bagVars

\* The owner's locals are a record.
LEMMA OwnerTyped ==
  ASSUME DequeInv
  PROVE  /\ owner \in OwnerLocals /\ owner.at \in OwnerPlaces
         /\ owner.task \in Deque!Tasks \cup {None} /\ owner.b \in Int /\ owner.then \in {"return", "pop"}
         /\ bottom \in Int /\ bottom \in Nat \cup {-1} /\ top \in Nat /\ Deque!Last \in Int
         /\ failed_head \in Deque!Tasks \cup {None}
         /\ undefined \in {"nothing", "no such queue", "read of a freed task"}
  <1>1. owner \in OwnerLocals /\ bottom \in Nat \cup {-1} /\ failed_head \in Deque!Tasks \cup {None}
        /\ undefined \in {"nothing", "no such queue", "read of a freed task"}
    BY DEF DequeInv, QueueTyped
  <1>2. owner.b \in Nat \cup {-1} /\ owner.at \in OwnerPlaces
        /\ owner.task \in Deque!Tasks \cup {None} /\ owner.then \in {"return", "pop"}
    BY <1>1 DEF OwnerLocals
  <1>3. \A n \in Nat \cup {-1} : n \in Int
    OBVIOUS
  <1>4. owner.b \in Int /\ bottom \in Int
    BY <1>1, <1>2, <1>3, Zenon
  <1> QED BY <1>1, <1>2, <1>4, LastTyped DEF DequeInv

\* Outside of pop, the last element is below bottom.
LEMMA LastIs ==
  /\ owner.at \notin {"top", "last", "restore"} => Deque!Last = bottom - 1
  /\ owner.at \in {"top", "last", "restore"} => Deque!Last = bottom
  BY DEF Deque!Last, Deque!Popping

LEMMA PushHasRoomInv ==
  ASSUME Deque!QueueParameters, DequeInv, Deque!PushHasRoom
  PROVE  DequeInv' /\ bagVars' = bagVars
  <1>1. owner.at = "push" /\ owner' = [owner EXCEPT !.at = "write", !.b = bottom]
        /\ ~(bottom - top > Capacity - 1)
        /\ UNCHANGED <<array, top, bottom, failed_head, after, state, thief, hosted, undefined>>
    BY DEF Deque!PushHasRoom, Deque!Owner, Deque!Full
  <1>2. owner'.at = "write" /\ owner'.b = bottom /\ owner'.task = owner.task /\ owner' \in OwnerLocals
    BY <1>1, OwnerTyped DEF OwnerLocals, OwnerPlaces
  <1>0. bottom \in Int /\ top \in Nat /\ Capacity \in Nat
    BY OwnerTyped DEF Deque!QueueParameters
  <1>3. Deque!Last' = Deque!Last /\ bottom < top + Capacity
    BY <1>0, <1>1, <1>2 DEF Deque!Last, Deque!Popping
  <1>4. Deque!Elements' = Deque!Elements /\ Deque!FailedTasks' = Deque!FailedTasks
    BY <1>1, <1>2, <1>3 DEF Deque!Elements, Deque!FailedTasks, Deque!Owner
  <1>5. OwnerInv'
    BY <1>1, <1>2, <1>3, <1>4 DEF OwnerInv, DequeInv, Deque!Popping
  <1> QED BY <1>1, <1>2, <1>3, <1>5, OwnerTyped, OwnerFrame

\* The owner goes to a place of which nothing is known.
LEMMA GoesOn ==
  ASSUME DequeInv, owner' \in OwnerLocals, owner'.at \in {"idle", "flush", "pop", "return"},
         owner.at \notin {"step", "top", "last", "restore"},
         UNCHANGED <<array, top, bottom, failed_head, after, state, thief, hosted>>,
         undefined' \in {"nothing", "no such queue", "read of a freed task"}
  PROVE  DequeInv' /\ bagVars' = bagVars
  <1>1. Deque!Last' = Deque!Last
    BY DEF Deque!Last, Deque!Popping
  <1>2. OwnerInv'
    BY DEF OwnerInv, Deque!Popping
  <1> QED BY <1>1, <1>2, OwnerTyped, OwnerFrame

LEMMA FlushStopsInv ==
  ASSUME DequeInv, Deque!FlushStops
  PROVE  DequeInv' /\ bagVars' = bagVars
  <1>1. owner' \in OwnerLocals /\ owner'.at \in {"return", "pop"}
    BY OwnerTyped DEF Deque!FlushStops, Deque!Goto, OwnerLocals, OwnerPlaces
  <1> QED BY <1>1, GoesOn, OwnerTyped DEF Deque!FlushStops, Deque!Owner

LEMMA FlushInv ==
  ASSUME Deque!QueueParameters, DequeInv, Deque!Flush
  PROVE  DequeInv' /\ bagVars' = bagVars
  <1>1. owner.at = "flush" /\ UNCHANGED <<array, top, bottom, failed_head, after, state, thief, hosted, undefined>>
    BY DEF Deque!Flush, Deque!Owner
  <1>2. CASE failed_head = None
    <2>1. owner' \in OwnerLocals /\ owner'.at \in {"return", "pop"}
      BY <1>2, OwnerTyped DEF Deque!Flush, OwnerLocals, OwnerPlaces
    <2> QED BY <1>1, <2>1, GoesOn, OwnerTyped
  <1>3. CASE failed_head # None
    <2>1. owner' = [owner EXCEPT !.at = "push", !.task = failed_head] /\ failed_head \in Deque!Tasks
      BY <1>3, OwnerTyped DEF Deque!Flush
    <2>2. owner' \in OwnerLocals /\ owner'.at = "push" /\ owner'.task = failed_head
      BY <2>1, OwnerTyped DEF OwnerLocals, OwnerPlaces
    <2>3. Deque!Last' = Deque!Last
      BY <1>1, <2>2 DEF Deque!Last, Deque!Popping
    <2>4. Deque!FailedTasks = Deque!Chain(failed_head, after)
      BY <1>1, FailedAre DEF DequeInv
    <2>5. failed_head \in Deque!FailedTasks
      BY <2>1, <2>4, ChainClosed DEF DequeInv, QueueTyped, Deque!QueueParameters
    <2>6. failed_head \notin Deque!Elements /\ state[failed_head] = "scheduled"
      BY <2>5 DEF DequeInv, InOwnersList, Queued, QueuedIn, Deque!Elements
    <2>7. Deque!Elements' = Deque!Elements
      BY <1>1, <2>3 DEF Deque!Elements
    <2>8. OwnerInv'
      BY <1>1, <2>1, <2>2, <2>6, <2>7 DEF OwnerInv, Deque!Popping
    <2> QED BY <1>1, <2>2, <2>3, <2>8, OwnerTyped, OwnerFrame
  <1> QED BY <1>2, <1>3

LEMMA PopReadyTaskInv ==
  ASSUME DequeInv, Deque!PopReadyTask
  PROVE  DequeInv' /\ bagVars' = bagVars
  <1>1. owner' \in OwnerLocals /\ owner'.at = "flush"
    BY DEF Deque!PopReadyTask, Deque!Resting, OwnerLocals, OwnerPlaces
  <1> QED BY <1>1, GoesOn, OwnerTyped DEF Deque!PopReadyTask, Deque!Owner

LEMMA ReturnInv ==
  ASSUME DequeInv, Deque!Return
  PROVE  DequeInv' /\ bagVars' = bagVars
  <1>1. owner' \in OwnerLocals /\ owner'.at = "idle"
    BY DEF Deque!Return, Deque!Resting, OwnerLocals, OwnerPlaces
  <1> QED BY <1>1, GoesOn, OwnerTyped DEF Deque!Return, Deque!Owner

LEMMA PopLowersInv ==
  ASSUME DequeInv, Deque!PopLowers
  PROVE  DequeInv' /\ bagVars' = bagVars
  <1>1. owner.at = "pop" /\ failed_head = None /\ bottom' = bottom - 1
        /\ owner' = [owner EXCEPT !.at = "top", !.b = bottom - 1]
        /\ UNCHANGED <<array, top, failed_head, after, state, thief, hosted, undefined>>
    BY DEF Deque!PopLowers, Deque!Owner
  <1>0. bottom \in Int /\ top \in Nat /\ top <= bottom - 1 + 1
    BY <1>1, LastIs, OwnerTyped DEF DequeInv, Window
  <1>2. bottom - 1 \in Nat \cup {-1}
    BY <1>0
  <1>3. owner' \in OwnerLocals /\ owner'.at = "top" /\ owner'.b = bottom - 1
    BY <1>1, <1>2, OwnerTyped DEF OwnerLocals, OwnerPlaces
  <1>4. Deque!Last' = Deque!Last
    BY <1>1, <1>3, LastIs DEF Deque!Last, Deque!Popping
  <1>5. OwnerInv'
    BY <1>1, <1>3 DEF OwnerInv, Deque!Popping
  <1> QED BY <1>1, <1>2, <1>3, <1>4, <1>5, OwnerTyped, OwnerFrame

LEMMA PopRestoresInv ==
  ASSUME DequeInv, Deque!PopRestores
  PROVE  DequeInv' /\ bagVars' = bagVars
  <1>1. owner.at = "restore" /\ bottom' = owner.b + 1 /\ owner' = [owner EXCEPT !.at = "return"]
        /\ UNCHANGED <<array, top, failed_head, after, state, thief, hosted, undefined>>
    BY DEF Deque!PopRestores, Deque!Owner, Deque!Goto
  <1>2. owner.b = bottom /\ top = owner.b + 1
    BY <1>1 DEF DequeInv, OwnerInv, Deque!Popping
  <1>3. owner' \in OwnerLocals /\ owner'.at = "return"
    BY <1>1, OwnerTyped DEF OwnerLocals, OwnerPlaces
  <1>0. owner.b \in Int
    BY OwnerTyped
  <1>4. Deque!Last' = Deque!Last
    BY <1>0, <1>1, <1>2, <1>3 DEF Deque!Last, Deque!Popping
  <1>5. OwnerInv' /\ bottom' \in Nat \cup {-1}
    BY <1>1, <1>2, <1>3, OwnerTyped DEF OwnerInv, Deque!Popping
  <1> QED BY <1>1, <1>3, <1>4, <1>5, OwnerTyped, OwnerFrame

LEMMA ExecuteInv ==
  ASSUME DequeInv, Deque!Execute
  PROVE  DequeInv' /\ bagVars' = bagVars
  <1>1. owner.at = "idle" /\ hosted' = FALSE
        /\ UNCHANGED <<array, top, bottom, failed_head, after, state, owner, thief, undefined>>
    BY DEF Deque!Execute, Deque!Owner
  <1>2. Deque!Last' = Deque!Last /\ Deque!FailedTasks' = Deque!FailedTasks
    BY <1>1 DEF Deque!Last, Deque!Popping, Deque!FailedTasks, Deque!Owner
  <1>3. /\ Window' /\ Queued' /\ InOwnersList' /\ absBag' = absBag
        /\ \A p \in Thieves : ThiefInv(p)'
    BY <1>1, <1>2, Frame
  <1>4. QueueTyped' /\ OwnerInv' /\ absTaken' = absTaken
    BY <1>1 DEF DequeInv, QueueTyped, OwnerInv, Deque!Popping, absTaken
  <1> QED BY <1>3, <1>4 DEF DequeInv, bagVars

\* Steps that change the state of a task that is in no place, or done.
LEMMA StateFrame ==
  ASSUME DequeInv, UNCHANGED <<array, top, bottom, failed_head, after, thief, hosted, undefined>>,
         state' \in [Deque!Tasks -> {"new", "scheduled", "taken", "freed"}],
         \A x \in Deque!Tasks : state[x] = "scheduled" => state'[x] = "scheduled",
         \A x \in Deque!Tasks : state'[x] \in {"taken", "freed"} <=> state[x] \in {"taken", "freed"},
         owner' \in OwnerLocals, OwnerInv', Deque!Last' = Deque!Last, Deque!FailedTasks' = Deque!FailedTasks
  PROVE  DequeInv' /\ bagVars' = bagVars
  <1>1. /\ Window' /\ Queued' /\ InOwnersList' /\ absBag' = absBag
        /\ \A p \in Thieves : ThiefInv(p)'
    BY Frame
  <1>2. QueueTyped' /\ absTaken' = absTaken
    BY DEF DequeInv, QueueTyped, absTaken
  <1> QED BY <1>1, <1>2 DEF DequeInv, bagVars

LEMMA ScheduleInv ==
  ASSUME Deque!QueueParameters, DequeInv, NEW x \in Deque!Tasks, Deque!Schedule(x)
  PROVE  DequeInv' /\ bagVars' = bagVars
  <1>1. owner.at = "idle" /\ state[x] = "new"
        /\ owner' = [at |-> "push", task |-> x, b |-> 0, then |-> "return"]
        /\ state' = [state EXCEPT ![x] = "scheduled"]
        /\ UNCHANGED <<array, top, bottom, failed_head, after, thief, hosted, undefined>>
    BY DEF Deque!Schedule, Deque!Owner
  <1>2. state \in [Deque!Tasks -> {"new", "scheduled", "taken", "freed"}]
    BY DEF DequeInv, QueueTyped
  <1>3. x \notin Deque!Elements /\ x \notin Deque!FailedTasks
    BY <1>1 DEF DequeInv, InOwnersList, Queued, QueuedIn, Deque!Elements
  <1>4. owner' \in OwnerLocals
    BY <1>1 DEF OwnerLocals, OwnerPlaces
  <1>5. Deque!Last' = Deque!Last /\ Deque!FailedTasks' = Deque!FailedTasks
    BY <1>1 DEF Deque!Last, Deque!Popping, Deque!FailedTasks, Deque!Owner
  <1>6. Deque!Elements' = Deque!Elements
    BY <1>1, <1>5 DEF Deque!Elements
  <1>7. OwnerInv'
    BY <1>1, <1>2, <1>3, <1>5, <1>6 DEF OwnerInv, Deque!Popping
  <1> QED BY <1>1, <1>2, <1>4, <1>5, <1>7, StateFrame

LEMMA FinishInv ==
  ASSUME DequeInv, NEW x \in Deque!Tasks, Deque!Finish(x)
  PROVE  DequeInv' /\ bagVars' = bagVars
  <1>1. state[x] = "taken" /\ state' = [state EXCEPT ![x] = "freed"]
        /\ UNCHANGED <<array, top, bottom, failed_head, after, owner, thief, hosted, undefined>>
    BY DEF Deque!Finish
  <1>2. state \in [Deque!Tasks -> {"new", "scheduled", "taken", "freed"}]
    BY DEF DequeInv, QueueTyped
  <1>3. Deque!Last' = Deque!Last /\ Deque!FailedTasks' = Deque!FailedTasks
    BY <1>1 DEF Deque!Last, Deque!Popping, Deque!FailedTasks, Deque!Owner
  <1>4. Deque!Elements' = Deque!Elements
    BY <1>1, <1>3 DEF Deque!Elements
  <1>5. OwnerInv'
    BY <1>1, <1>2, <1>3, <1>4 DEF DequeInv, OwnerInv, Deque!Popping
  <1> QED BY <1>1, <1>2, <1>3, <1>5, OwnerTyped, StateFrame

-----------------------------------------------------------------------------
\* push.

LEMMA PushWritesInv ==
  ASSUME Deque!QueueParameters, DequeInv, Deque!PushWrites
  PROVE  DequeInv' /\ bagVars' = bagVars
  <1>1. owner.at = "write" /\ array' = [array EXCEPT ![owner.b % Capacity] = owner.task]
        /\ owner' = [owner EXCEPT !.at = "publish"]
        /\ UNCHANGED <<top, bottom, failed_head, after, state, thief, hosted, undefined>>
    BY DEF Deque!PushWrites, Deque!Owner, Deque!Goto
  <1>2. owner.b = bottom /\ bottom < top + Capacity /\ owner.task \in Deque!Tasks
    BY <1>1 DEF DequeInv, OwnerInv
  <1>3. Deque!Last = bottom - 1 /\ bottom \in Int /\ top \in Nat
    BY <1>1, LastIs, OwnerTyped
  <1>4. top <= bottom /\ bottom \in Nat
    BY <1>3 DEF DequeInv, Window
  <1>5. owner' \in OwnerLocals /\ owner'.at = "publish" /\ owner'.b = owner.b /\ owner'.task = owner.task
    BY <1>1, OwnerTyped DEF OwnerLocals, OwnerPlaces
  <1>6. Deque!Last' = Deque!Last
    BY <1>1, <1>5 DEF Deque!Last, Deque!Popping
  <1>7. array \in [0 .. Capacity - 1 -> Deque!Tasks \cup {None}]
    BY DEF DequeInv, QueueTyped
  <1>8. /\ \A i \in top .. Deque!Last : array'[i % Capacity] = array[i % Capacity]
        /\ array'[owner.b % Capacity] = owner.task
        /\ array' \in [0 .. Capacity - 1 -> Deque!Tasks \cup {None}]
    <2>1. \A i \in top .. bottom - 1 : i % Capacity # bottom % Capacity /\ i % Capacity \in 0 .. Capacity - 1
      BY <1>2, <1>3, <1>4, SlotBehind
    <2>2. bottom % Capacity \in 0 .. Capacity - 1
      BY <1>2, <1>3, <1>4, SlotBehind
    <2> PICK q : q = bottom % Capacity
      OBVIOUS
    <2>3. array' = [array EXCEPT ![q] = owner.task] /\ q \in 0 .. Capacity - 1
      BY <1>1, <1>2, <2>2
    <2>4. \A k \in 0 .. Capacity - 1 : k # q => array'[k] = array[k]
      BY <2>3, <1>7
    <2>5. array'[q] = owner.task /\ array' \in [0 .. Capacity - 1 -> Deque!Tasks \cup {None}]
      BY <2>3, <1>7, <1>2
    <2> QED BY <2>1, <2>4, <2>5, <1>2, <1>3
  <1>9. Deque!Elements' = Deque!Elements
    BY <1>1, <1>6, <1>8 DEF Deque!Elements
  <1>10. Deque!FailedTasks' = Deque!FailedTasks
    BY <1>1, <1>5 DEF Deque!FailedTasks, Deque!Owner
  <1>11. Queued'
    <2>1. QueuedIn(array', top, Deque!Last, state, Deque!FailedTasks)
      BY <1>8 DEF DequeInv, Queued, QueuedIn
    <2> QED BY <2>1, <1>1, <1>6, <1>10 DEF Queued
  <1>12. Window' /\ InOwnersList'
    BY <1>1, <1>6, <1>10 DEF DequeInv, Window, InOwnersList
  <1>13. OwnerInv'
    BY <1>1, <1>2, <1>5, <1>8, <1>9, <1>10 DEF DequeInv, OwnerInv, Deque!Popping
  <1>14. ASSUME NEW p \in Thieves PROVE ThiefInv(p)'
    <2>1. thief[p].at = "claim" /\ thief[p].t = top => array'[top % Capacity] = array[top % Capacity]
      BY <1>3, <1>8 DEF DequeInv, ThiefInv
    <2> QED BY <2>1, <1>1, <1>6 DEF DequeInv, ThiefInv
  <1>15. QueueTyped'
    BY <1>1, <1>5, <1>8 DEF DequeInv, QueueTyped
  <1>16. bagVars' = bagVars
    BY <1>1, <1>9, <1>10 DEF bagVars, absBag, absTaken
  <1> QED BY <1>11, <1>12, <1>13, <1>14, <1>15, <1>16 DEF DequeInv

\* The new bottom makes the task an element.
LEMMA Published ==
  ASSUME Deque!QueueParameters, DequeInv, Deque!PushPublishes
  PROVE  /\ Deque!Last = bottom - 1 /\ Deque!Last' = bottom /\ bottom \in Nat /\ bottom' = bottom + 1
         /\ top \in Nat /\ top <= bottom /\ bottom < top + Capacity
         /\ Deque!Elements' = Deque!Elements \cup {owner.task}
         /\ array[bottom % Capacity] = owner.task
         /\ owner' \in OwnerLocals /\ owner'.at = IF owner.task = failed_head THEN "step" ELSE "flush"
  <1>1. owner.at = "publish" /\ bottom' = owner.b + 1
        /\ owner' = [owner EXCEPT !.at = IF owner.task = failed_head THEN "step" ELSE "flush"]
        /\ UNCHANGED <<array, top, failed_head, after, state, thief, hosted, undefined>>
    BY DEF Deque!PushPublishes, Deque!Owner, Deque!Goto
  <1>2. owner.b = bottom /\ bottom < top + Capacity /\ array[owner.b % Capacity] = owner.task
    BY <1>1 DEF DequeInv, OwnerInv
  <1>3. Deque!Last = bottom - 1 /\ bottom \in Int /\ top \in Nat
    BY <1>1, LastIs, OwnerTyped
  <1>4. top <= bottom /\ bottom \in Nat
    BY <1>3 DEF DequeInv, Window
  <1>5. owner' \in OwnerLocals /\ owner'.at = IF owner.task = failed_head THEN "step" ELSE "flush"
    BY <1>1, OwnerTyped DEF OwnerLocals, OwnerPlaces
  <1>6. Deque!Last' = bottom
    BY <1>1, <1>2, <1>3, <1>5 DEF Deque!Last, Deque!Popping
  <1>7. top .. bottom = (top .. bottom - 1) \cup {bottom}
    BY <1>3, <1>4
  <1>8. Deque!Elements' = Deque!Elements \cup {owner.task}
    BY <1>1, <1>2, <1>3, <1>6, <1>7 DEF Deque!Elements
  <1> QED BY <1>1, <1>2, <1>3, <1>4, <1>5, <1>6, <1>8

LEMMA PushPublishesInv ==
  ASSUME Deque!QueueParameters, DequeInv, Deque!PushPublishes
  PROVE  DequeInv' /\ (bagVars' = bagVars \/ \E x \in Deque!Tasks : Deque!Bag!Put(x))
  <1>1. owner.at = "publish" /\ UNCHANGED <<array, top, failed_head, after, state, thief, hosted, undefined>>
    BY DEF Deque!PushPublishes, Deque!Owner
  <1>2. /\ Deque!Last = bottom - 1 /\ Deque!Last' = bottom /\ bottom \in Nat /\ bottom' = bottom + 1
        /\ top \in Nat /\ top <= bottom /\ bottom < top + Capacity
        /\ Deque!Elements' = Deque!Elements \cup {owner.task}
        /\ array[bottom % Capacity] = owner.task
        /\ owner' \in OwnerLocals /\ owner'.at = IF owner.task = failed_head THEN "step" ELSE "flush"
    BY Published
  <1> PICK x : x = owner.task
    OBVIOUS
  <1>3. /\ x \in Deque!Tasks /\ state[x] = "scheduled" /\ x \notin Deque!Elements
        /\ x = failed_head \/ x \notin Deque!FailedTasks
    BY <1>1 DEF DequeInv, OwnerInv
  <1>4. Deque!FailedTasks = Deque!Chain(failed_head, after) /\ after \in Links
    BY <1>1, FailedAre DEF DequeInv, QueueTyped
  <1>5. Deque!FailedTasks' = Deque!FailedTasks \ {x}
    <2>1. CASE x = failed_head
      <3>1. failed_head # None /\ failed_head \in Deque!Tasks
        BY <2>1, <1>3 DEF Deque!QueueParameters
      <3>2. Deque!FailedTasks' = Deque!Chain(after[failed_head], after)
        BY <1>1, <1>2, <2>1, <3>1 DEF Deque!FailedTasks, Deque!Owner
      <3>3. Deque!Chain(after[failed_head], after) = Deque!Chain(failed_head, after) \ {failed_head}
        BY <3>1, <1>4, AcyclicRest DEF DequeInv, InOwnersList
      <3> QED BY <3>2, <3>3, <2>1, <1>4
    <2>2. CASE x # failed_head
      <3>1. Deque!FailedTasks' = Deque!FailedTasks
        BY <1>1, <1>2, <2>2 DEF Deque!FailedTasks, Deque!Owner
      <3> QED BY <3>1, <2>2, <1>3
    <2> QED BY <2>1, <2>2
  <1>6. \A i \in top .. Deque!Last : array[i % Capacity] \in Deque!Elements
    BY DEF Deque!Elements
  <1>7. Queued'
    <2>1. QueuedIn(array, top, bottom, state, Deque!FailedTasks \ {x})
      BY <1>2, <1>3, <1>6 DEF DequeInv, Queued, QueuedIn
    <2> QED BY <2>1, <1>1, <1>2, <1>5 DEF Queued
  <1>8. Window'
    BY <1>1, <1>2 DEF Window
  <1>9. InOwnersList'
    BY <1>1, <1>5 DEF DequeInv, InOwnersList
  <1>10. OwnerInv'
    BY <1>1, <1>2, <1>3 DEF OwnerInv, Deque!Popping, Deque!QueueParameters
  <1>11. ASSUME NEW p \in Thieves PROVE ThiefInv(p)'
    BY <1>1, <1>2 DEF DequeInv, ThiefInv
  <1>12. QueueTyped'
    <2>1. bottom' \in Nat \cup {-1}
      BY <1>2
    <2> QED BY <2>1, <1>1, <1>2 DEF DequeInv, QueueTyped
  <1>13. absTaken' = absTaken /\ x \notin absTaken
    BY <1>1, <1>3 DEF absTaken
  <1>14. bagVars' = bagVars \/ Deque!Bag!Put(x)
    <2>1. CASE x = failed_head
      <3>1. x \in Deque!FailedTasks
        BY <2>1, <1>3, <1>4, ChainClosed DEF Deque!QueueParameters
      <3> QED BY <3>1, <1>2, <1>5, <1>13 DEF bagVars, absBag
    <2>2. CASE x # failed_head
      <3>1. absBag' = absBag \cup {x} /\ x \notin absBag
        BY <2>2, <1>2, <1>3, <1>5 DEF absBag
      <3> QED BY <3>1, <1>13 DEF Deque!Bag!Put, absBag, absTaken
    <2> QED BY <2>1, <2>2
  <1> QED BY <1>3, <1>7, <1>8, <1>9, <1>10, <1>11, <1>12, <1>14 DEF DequeInv

LEMMA PushFailsInv ==
  ASSUME Deque!QueueParameters, DequeInv, Deque!PushFails
  PROVE  DequeInv' /\ (bagVars' = bagVars \/ \E x \in Deque!Tasks : Deque!Bag!Put(x))
  <1>1. owner.at = "push" /\ owner.task # failed_head
        /\ UNCHANGED <<array, top, bottom, state, thief, hosted>>
    BY DEF Deque!PushFails, Deque!Owner
  <1>2. CASE hosted
    <2>1. undefined' = "no such queue" /\ UNCHANGED <<failed_head, after, owner>>
      BY <1>2 DEF Deque!PushFails
    <2>2. Deque!Last' = Deque!Last /\ Deque!FailedTasks' = Deque!FailedTasks
      BY <1>1, <2>1 DEF Deque!Last, Deque!Popping, Deque!FailedTasks, Deque!Owner
    <2>3. Deque!Elements' = Deque!Elements
      BY <1>1, <2>2 DEF Deque!Elements
    <2>4. OwnerInv'
      BY <1>1, <2>1, <2>2, <2>3 DEF DequeInv, OwnerInv, Deque!Popping
    <2> QED BY <1>1, <2>1, <2>2, <2>4, OwnerTyped, OwnerFrame
  <1>3. CASE ~hosted
    <2> PICK x : x = owner.task
      OBVIOUS
    <2>1. after' = [after EXCEPT ![x] = failed_head] /\ failed_head' = x
          /\ owner' = [owner EXCEPT !.at = "flush"] /\ UNCHANGED undefined
      BY <1>3 DEF Deque!PushFails, Deque!Goto
    <2>2. x \in Deque!Tasks /\ state[x] = "scheduled" /\ x \notin Deque!Elements /\ x \notin Deque!FailedTasks
      BY <1>1 DEF DequeInv, OwnerInv
    <2>3. Deque!FailedTasks = Deque!Chain(failed_head, after) /\ after \in Links /\ failed_head \in Deque!Tasks \cup {None}
      BY <1>1, FailedAre DEF DequeInv, QueueTyped
    <2>4. owner' \in OwnerLocals /\ owner'.at = "flush"
      BY <2>1, OwnerTyped DEF OwnerLocals, OwnerPlaces
    <2>5. /\ after' \in Links /\ Acyclic(x, after')
          /\ Deque!Chain(x, after') = {x} \cup Deque!Chain(failed_head, after)
      <3>1. Acyclic(failed_head, after) /\ x \in Deque!Tasks \ Deque!Chain(failed_head, after)
        BY <2>2, <2>3 DEF DequeInv, InOwnersList
      <3> QED BY <3>1, <2>1, <2>3, ChainGrows
    <2>6. Deque!FailedTasks' = Deque!FailedTasks \cup {x}
      <3>1. failed_head' # None /\ ~Deque!Owner("step")'
        BY <2>1, <2>2, <2>4 DEF Deque!QueueParameters, Deque!Owner
      <3>2. Deque!FailedTasks' = Deque!Chain(failed_head', after')
        BY <3>1 DEF Deque!FailedTasks
      <3> QED BY <3>2, <2>1, <2>3, <2>5
    <2>7. Deque!Last' = Deque!Last
      BY <1>1, <2>4 DEF Deque!Last, Deque!Popping
    <2>8. Deque!Elements' = Deque!Elements
      BY <1>1, <2>7 DEF Deque!Elements
    <2>9. QueueTyped'
      BY <1>1, <2>1, <2>2, <2>4, <2>5 DEF DequeInv, QueueTyped
    <2>10. Window' /\ InOwnersList'
      BY <1>1, <2>1, <2>2, <2>5, <2>6, <2>7 DEF DequeInv, Window, InOwnersList
    <2>11. Queued'
      <3>1. \A i \in top .. Deque!Last : array[i % Capacity] \in Deque!Elements
        BY DEF Deque!Elements
      <3>2. QueuedIn(array, top, Deque!Last, state, Deque!FailedTasks \cup {x})
        BY <3>1, <2>2 DEF DequeInv, Queued, QueuedIn
      <3> QED BY <3>2, <1>1, <2>6, <2>7 DEF Queued
    <2>12. OwnerInv' /\ \A p \in Thieves : ThiefInv(p)'
      BY <1>1, <2>4, <2>7 DEF DequeInv, OwnerInv, Deque!Popping, ThiefInv
    <2>13. absBag' = absBag \cup {x} /\ x \notin absBag
      BY <2>2, <2>6, <2>8 DEF absBag
    <2>14. absTaken' = absTaken /\ x \notin absTaken
      BY <1>1, <2>2 DEF absTaken
    <2>15. Deque!Bag!Put(x)
      BY <2>13, <2>14 DEF Deque!Bag!Put, absBag, absTaken
    <2> QED BY <2>2, <2>9, <2>10, <2>11, <2>12, <2>15 DEF DequeInv
  <1> QED BY <1>2, <1>3

LEMMA FlushStepsInv ==
  ASSUME Deque!QueueParameters, DequeInv, Deque!FlushSteps
  PROVE  DequeInv' /\ bagVars' = bagVars
  <1>1. owner.at = "step" /\ UNCHANGED <<array, top, bottom, after, state, thief, hosted>>
    BY DEF Deque!FlushSteps, Deque!Owner
  <1>2. failed_head # None /\ failed_head \in Deque!Tasks /\ after \in Links
    BY <1>1 DEF DequeInv, OwnerInv, QueueTyped
  <1>3. Deque!FailedTasks = Deque!Chain(after[failed_head], after)
    BY <1>1, <1>2, FailedAre DEF DequeInv
  <1>4. CASE state[failed_head] = "freed"
    <2>1. undefined' = "read of a freed task" /\ UNCHANGED <<failed_head, owner>>
      BY <1>4 DEF Deque!FlushSteps
    <2>2. Deque!Last' = Deque!Last /\ Deque!FailedTasks' = Deque!FailedTasks
      BY <1>1, <2>1 DEF Deque!Last, Deque!Popping, Deque!FailedTasks, Deque!Owner
    <2>3. /\ Window' /\ Queued' /\ InOwnersList' /\ absBag' = absBag
          /\ \A p \in Thieves : ThiefInv(p)'
      BY <1>1, <2>1, <2>2, Frame
    <2>4. QueueTyped' /\ absTaken' = absTaken
      BY <1>1, <2>1 DEF DequeInv, QueueTyped, absTaken
    <2>5. OwnerInv'
      BY <1>1, <2>1 DEF DequeInv, OwnerInv, Deque!Popping
    <2> QED BY <2>3, <2>4, <2>5 DEF DequeInv, bagVars
  <1>5. CASE state[failed_head] # "freed"
    <2>1. failed_head' = after[failed_head] /\ owner' = [owner EXCEPT !.at = "flush"] /\ UNCHANGED undefined
      BY <1>5 DEF Deque!FlushSteps, Deque!Goto
    <2>2. owner' \in OwnerLocals /\ owner'.at = "flush"
      BY <2>1, OwnerTyped DEF OwnerLocals, OwnerPlaces
    <2>3. QueueTyped'
      BY <1>1, <1>2, <2>1, <2>2 DEF DequeInv, QueueTyped, Links
    <2>4. Deque!FailedTasks' = Deque!FailedTasks
      <3>1. ~Deque!Owner("step")' /\ failed_head' = after[failed_head] /\ after' = after
        BY <1>1, <2>1, <2>2 DEF Deque!Owner
      <3>2. Deque!FailedTasks' = IF after[failed_head] = None THEN {} ELSE Deque!Chain(after[failed_head], after)
        BY <3>1 DEF Deque!FailedTasks
      <3> QED BY <3>2, <1>3, ChainNone
    <2>5. Deque!Last' = Deque!Last
      BY <1>1, <2>2 DEF Deque!Last, Deque!Popping
    <2>6. Deque!Elements' = Deque!Elements
      BY <1>1, <2>5 DEF Deque!Elements
    <2>7. Acyclic(after[failed_head], after)
      BY <1>2, AcyclicRest DEF DequeInv, InOwnersList
    <2>8. Window' /\ Queued' /\ InOwnersList'
      BY <1>1, <2>1, <2>4, <2>5, <2>7 DEF DequeInv, Window, Queued, InOwnersList
    <2>9. OwnerInv' /\ \A p \in Thieves : ThiefInv(p)'
      BY <1>1, <2>2, <2>5 DEF DequeInv, OwnerInv, Deque!Popping, ThiefInv
    <2>10. bagVars' = bagVars
      BY <1>1, <2>4, <2>6 DEF bagVars, absBag, absTaken
    <2> QED BY <2>3, <2>8, <2>9, <2>10 DEF DequeInv
  <1> QED BY <1>4, <1>5

-----------------------------------------------------------------------------
\* Taking tasks.

\* A task that is taken was in the bag, and leaves it.
LEMMA Taken ==
  ASSUME DequeInv, NEW x \in absBag, Deque!Takes(x), absBag' = absBag \ {x}
  PROVE  x \in Deque!Tasks /\ Deque!Bag!Take(x) /\ state[x] = "scheduled" /\ state'[x] = "taken"
         /\ (\A y \in Deque!Tasks \ {x} : state'[y] = state[y])
         /\ state' \in [Deque!Tasks -> {"new", "scheduled", "taken", "freed"}]
  <1>1. x \in Deque!Tasks /\ state[x] = "scheduled"
    BY FailedAre DEF DequeInv, absBag, InOwnersList, Queued, QueuedIn, Deque!Elements
  <1>2. state \in [Deque!Tasks -> {"new", "scheduled", "taken", "freed"}] /\ state' = [state EXCEPT ![x] = "taken"]
    BY DEF DequeInv, QueueTyped, Deque!Takes
  <1>3. state'[x] = "taken" /\ (\A y \in Deque!Tasks \ {x} : state'[y] = state[y])
        /\ state' \in [Deque!Tasks -> {"new", "scheduled", "taken", "freed"}]
    BY <1>1, <1>2
  <1>4. absTaken' = absTaken \cup {x}
    BY <1>1, <1>3 DEF absTaken
  <1>5. Deque!Bag!Take(x)
    BY <1>4 DEF Deque!Bag!Take, absBag, absTaken
  <1> QED BY <1>1, <1>3, <1>5

LEMMA PopFailedInv ==
  ASSUME Deque!QueueParameters, DequeInv, Deque!PopFailedInsertion
  PROVE  DequeInv' /\ \E x \in Deque!Tasks : Deque!Bag!Take(x)
  <1> PICK x : x = failed_head
    OBVIOUS
  <1>1. owner.at = "pop" /\ x # None /\ failed_head' = after[x] /\ Deque!Takes(x)
        /\ owner' = [owner EXCEPT !.at = "return", !.task = x]
        /\ UNCHANGED <<array, top, bottom, after, thief, hosted, undefined>>
    BY DEF Deque!PopFailedInsertion, Deque!Owner
  <1>2. x \in Deque!Tasks /\ after \in Links /\ Deque!FailedTasks = Deque!Chain(x, after)
    BY <1>1, FailedAre DEF DequeInv, QueueTyped
  <1>3. owner' \in OwnerLocals /\ owner'.at = "return"
    BY <1>1, <1>2, OwnerTyped DEF OwnerLocals, OwnerPlaces
  <1>4. Acyclic(after[x], after) /\ Deque!Chain(after[x], after) = Deque!Chain(x, after) \ {x}
    BY <1>2, AcyclicRest DEF DequeInv, InOwnersList
  <1>5. Deque!FailedTasks' = Deque!FailedTasks \ {x}
    <2>1. Deque!FailedTasks' = IF after[x] = None THEN {} ELSE Deque!Chain(after[x], after)
      BY <1>1, <1>3 DEF Deque!FailedTasks, Deque!Owner
    <2> QED BY <2>1, <1>2, <1>4, ChainNone
  <1>6. x \in Deque!FailedTasks
    BY <1>1, <1>2, ChainClosed
  <1>7. Deque!Last' = Deque!Last
    BY <1>1, <1>3 DEF Deque!Last, Deque!Popping
  <1>8. Deque!Elements' = Deque!Elements /\ x \notin Deque!Elements
    BY <1>1, <1>6, <1>7 DEF Deque!Elements, DequeInv, Queued, QueuedIn
  <1>9. absBag' = absBag \ {x} /\ x \in absBag
    BY <1>5, <1>6, <1>8 DEF absBag
  <1>10. /\ Deque!Bag!Take(x) /\ (\A y \in Deque!Tasks \ {x} : state'[y] = state[y])
         /\ state' \in [Deque!Tasks -> {"new", "scheduled", "taken", "freed"}]
    BY <1>1, <1>9, Taken
  <1>11. QueueTyped'
    BY <1>1, <1>2, <1>3, <1>10 DEF DequeInv, QueueTyped, Links
  <1>12. Window' /\ InOwnersList'
    BY <1>1, <1>4, <1>5, <1>7, <1>10, FailedAre DEF DequeInv, Window, InOwnersList
  <1>13. Queued'
    <2>1. \A i \in top .. Deque!Last : array[i % Capacity] \in Deque!Elements /\ array[i % Capacity] \in Deque!Tasks
      BY DEF Deque!Elements, DequeInv, Queued, QueuedIn
    <2>2. QueuedIn(array, top, Deque!Last, state', Deque!FailedTasks \ {x})
      BY <2>1, <1>8, <1>10 DEF DequeInv, Queued, QueuedIn
    <2> QED BY <2>2, <1>1, <1>5, <1>7 DEF Queued
  <1>14. OwnerInv' /\ \A p \in Thieves : ThiefInv(p)'
    BY <1>1, <1>3, <1>7 DEF DequeInv, OwnerInv, Deque!Popping, ThiefInv
  <1> QED BY <1>2, <1>10, <1>11, <1>12, <1>13, <1>14 DEF DequeInv

\* The first element goes.
LEMMA TakesFirst ==
  ASSUME Deque!QueueParameters, DequeInv, top <= Deque!Last, NEW x, x = array[top % Capacity], Deque!Takes(x), top' = top + 1,
         UNCHANGED <<array, failed_head, after>>, Deque!Last' = Deque!Last, Deque!FailedTasks' = Deque!FailedTasks
  PROVE  /\ Window' /\ Queued' /\ InOwnersList'
         /\ x \in Deque!Tasks /\ Deque!Bag!Take(x)
         /\ state[x] = "scheduled"
         /\ \A y \in Deque!Tasks \ {x} : state'[y] = state[y]
         /\ state' \in [Deque!Tasks -> {"new", "scheduled", "taken", "freed"}]
         /\ Deque!Elements' = Deque!Elements \ {x} /\ x \in Deque!Elements
         /\ \A p \in Thieves : thief'[p] = thief[p] => ThiefInv(p)'
  <1>1. top \in Nat /\ Deque!Last \in Int
    BY LastTyped DEF DequeInv
  <1>2. Deque!Elements' = Held(array, top + 1, Deque!Last) /\ Deque!Elements = Held(array, top, Deque!Last)
    BY DEF Deque!Elements, Held
  <1>3. Deque!Elements' = Deque!Elements \ {x} /\ x \in Deque!Elements
    BY <1>1, <1>2, HeldLess DEF DequeInv, Queued
  <1>4. x \notin Deque!FailedTasks
    BY <1>3 DEF Deque!Elements, DequeInv, Queued, QueuedIn
  <1>5. absBag' = absBag \ {x} /\ x \in absBag
    BY <1>3, <1>4 DEF absBag
  <1>6. /\ x \in Deque!Tasks /\ Deque!Bag!Take(x) /\ state[x] = "scheduled"
        /\ \A y \in Deque!Tasks \ {x} : state'[y] = state[y]
        /\ state' \in [Deque!Tasks -> {"new", "scheduled", "taken", "freed"}]
    BY <1>5, Taken
  <1>7. Window'
    BY <1>1 DEF DequeInv, Window, Deque!QueueParameters
  <1>8. Queued'
    <2>1. \A i \in top + 1 .. Deque!Last : array[i % Capacity] # x /\ array[i % Capacity] \in Deque!Tasks
      BY <1>1 DEF DequeInv, Queued, QueuedIn
    <2>2. \A i \in top + 1 .. Deque!Last : state'[array[i % Capacity]] = state[array[i % Capacity]]
      BY <2>1, <1>6
    <2>3. QueuedIn(array, top + 1, Deque!Last, state', Deque!FailedTasks)
      BY <2>2, <1>1 DEF DequeInv, Queued, QueuedIn
    <2> QED BY <2>3 DEF Queued
  <1>9. InOwnersList'
    BY <1>4, <1>6, FailedAre DEF DequeInv, InOwnersList
  <1>10. ASSUME NEW p \in Thieves, thief'[p] = thief[p] PROVE ThiefInv(p)'
    <2>1. thief[p].t \in Nat
      BY DEF DequeInv, QueueTyped, ThiefLocals
    <2> QED BY <1>1, <1>10, <2>1 DEF DequeInv, ThiefInv
  <1> QED BY <1>3, <1>6, <1>7, <1>8, <1>9, <1>10

LEMMA PopReadsTopInv ==
  ASSUME Deque!QueueParameters, DequeInv, Deque!PopReadsTop
  PROVE  DequeInv' /\ (bagVars' = bagVars \/ \E x \in Deque!Tasks : Deque!Bag!Take(x))
  <1> PICK x : x = array[owner.b % Capacity]
    OBVIOUS
  <1>1. owner.at = "top" /\ UNCHANGED <<array, top, bottom, failed_head, after, thief, hosted, undefined>>
    BY DEF Deque!PopReadsTop, Deque!Owner
  <1>2. owner.b = bottom /\ failed_head = None /\ Deque!Last = bottom
    BY <1>1, LastIs DEF DequeInv, OwnerInv, Deque!Popping
  <1>3. bottom \in Int /\ top \in Nat /\ top <= bottom + 1 /\ bottom < top + Capacity
    BY <1>2, OwnerTyped DEF DequeInv, Window
  <1>4. CASE top < bottom
    <2>1. Deque!Takes(x) /\ owner' = [owner EXCEPT !.at = "return", !.task = x]
      BY <1>2, <1>4 DEF Deque!PopReadsTop, Deque!TakesBottom
    <2>2. Deque!Elements = Held(array, top, bottom) /\ QueuedIn(array, top, bottom, state, Deque!FailedTasks)
      BY <1>2, ElementsHeld DEF DequeInv, Queued
    <2>3. /\ Held(array, top, bottom - 1) = Held(array, top, bottom) \ {x}
          /\ x \in Held(array, top, bottom)
      BY <1>2, <1>3, <1>4, <2>2, HeldLess
    <2>4. x \in Deque!Tasks /\ x \notin Deque!FailedTasks
      BY <2>2, <2>3 DEF Held, QueuedIn
    <2>5. owner' \in OwnerLocals /\ owner'.at = "return"
      BY <2>1, <2>4, OwnerTyped DEF OwnerLocals, OwnerPlaces
    <2>6. Deque!Last' = bottom - 1
      BY <1>1, <2>5 DEF Deque!Last, Deque!Popping
    <2>7. Deque!Elements' = Deque!Elements \ {x}
      BY <1>1, <2>2, <2>3, <2>6 DEF Deque!Elements, Held
    <2>8. Deque!FailedTasks' = Deque!FailedTasks
      BY <1>1, <1>2 DEF Deque!FailedTasks
    <2>9. absBag' = absBag \ {x} /\ x \in absBag
      BY <2>2, <2>3, <2>4, <2>7, <2>8 DEF absBag
    <2>10. /\ Deque!Bag!Take(x) /\ (\A y \in Deque!Tasks \ {x} : state'[y] = state[y])
           /\ state' \in [Deque!Tasks -> {"new", "scheduled", "taken", "freed"}]
      BY <2>1, <2>9, Taken
    <2>11. QueueTyped'
      BY <1>1, <2>5, <2>10 DEF DequeInv, QueueTyped
    <2>12. Window'
      BY <1>1, <1>3, <1>4, <2>6 DEF Window, Deque!QueueParameters
    <2>13. InOwnersList'
      BY <1>1, <2>4, <2>8, <2>10, FailedAre DEF DequeInv, InOwnersList
    <2>14. Queued'
      <3>1. \A i \in top .. bottom - 1 : array[i % Capacity] # x /\ array[i % Capacity] \in Deque!Tasks
        BY <1>2, <1>3, <1>4, <2>2 DEF QueuedIn
      <3>2. \A i \in top .. bottom - 1 : state'[array[i % Capacity]] = state[array[i % Capacity]]
        BY <3>1, <2>10
      <3>3. QueuedIn(array, top, bottom - 1, state', Deque!FailedTasks)
        BY <3>2, <1>3, <2>2 DEF QueuedIn
      <3> QED BY <3>3, <1>1, <2>6, <2>8 DEF Queued
    <2>15. OwnerInv'
      BY <2>5 DEF OwnerInv, Deque!Popping
    <2>16. ASSUME NEW p \in Thieves PROVE ThiefInv(p)'
      BY <1>1, <1>3, <1>4, <2>6 DEF DequeInv, ThiefInv
    <2> QED BY <2>4, <2>10, <2>11, <2>12, <2>13, <2>14, <2>15, <2>16 DEF DequeInv
  <1>5. CASE top = bottom
    <2>1. owner' = [owner EXCEPT !.at = "last", !.task = x] /\ UNCHANGED state
      BY <1>2, <1>3, <1>5 DEF Deque!PopReadsTop, Deque!TakesBottom
    <2>2. x \in Deque!Tasks
      BY <1>2, <1>3, <1>5 DEF DequeInv, Queued, QueuedIn
    <2>3. owner' \in OwnerLocals /\ owner'.at = "last" /\ owner'.task = x /\ owner'.b = owner.b
      BY <2>1, <2>2, OwnerTyped DEF OwnerLocals, OwnerPlaces
    <2>4. Deque!Last' = Deque!Last
      BY <1>1, <2>3 DEF Deque!Last, Deque!Popping
    <2>5. OwnerInv'
      BY <1>1, <1>2, <1>3, <1>5, <2>3 DEF OwnerInv, Deque!Popping
    <2> QED BY <1>1, <2>1, <2>3, <2>4, <2>5, OwnerTyped, OwnerFrame
  <1>6. CASE top > bottom
    <2>1. owner' = [owner EXCEPT !.at = "restore", !.task = None] /\ UNCHANGED state
      BY <1>2, <1>3, <1>6 DEF Deque!PopReadsTop, Deque!TakesBottom
    <2>2. owner' \in OwnerLocals /\ owner'.at = "restore" /\ owner'.b = owner.b
      BY <2>1, OwnerTyped DEF OwnerLocals, OwnerPlaces
    <2>3. Deque!Last' = Deque!Last
      BY <1>1, <2>2 DEF Deque!Last, Deque!Popping
    <2>4. OwnerInv'
      BY <1>1, <1>2, <1>3, <1>6, <2>2 DEF OwnerInv, Deque!Popping
    <2> QED BY <1>1, <2>1, <2>2, <2>3, <2>4, OwnerTyped, OwnerFrame
  <1> QED BY <1>3, <1>4, <1>5, <1>6

LEMMA PopTakesLastInv ==
  ASSUME Deque!QueueParameters, DequeInv, Deque!PopTakesLast
  PROVE  DequeInv' /\ (bagVars' = bagVars \/ \E x \in Deque!Tasks : Deque!Bag!Take(x))
  <1>1. owner.at = "last" /\ UNCHANGED <<array, bottom, failed_head, after, thief, hosted, undefined>>
    BY DEF Deque!PopTakesLast, Deque!Owner
  <1>2. owner.b = bottom /\ failed_head = None /\ Deque!Last = bottom
        /\ top >= owner.b /\ owner.task = array[owner.b % Capacity]
    BY <1>1, LastIs DEF DequeInv, OwnerInv, Deque!Popping
  <1>3. bottom \in Int /\ top \in Nat /\ top <= bottom + 1
    BY <1>2, OwnerTyped DEF DequeInv, Window
  <1>4. CASE top = bottom
    <2> PICK x : x = owner.task
      OBVIOUS
    <2>1. top' = top + 1 /\ Deque!Takes(x) /\ owner' = [owner EXCEPT !.at = "restore"]
      BY <1>2, <1>4 DEF Deque!PopTakesLast, Deque!Goto
    <2>2. owner' \in OwnerLocals /\ owner'.at = "restore" /\ owner'.b = owner.b
      BY <2>1, OwnerTyped DEF OwnerLocals, OwnerPlaces
    <2>3. Deque!Last' = Deque!Last /\ Deque!FailedTasks' = Deque!FailedTasks
      BY <1>1, <1>2, <2>2 DEF Deque!Last, Deque!Popping, Deque!FailedTasks
    <2>4. x = array[top % Capacity] /\ top <= Deque!Last
      BY <1>2, <1>3, <1>4
    <2>5. /\ Window' /\ Queued' /\ InOwnersList' /\ x \in Deque!Tasks /\ Deque!Bag!Take(x)
          /\ state' \in [Deque!Tasks -> {"new", "scheduled", "taken", "freed"}]
          /\ \A p \in Thieves : ThiefInv(p)'
      BY <1>1, <2>1, <2>3, <2>4, TakesFirst
    <2>6. QueueTyped'
      <3>1. top' \in Nat
        BY <1>3, <2>1
      <3> QED BY <3>1, <1>1, <2>2, <2>5 DEF DequeInv, QueueTyped
    <2>7. OwnerInv'
      BY <1>1, <1>2, <1>4, <2>1, <2>2 DEF OwnerInv, Deque!Popping
    <2> QED BY <2>5, <2>6, <2>7 DEF DequeInv
  <1>5. CASE top # bottom
    <2>1. owner' = [owner EXCEPT !.at = "restore", !.task = None] /\ UNCHANGED <<top, state>>
      BY <1>2, <1>5 DEF Deque!PopTakesLast
    <2>2. owner' \in OwnerLocals /\ owner'.at = "restore" /\ owner'.b = owner.b
      BY <2>1, OwnerTyped DEF OwnerLocals, OwnerPlaces
    <2>3. Deque!Last' = Deque!Last
      BY <1>1, <2>2 DEF Deque!Last, Deque!Popping
    <2>4. top = owner.b + 1
      BY <1>2, <1>3, <1>5
    <2>5. OwnerInv'
      BY <1>1, <1>2, <2>1, <2>2, <2>4 DEF OwnerInv, Deque!Popping
    <2> QED BY <1>1, <2>1, <2>2, <2>3, <2>5, OwnerTyped, OwnerFrame
  <1> QED BY <1>4, <1>5

\* A thief's claim, while the owner does what it does.
LEMMA StealClaimsInv ==
  ASSUME Deque!QueueParameters, DequeInv, NEW p \in Thieves, Deque!StealClaims(p)
  PROVE  DequeInv' /\ (bagVars' = bagVars \/ \E x \in Deque!Tasks : Deque!Bag!Take(x))
  <1>1. thief[p].at = "claim" /\ thief' = [thief EXCEPT ![p] = Deque!Looking]
        /\ UNCHANGED <<array, bottom, failed_head, after, owner, hosted, undefined>>
    BY DEF Deque!StealClaims, Deque!Thief
  <1>2. thief \in [Thieves -> ThiefLocals] /\ Deque!Looking \in ThiefLocals
    BY DEF DequeInv, QueueTyped, ThiefLocals, Deque!Looking
  <1>3. thief' \in [Thieves -> ThiefLocals] /\ thief'[p].at = "idle"
        /\ \A q \in Thieves \ {p} : thief'[q] = thief[q]
    BY <1>1, <1>2 DEF Deque!Looking
  <1>4. ThiefInv(p)'
    BY <1>3 DEF ThiefInv
  <1>5. Deque!Last' = Deque!Last /\ Deque!FailedTasks' = Deque!FailedTasks
    BY <1>1 DEF Deque!Last, Deque!Popping, Deque!FailedTasks, Deque!Owner
  <1>6. CASE top = thief[p].t
    <2> PICK x : x = thief[p].task
      OBVIOUS
    <2>1. top' = top + 1 /\ Deque!Takes(x)
      BY <1>6 DEF Deque!StealClaims
    <2>2. x = array[top % Capacity] /\ top <= Deque!Last
      BY <1>1, <1>6 DEF DequeInv, ThiefInv
    <2>3. /\ Window' /\ Queued' /\ InOwnersList' /\ x \in Deque!Tasks /\ Deque!Bag!Take(x)
          /\ \A y \in Deque!Tasks \ {x} : state'[y] = state[y]
          /\ state' \in [Deque!Tasks -> {"new", "scheduled", "taken", "freed"}]
          /\ Deque!Elements' = Deque!Elements \ {x} /\ x \in Deque!Elements
          /\ \A q \in Thieves : thief'[q] = thief[q] => ThiefInv(q)'
      BY <1>1, <1>5, <2>1, <2>2, TakesFirst
    <2>4. top \in Nat /\ Deque!Last \in Int /\ bottom \in Int /\ owner.b \in Int /\ Capacity \in Nat
      BY OwnerTyped DEF Deque!QueueParameters
    <2>5. QueueTyped'
      <3>1. top' \in Nat
        BY <2>1, <2>4
      <3> QED BY <3>1, <1>1, <1>3, <2>3 DEF DequeInv, QueueTyped
    <2>6. OwnerInv'
      <3>1. owner.at \in {"push", "write", "publish"} =>
               /\ owner.task \in Deque!Tasks /\ state'[owner.task] = "scheduled"
               /\ owner.task \notin Deque!Elements'
               /\ owner.task = failed_head \/ owner.task \notin Deque!FailedTasks
        BY <2>3 DEF DequeInv, OwnerInv
      <3>2. owner.at \in {"write", "publish"} => owner.b = bottom /\ bottom < top + 1 + Capacity
        BY <2>4 DEF DequeInv, OwnerInv
      <3>3. owner.at = "last" => top + 1 >= owner.b
        BY <2>4 DEF DequeInv, OwnerInv
      <3>4. owner.at # "restore"
        BY <2>2, <2>4, LastIs DEF DequeInv, OwnerInv, Deque!Popping
      <3> QED BY <1>1, <1>5, <2>1, <3>1, <3>2, <3>3, <3>4 DEF DequeInv, OwnerInv, Deque!Popping
    <2> QED BY <1>3, <1>4, <2>3, <2>5, <2>6 DEF DequeInv
  <1>7. CASE top # thief[p].t
    <2>1. UNCHANGED <<top, state>>
      BY <1>7 DEF Deque!StealClaims
    <2>2. /\ Window' /\ Queued' /\ InOwnersList' /\ absBag' = absBag /\ Deque!Elements' = Deque!Elements
          /\ \A q \in Thieves : thief'[q] = thief[q] => ThiefInv(q)'
      BY <1>1, <1>5, <2>1, Frame
    <2>3. QueueTyped' /\ absTaken' = absTaken
      BY <1>1, <1>3, <2>1 DEF DequeInv, QueueTyped, absTaken
    <2>4. OwnerInv'
      BY <1>1, <1>5, <2>1, <2>2 DEF DequeInv, OwnerInv, Deque!Popping
    <2> QED BY <1>3, <1>4, <2>2, <2>3, <2>4 DEF DequeInv, bagVars
  <1> QED BY <1>6, <1>7

\* What a thief reads.
LEMMA ThiefFrame ==
  ASSUME DequeInv, NEW p \in Thieves, NEW l \in ThiefLocals, thief' = [thief EXCEPT ![p] = l],
         UNCHANGED <<array, top, bottom, failed_head, after, state, owner, hosted, undefined>>,
         l.at # "idle" => l.t <= top,
         l.at \in {"element", "claim"} /\ l.t = top => top <= Deque!Last,
         l.at = "claim" /\ l.t = top => l.task = array[top % Capacity]
  PROVE  DequeInv' /\ bagVars' = bagVars
  <1>1. thief \in [Thieves -> ThiefLocals]
    BY DEF DequeInv, QueueTyped
  <1>2. thief' \in [Thieves -> ThiefLocals] /\ thief'[p] = l
        /\ \A q \in Thieves \ {p} : thief'[q] = thief[q]
    BY <1>1
  <1>3. Deque!Last' = Deque!Last /\ Deque!FailedTasks' = Deque!FailedTasks
    BY DEF Deque!Last, Deque!Popping, Deque!FailedTasks, Deque!Owner
  <1>4. /\ Window' /\ Queued' /\ InOwnersList' /\ absBag' = absBag /\ Deque!Elements' = Deque!Elements
        /\ \A q \in Thieves : thief'[q] = thief[q] => ThiefInv(q)'
    BY <1>3, Frame
  <1>5. ThiefInv(p)'
    BY <1>2, <1>3 DEF ThiefInv
  <1>6. QueueTyped' /\ absTaken' = absTaken
    BY <1>2 DEF DequeInv, QueueTyped, absTaken
  <1>7. OwnerInv'
    BY <1>3, <1>4 DEF DequeInv, OwnerInv, Deque!Popping
  <1> QED BY <1>2, <1>4, <1>5, <1>6, <1>7 DEF DequeInv, bagVars

LEMMA StealReadsInv ==
  ASSUME Deque!QueueParameters, DequeInv, NEW p \in Thieves,
         Deque!StealReadsTop(p) \/ Deque!StealReadsBottom(p) \/ Deque!StealReadsElement(p)
  PROVE  DequeInv' /\ bagVars' = bagVars
  <1> PICK l : l = thief[p]
    OBVIOUS
  <1>0. l \in ThiefLocals /\ top \in Nat /\ bottom \in Int /\ Deque!Last \in Int /\ l.t \in Nat
    BY OwnerTyped DEF DequeInv, QueueTyped, ThiefLocals
  <1>1. CASE Deque!StealReadsTop(p)
    <2> PICK m : m = [at |-> "bottom", task |-> None, t |-> top]
      OBVIOUS
    <2>1. thief' = [thief EXCEPT ![p] = m] /\ m \in ThiefLocals /\ m.at = "bottom" /\ m.t = top
          /\ UNCHANGED <<array, top, bottom, failed_head, after, state, owner, hosted, undefined>>
      BY <1>0, <1>1 DEF Deque!StealReadsTop, ThiefLocals
    <2>2. m.t <= top /\ m.at \notin {"element", "claim"}
      BY <2>1, <1>0
    <2> QED BY <2>1, <2>2, ThiefFrame
  <1>2. CASE Deque!StealReadsBottom(p)
    <2>1. l.at = "bottom" /\ UNCHANGED <<array, top, bottom, failed_head, after, state, owner, hosted, undefined>>
      BY <1>2 DEF Deque!StealReadsBottom, Deque!Thief
    <2>2. thief \in [Thieves -> ThiefLocals]
      BY DEF DequeInv, QueueTyped
    <2>3. CASE l.t < bottom
      <3> PICK m : m = [l EXCEPT !.at = "element"]
        OBVIOUS
      <3>1. thief' = [thief EXCEPT ![p] = m]
        BY <1>2, <2>2, <2>3 DEF Deque!StealReadsBottom
      <3>2. m \in ThiefLocals /\ m.at = "element" /\ m.t = l.t
        BY <1>0 DEF ThiefLocals
      <3>3. l.t <= top
        BY <2>1 DEF DequeInv, ThiefInv
      <3>4. l.t = top => top <= Deque!Last
        <4>1. Deque!Last = bottom \/ Deque!Last = bottom - 1
          BY DEF Deque!Last
        <4> QED BY <4>1, <2>3, <1>0
      <3> QED BY <2>1, <3>1, <3>2, <3>3, <3>4, ThiefFrame
    <2>4. CASE ~(l.t < bottom)
      <3>1. thief' = [thief EXCEPT ![p] = Deque!Looking]
        BY <1>2, <2>2, <2>4 DEF Deque!StealReadsBottom
      <3>2. Deque!Looking \in ThiefLocals /\ Deque!Looking.at = "idle"
        BY DEF Deque!Looking, ThiefLocals
      <3> QED BY <2>1, <3>1, <3>2, ThiefFrame
    <2> QED BY <2>3, <2>4
  <1>3. CASE Deque!StealReadsElement(p)
    <2>1. l.at = "element" /\ UNCHANGED <<array, top, bottom, failed_head, after, state, owner, hosted, undefined>>
      BY <1>3 DEF Deque!StealReadsElement, Deque!Thief
    <2> PICK m : m = [l EXCEPT !.at = "claim", !.task = array[l.t % Capacity]]
      OBVIOUS
    <2>2. thief' = [thief EXCEPT ![p] = m]
      BY <1>3 DEF Deque!StealReadsElement, DequeInv, QueueTyped
    <2>3. m.at = "claim" /\ m.t = l.t /\ m.task = array[l.t % Capacity]
      BY <1>0 DEF ThiefLocals
    <2>4. l.t <= top /\ (l.t = top => top <= Deque!Last)
      BY <2>1 DEF DequeInv, ThiefInv
    <2>5. array[l.t % Capacity] \in Deque!Tasks \cup {None}
      BY <1>0, SlotRange DEF DequeInv, QueueTyped
    <2>6. m \in ThiefLocals
      BY <1>0, <2>5 DEF ThiefLocals
    <2> QED BY <2>1, <2>2, <2>3, <2>4, <2>6, ThiefFrame
  <1> QED BY <1>1, <1>2, <1>3

-----------------------------------------------------------------------------
LEMMA DequeInvInit ==
  ASSUME Deque!QueueParameters, Deque!Init
  PROVE  DequeInv /\ Deque!Bag!Init
  <1>1. QueueTyped
    <2>1. 0 \in Nat \cup {-1}
      OBVIOUS
    <2> QED BY <2>1 DEF Deque!Init, QueueTyped, Links, Deque!Resting, Deque!Looking, OwnerLocals, OwnerPlaces, ThiefLocals
  <1>2. Deque!Last = -1 /\ top = 0 /\ bottom = 0 /\ failed_head = None
    BY DEF Deque!Init, Deque!Last, Deque!Popping, Deque!Resting
  <1>3. Deque!FailedTasks = {} /\ Deque!Elements = {}
    BY <1>2 DEF Deque!FailedTasks, Deque!Elements
  <1>4. Window
    BY <1>2 DEF Window, Deque!QueueParameters
  <1>5. Queued
    BY <1>2 DEF Queued, QueuedIn
  <1>6. InOwnersList
    BY <1>2, <1>3, ChainNone DEF InOwnersList, Acyclic
  <1>7. OwnerInv /\ \A p \in Thieves : ThiefInv(p)
    BY DEF Deque!Init, Deque!Resting, Deque!Looking, OwnerInv, Deque!Popping, ThiefInv
  <1>8. Deque!Bag!Init
    BY <1>3 DEF Deque!Bag!Init, Deque!Init
  <1> QED BY <1>1, <1>4, <1>5, <1>6, <1>7, <1>8 DEF DequeInv

\* Every step keeps the invariant, and is a step of the bag or none.
LEMMA DequeInvNext ==
  ASSUME Deque!QueueParameters, DequeInv, [Deque!Next]_Deque!vars
  PROVE  DequeInv' /\ (Deque!Bag!Next \/ bagVars' = bagVars)
  <1>1. CASE UNCHANGED Deque!vars
    <2>1. UNCHANGED <<array, top, bottom, failed_head, after, state, owner, thief, hosted, undefined>>
      BY <1>1 DEF Deque!vars
    <2>2. Deque!Last' = Deque!Last /\ Deque!FailedTasks' = Deque!FailedTasks
      BY <2>1 DEF Deque!Last, Deque!Popping, Deque!FailedTasks, Deque!Owner
    <2>3. Deque!Elements' = Deque!Elements
      BY <2>1, <2>2 DEF Deque!Elements
    <2>4. OwnerInv'
      BY <2>1, <2>2, <2>3 DEF DequeInv, OwnerInv, Deque!Popping
    <2> QED BY <2>1, <2>2, <2>4, OwnerTyped, StateFrame DEF DequeInv, QueueTyped
  <1>2. ASSUME NEW x \in Deque!Tasks, Deque!Schedule(x) \/ Deque!Finish(x)
        PROVE  DequeInv' /\ bagVars' = bagVars
    BY <1>2, ScheduleInv, FinishInv
  <1>3. CASE Deque!Execute \/ Deque!PopReadyTask
    BY <1>3, ExecuteInv, PopReadyTaskInv
  <1>4. CASE Deque!PushHasRoom \/ Deque!FlushStops \/ Deque!PushWrites \/ Deque!FlushSteps \/ Deque!Flush
    BY <1>4, PushHasRoomInv, FlushStopsInv, PushWritesInv, FlushStepsInv, FlushInv
  <1>5. CASE Deque!PushFails \/ Deque!PushPublishes
    BY <1>5, PushFailsInv, PushPublishesInv DEF Deque!Bag!Next
  <1>6. CASE Deque!PopLowers \/ Deque!PopRestores \/ Deque!Return
    BY <1>6, PopLowersInv, PopRestoresInv, ReturnInv
  <1>7. CASE Deque!PopFailedInsertion \/ Deque!PopReadsTop \/ Deque!PopTakesLast
    BY <1>7, PopFailedInv, PopReadsTopInv, PopTakesLastInv DEF Deque!Bag!Next
  <1>8. ASSUME NEW p \in Thieves, Deque!Steal(p)
        PROVE  DequeInv' /\ (Deque!Bag!Next \/ bagVars' = bagVars)
    BY <1>8, StealReadsInv, StealClaimsInv DEF Deque!Steal, Deque!Bag!Next
  <1> QED BY <1>1, <1>2, <1>3, <1>4, <1>5, <1>6, <1>7, <1>8 DEF Deque!Next, Deque!OwnerStep

\* The words of the deque, the list and the locals of its users have their types; top
\* and bottom stay within the capacity of each other (Kokkos_ChaseLev.hpp:110-176).
THEOREM DequeTypes ==
  Deque!Spec => [](Deque!TypeOK /\ Window)
  <1>1. Deque!Init => DequeInv
    BY DequeInvInit, QueueAssumption
  <1>2. DequeInv /\ [Deque!Next]_Deque!vars => DequeInv'
    BY DequeInvNext, QueueAssumption
  <1>3. DequeInv => Deque!TypeOK /\ Window
    BY DEF DequeInv, QueueTyped, Deque!TypeOK, Links, OwnerLocals, OwnerPlaces, ThiefLocals
  <1> QED BY <1>1, <1>2, <1>3, PTL DEF Deque!Spec

\* The deque with its list of failed insertions implements a bag of tasks: whatever
\* the owner and the thieves interleave, a task is handed out once.
THEOREM DequeImplementsTaskBag ==
  Deque!Spec => ImplementsTaskBag
  <1>1. Deque!Init => DequeInv /\ Deque!Bag!Init
    BY DequeInvInit, QueueAssumption
  <1>2. DequeInv /\ [Deque!Next]_Deque!vars => DequeInv'
    BY DequeInvNext, QueueAssumption
  <1>3. DequeInv /\ [Deque!Next]_Deque!vars =>
            [Deque!Bag!Next]_<<Deque!FailedTasks \cup Deque!Elements, {x \in Deque!Tasks : state[x] \in {"taken", "freed"}}>>
    BY DequeInvNext, QueueAssumption DEF bagVars, absBag, absTaken
  <1> QED BY <1>1, <1>2, <1>3, PTL DEF Deque!Spec, ImplementsTaskBag, Deque!ImplementsTaskBag, Deque!Bag!Spec

\* The owner's pop comes back with nothing only if there was nothing.
THEOREM PopFindsTheLastTask ==
  Deque!Spec => EmptyHanded
  <1>1. Deque!Init => DequeInv
    BY DequeInvInit, QueueAssumption
  <1>2. DequeInv /\ [Deque!Next]_Deque!vars => DequeInv'
    BY DequeInvNext, QueueAssumption
  <1>3. DequeInv => (Deque!Owner("restore") /\ owner.task = None => Deque!FailedTasks \cup Deque!Elements = {})
    <2> SUFFICES ASSUME DequeInv, Deque!Owner("restore") PROVE Deque!FailedTasks \cup Deque!Elements = {}
      OBVIOUS
    <2>1. failed_head = None /\ owner.b = bottom /\ top = owner.b + 1 /\ Deque!Last = bottom
      BY LastIs DEF DequeInv, OwnerInv, Deque!Owner, Deque!Popping
    <2>2. Deque!FailedTasks = {}
      BY <2>1 DEF Deque!FailedTasks
    <2>3. top .. Deque!Last = {}
      <3>1. bottom \in Int /\ top \in Nat
        BY OwnerTyped
      <3> QED BY <3>1, <2>1
    <2>4. Deque!Elements = {}
      BY <2>3 DEF Deque!Elements
    <2> QED BY <2>2, <2>4
  <1> QED BY <1>1, <1>2, <1>3, PTL DEF Deque!Spec, EmptyHanded, Deque!EmptyHanded

-----------------------------------------------------------------------------
\* The types of the three, whichever of them the threads use.
THEOREM LockFreeTypes == LockFreeSpec => []LockFreeTypeOK
  <1> DEFINE Inv == TokenInv /\ ListInv /\ DequeInv
  <1>1. LockFreeInit => Inv
    BY InitToken, InitInv, DequeInvInit, TagsAssumption, QueueAssumption DEF LockFreeInit
  <1>2. Inv /\ [TokensStep \/ ListStep \/ DequeStep]_allVars => Inv'
    <2> SUFFICES ASSUME Inv, [TokensStep \/ ListStep \/ DequeStep]_allVars PROVE Inv'
      OBVIOUS
    <2>1. List!vars = listVars /\ List!vars' = listVars' /\ Deque!vars = dequeVars /\ Deque!vars' = dequeVars'
      BY DEF List!vars, Deque!vars, listVars, dequeVars
    <2>2. [Next]_vars /\ [List!Next]_List!vars /\ [Deque!Next]_Deque!vars
      <3> HIDE DEF Inv
      <3> QED BY <2>1, Zenon DEF TokensStep, ListStep, DequeStep, allVars
    <2>3. TokenInv'
      BY <2>2, StepRanked, StepShared
    <2>4. ListInv' /\ DequeInv'
      BY <2>2, ListInvNext, DequeInvNext, TagsAssumption, QueueAssumption
    <2> QED BY <2>3, <2>4
  <1>3. Inv => LockFreeTypeOK
    <2>1. ListInv => List!TypeOK
      BY DEF ListInv, Typed, Calls, Places, List!TypeOK
    <2>2. DequeInv => Deque!TypeOK
      BY DEF DequeInv, QueueTyped, Deque!TypeOK, Links, OwnerLocals, OwnerPlaces, ThiefLocals
    <2> QED BY <2>1, <2>2, TokenInvTypes DEF LockFreeTypeOK
  <1> HIDE DEF Inv
  <1> QED BY <1>1, <1>2, <1>3, PTL DEF LockFreeSpec
=============================================================================
