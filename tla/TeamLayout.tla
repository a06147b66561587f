----------------------------- MODULE TeamLayout -----------------------------
(***************************************************************************)
(* How organize_team (core/src/impl/Kokkos_HostThreadTeam.cpp) splits a    *)
(* pool of threads into teams.  A team owns Alloc consecutive pool ranks   *)
(* and uses the first TeamSize of them; ranks that fit no full team idle.  *)
(***************************************************************************)
EXTENDS Integers

CONSTANTS
    PoolSize,  \* m_pool_size
    TeamSize   \* the requested team size

ASSUME PoolAssumption == PoolSize \in Nat \ {0}
ASSUME TeamAssumption == TeamSize \in 1 .. PoolSize

PoolRanks == 0 .. PoolSize - 1

LeagueSize == PoolSize \div TeamSize
Alloc == PoolSize \div LeagueSize

\* The members that organize_team computes for the thread of pool rank p.
LeagueRank(p) == p \div Alloc
TeamBase(p) == LeagueRank(p) * Alloc
TeamRank(p) ==
    IF TeamBase(p) + TeamSize <= PoolSize /\ p % Alloc < TeamSize
    THEN p % Alloc ELSE -1

\* The next pool rank to steal from after base rank b: the next base if a full
\* team fits behind it, otherwise start over.
NextSteal(b) == IF b + Alloc + TeamSize <= PoolSize THEN b + Alloc ELSE 0

\* The pool ranks of the team masters, which hold the work ranges.
Masters == {p \in PoolRanks : TeamRank(p) = 0}
=============================================================================
