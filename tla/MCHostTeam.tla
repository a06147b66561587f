----------------------------- MODULE MCHostTeam -----------------------------
(***************************************************************************)
(* The threads of a host backend, in each behaviour at one of four things; *)
(* the others stay in one initial state:                                   *)
(*                                                                         *)
(*   barrier      three threads at the host barrier.  Its counters wrap    *)
(*                after four rounds, so the run covers every round for     *)
(*                ever.  The rounds name a source that is not thread 0,    *)
(*                use arrive(), and name the two other threads;            *)
(*   collectives  the same three as a team, with every program of two      *)
(*                collectives on what the barrier promises;                *)
(*   stealing     a pool in teams on the dynamic schedule of OpenMP;       *)
(*   threads      the pool of the Threads backend, with any sequence of    *)
(*                the launches.                                            *)
(***************************************************************************)
EXTENDS WorkStealing, BarrierRounds, Sequences

CONSTANTS
    Parts,                         \* those to choose from
    NoSource, NoThread, Programs,  \* the rounds; the length of the programs
    ThreadsSize, Launches          \* the pool of the Threads backend

MCSource == [n \in 0 .. 3 |-> CASE n = 1 -> 1 [] n = 2 -> NoSource
                                [] n = 3 -> 0 [] n = 0 -> 2]

VARIABLES
    part,
    in, leaving, alone, program, k, at, local, global, result,
    state, function, size, scratch, mem, range, index, thread, worked

Barrier == INSTANCE HostBarrier

Team == INSTANCE TeamCollectives WITH
            TeamSize <- Size, Length <- Programs, master <- alone, pc <- at

\* What the proofs about the collectives assume.
ASSUME MembersAssumption == Team!TeamParameters

\* m_work_range of a new thread is not initialized: here one chunk is left in it.
Pool == INSTANCE ThreadsPool WITH PoolSize <- ThreadsSize, Leftover <- {<<0, 1>>}

barrierVars == <<phase, step, arrive, master, wait>>
teamVars == <<in, leaving, alone, program, k, at, local, global, result>>
poolVars == <<state, function, size, scratch, mem, range, index, thread, worked>>
allVars == <<part, vars, barrierVars, teamVars, poolVars>>

\* A pattern as its execute() passes it to resize_scratch and start.
Launch(kind, dynamic, team, length, chunk, reduce, shared) ==
    [kind |-> kind, dynamic |-> dynamic, team |-> team, length |-> length,
     chunk |-> chunk, need |-> [reduce |-> reduce, shared |-> shared]]

\* Every pattern, over ranges that the four threads cannot share evenly and
\* leagues that their two teams cannot; both schedules; scratch memory that
\* grows in its two parts, and does not shrink.
EveryPattern ==
    {Launch("for", FALSE, 0, 5, 1, 0, 0),
     Launch("for", TRUE, 0, 5, 2, 0, 0),
     Launch("reduce", FALSE, 0, 5, 1, 2, 0),
     Launch("scan", FALSE, 0, 5, 1, 2, 0),
     Launch("for", FALSE, 2, 3, 1, 0, 1),
     Launch("for", TRUE, 2, 3, 1, 0, 1),
     Launch("reduce", FALSE, 2, 3, 1, 1, 1)}

\* A dynamic league on two teams of two; a fifth thread is in neither.
TwoTeams == {Launch("for", TRUE, 2, 2, 1, 0, 1)}

HostTeamInit ==
    /\ part \in Parts
    /\ Init
    /\ Barrier!Init
    /\ Team!Init
    /\ Pool!Init
    /\ part # "collectives" =>
        program = [n \in 1 .. Programs |-> [op |-> "barrier", source |-> 0]]

BarrierStep ==
    part = "barrier" /\ Barrier!Next /\ UNCHANGED <<part, vars, teamVars, poolVars>>
TeamStep ==
    part = "collectives" /\ Team!Next /\ UNCHANGED <<part, vars, barrierVars, poolVars>>
StealingStep ==
    part = "stealing" /\ Next /\ UNCHANGED <<part, barrierVars, teamVars, poolVars>>
PoolStep ==
    part = "threads" /\ Pool!Next /\ UNCHANGED <<part, vars, barrierVars, teamVars>>

\* A step of the pool that no caller has to ask for.
PoolGoesOn == Pool!Executes \/ \E e \in 1 .. ThreadsSize - 1 : Pool!Drives(e)

\* As long as some thread can go on, one of them does.  This asks for less than
\* HostBarrier, TeamCollectives, WorkStealing and ThreadsPool, which are fair to
\* each thread: no schedule of the threads, however unfair, keeps all of them.
HostTeamSpec ==
    /\ HostTeamInit
    /\ [][BarrierStep \/ TeamStep \/ StealingStep \/ PoolStep]_allVars
    /\ WF_allVars(BarrierStep \/ TeamStep \/ StealingStep)
    /\ WF_poolVars(part = "threads" /\ PoolGoesOn)

-----------------------------------------------------------------------------
\* Types of the four: no more arrivals than threads, one result for each call
\* that a member has left, and only masters to steal from.
HostTypeOK == TypeOK /\ Barrier!TypeOK /\ Team!TypeOK /\ Pool!TypeOK

\* Each collective returns to each member the broadcast value, the sum or the
\* prefix sum of that very call (Kokkos_HostThreadTeam.hpp, team_broadcast,
\* team_reduce, team_scan).
CollectivesCorrect == Team!CollectivesCorrect

\* fence() of the Threads backend returns when every worker has completed the
\* function ("This method does not return until all dispatched functors on this
\* device have completed", Kokkos_Threads.hpp:84-86).
FenceWaitsForAll == Pool!FenceWaitsForAll

\* Each dispatch of the Threads backend calls the functor for every item, once,
\* and its reduction or scan adds up to what a serial loop computes.
DispatchCorrect == Pool!DispatchCorrect

\* Nobody waits or searches for ever: everyone gets out of the barrier, round
\* after round, and finishes its collectives; every region ends; and initialize,
\* every dispatch and finalize of the Threads backend return.
EverybodyReturns ==
    \A t \in Threads : []<>(CASE part = "barrier"     -> phase[t] = "out"
                               [] part = "collectives" -> Team!AllDone
                               [] part = "stealing"    -> AllDone /\ region = Regions
                               [] part = "threads"     -> Pool!OutOfCalls)
=============================================================================
