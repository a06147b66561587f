----------------------------- MODULE MCHomework -----------------------------
(***************************************************************************)
(* The two MPI programs of the homework, one of them in each behaviour;    *)
(* the other one stays in one initial state.                               *)
(***************************************************************************)
EXTENDS Ring, FiniteSetsExt

CONSTANTS
    Homeworks,   \* the programs to choose from, "01" and "02"
    Launches,    \* how the game may be started
    MaxSize      \* the largest number of processes of a launch

VARIABLES
    homework,
    launch, eager, at, iter, buf, even, op, mail, posted, ghost, entered,
    gathered, boards

Life == INSTANCE Life

\* A game on R rows and C columns that both programs start alike.
Game(p, R, C, k, live) ==
    [size |-> p, rows |-> R, cols |-> C, iterations |-> k, parallel |-> live, serial |-> live]

\* Two ranks, each of them the other's neighbour on both sides.  update_domain
\* is written for any board; three cells are enough for a birth, a survival
\* and a death.
TwoRanks == {Game(2, 4, 3, 2, live) : live \in kSubset(3, (0 .. 3) \X (0 .. 2))}

\* Three ranks, with different neighbours above and below, who run ahead of one
\* another, and the patterns that both programs place alike.
Patterns ==
    {Game(3, 15, 13, 2, live) :
        live \in {Life!Default(15, 13), Life!Glider(15, 13), Life!Cap(15, 13), Life!MySnake(15, 13)}}

\* One rank, its own neighbour, and arguments that are refused.
EdgeCases == {Game(1, 3, 3, 2, Life!Glider(3, 3)), Game(2, 3, 3, 1, {}), Game(3, 2, 3, 1, {})}

AgreedLaunches == TwoRanks \cup Patterns \cup EdgeCases

\* bad_acorn on a board that is large enough for serial-gol.cpp.
BadAcorns ==
    {[Game(1, 5, 10, 1, {}) EXCEPT !.parallel = Life!BadAcorn(5, 10),
                                   !.serial = Life!SerialBadAcorn(5, 10)]}

Board == INSTANCE GameOfLife WITH
            pc <- at, chan <- mail, printed <- boards

ASSUME LaunchesAssumption == Board!LaunchParameters

boardVars == <<launch, eager, at, iter, buf, even, op, mail, posted, ghost, entered,
               gathered, boards>>
allVars == <<homework, vars, boardVars>>

HomeworkInit ==
    /\ homework \in Homeworks
    /\ Init
    /\ Board!Init
    /\ homework = "01" => eager /\ launch = Game(2, 3, 3, 1, {})

RingStep == homework = "01" /\ Next /\ UNCHANGED <<homework, boardVars>>
BoardStep == homework = "02" /\ Board!Next /\ UNCHANGED <<homework, vars>>

\* The fairness of Ring and GameOfLife.
HomeworkSpec ==
    /\ HomeworkInit /\ [][RingStep \/ BoardStep]_allVars
    /\ \A r \in Ranks : WF_vars(homework = "01" /\ Step(r))
    /\ \A r \in Board!Processes : WF_boardVars(homework = "02" /\ Board!RankSteps(r))
    /\ \A s, d \in Board!Processes : WF_boardVars(homework = "02" /\ Board!Matches(s, d))

-----------------------------------------------------------------------------
\* Types of the two programs, with the bounds on the messages under way.
HomeworkTypeOK == TypeOK /\ Board!TypeOK

\* Rank 0 prints the boards that serial-gol.cpp prints (READTHISPLEASE.txt:4).
SameOutputAsSerial == Board!SameOutputAsSerial

\* A row that is still to be sent is not overwritten.
SendBufferStable == Board!SendBufferStable

\* Every process of the ring returns, whatever the library buffers; every process
\* of the game returns, and all boards were printed.
ProgramsReturn ==
    /\ homework = "01" => EveryRankReturns
    /\ homework = "02" => Board!EveryRankReturns
=============================================================================
