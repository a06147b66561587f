CONSTANTS
    Parts = {"barrier", "collectives", "stealing", "threads"}
    Size = 3
    Wrap = 4
    NoSource = NoSource
    Last = NoSource
    Source <- MCSource
    NoThread = NoThread
    Programs = 2
    PoolSize = 7
    TeamSize = 2
    Length = 7
    Chunk = 2
    IntMax = 127
    Regions = 2
    ThreadsSize = 4
    Launches <- EveryPattern
SPECIFICATION HostTeamSpec
INVARIANTS
    HostTypeOK
    RunsAlone
    AtMostOneRoundApart
    CollectivesCorrect
    ChunksConserved
    EveryItemOnce
    FenceWaitsForAll
    DispatchCorrect
PROPERTIES
    ImplementsRendezvous
    HandsOutFreshChunks
    EverybodyReturns
