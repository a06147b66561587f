CONSTANTS
    Parts = {"stealing"}
    Size = 3
    Wrap = 4
    NoSource = NoSource
    Last = NoSource
    Source <- MCSource
    NoThread = NoThread
    Programs = 2
    PoolSize = 2
    TeamSize = 1
    Length = 18
    Chunk = 1
    IntMax = 7
    Regions = 1
    ThreadsSize = 4
    Launches <- EveryPattern
SPECIFICATION HostTeamSpec
INVARIANT EveryItemOnce
