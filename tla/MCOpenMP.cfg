CONSTANTS
    Parts = {"dispatch", "tasks"}
    Callers = {c1, c2}
    Kinds = {"for", "team", "reduce", "task"}
    SerialKinds = {"mdreduce", "teamreduce", "scantotal"}
    PoolSize = 2
    Sizes = {1}
    MayThrow = TRUE
    Dispatches = 2
    Workers = {w1, w2}
    Host = Host
    MaxWork = 3
SPECIFICATION OpenMPSpec
INVARIANTS
    OpenMPTypeOK
    PoolProtected
    LockHandedBack
    WorksInOwnBlocks
    ReferencesCounted
    TouchesLiveTasks
    RunsAfterPredecessors
    QuiescentMeansDone
PROPERTIES
    EveryCallReturns
CHECK_DEADLOCK FALSE
