CONSTANTS
    Parts = {"dispatch"}
    Callers = {c1, c2}
    Kinds = {}
    SerialKinds = {"reduce"}
    PoolSize = 2
    Sizes = {1}
    MayThrow = FALSE
    Dispatches = 2
    Workers = {w1, w2}
    Host = Host
    MaxWork = 4
SPECIFICATION OpenMPSpec
INVARIANTS
    LockHandedBack
