CONSTANTS
    Containers = {"deque"}
    PoolSize = 5
    Threads = {0, 1, 2}
    Buffers = {0}
    BitsPerInt = 2
    Counts = {1, 2, 3, 4, 5}
    None = None
    Workers = {t1, t2, t3}
    Nodes = {n1, n2}
    LockTag = LockTag
    EndTag = EndTag
    NotEnqueued = NotEnqueued
    Thieves = {p1, p2}
    MaxTasks = 4
    Steady = p1
    Capacity = 2
SPECIFICATION LockFreeSpec
INVARIANT LeavesPushedTasksAlone
CHECK_DEADLOCK FALSE
