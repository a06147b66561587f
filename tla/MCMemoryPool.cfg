CONSTANTS
    Threads = {1, 2}
    Buffers = {0, 1}
    BitsPerInt = 2
    Shapes <- MCShapes
    MaxLive = 3
SPECIFICATION Spec
INVARIANTS
    TypeOK
    TakesBackItsBlocks
PROPERTIES
    BlocksDisjoint
    FailsOnlyIfFull
    ReturnsUndisturbed
