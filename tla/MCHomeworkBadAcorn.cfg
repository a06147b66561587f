CONSTANTS
    Size = 4
    N = 5
    Homeworks = {"02"}
    Launches <- BadAcorns
    MaxSize = 3
SPECIFICATION HomeworkSpec
INVARIANTS
    SameOutputAsSerial
