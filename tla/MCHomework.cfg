CONSTANTS
    Size = 4
    N = 5
    Homeworks = {"01", "02"}
    Launches <- AgreedLaunches
    MaxSize = 3
SPECIFICATION HomeworkSpec
INVARIANTS
    HomeworkTypeOK
    PrintsLoopCount
    OneToken
    SameOutputAsSerial
PROPERTIES
    SendBufferStable
    ProgramsReturn
