SPECIFICATION FairSpec
CONSTANTS
    Lines <- MCLines
    Scripts <- MCScripts
    MAX_ENV_VARS = 2
    MaxBufs = 9
    StackSize = 8192
    StackLimit = 23000
    FrameSize <- MCFrameSize
INVARIANTS
    MemoryOwned
    StrtokOwned
    PlainTextExecuted
    EnvCurrent
PROPERTY
    LineEnds
CHECK_DEADLOCK FALSE
