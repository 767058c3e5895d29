SPECIFICATION Spec
CONSTANTS
    Lines <- MCLines
    Scripts <- MCScripts
    MAX_ENV_VARS = 2
    MaxBufs = 9
    StackSize = 8192
    StackLimit = 23000
    FrameSize <- MCFrameSize
INVARIANT
    EachLineExecuted
CHECK_DEADLOCK FALSE
