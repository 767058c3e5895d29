CONSTANTS
    MAX_ROWS = 4
    MAX_COLS = 6
    BufSize = 20
    LineMax = 7
    WordMax = 5
    Prompt <- SmallPrompt
    Keys = {"x"}
    Messages <- SomeMessages
    Errors <- SomeErrors
    Texts <- SomeTexts
    Logs <- SomeLogs
    Files <- SomeFiles
    ClockCol = 1
    CpuCol = 3
    Times = {0, 5, 50}
    TickMod = 4096
SPECIFICATION Spec
CHECK_DEADLOCK FALSE
INVARIANTS
    TypeOK
    EchoShown
    PromptKept
    ColourRestored
