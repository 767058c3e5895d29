CONSTANTS
    MAX_THREADS = 3
    Roles <- FullTable
    TickMod = 4
    KB_BUF_SIZE = 2
    UiSleep = 2
    ClockSleep = 2
    ShellSleeps = {0, 3}
    BeepMs = 1
    Beeps = 1
    Commands = {"exit", "sleep", "yield", "stop", "block", "unblock", "beep"}
SPECIFICATION Spec
CHECK_DEADLOCK FALSE
INVARIANTS
    TypeOK
    OnlyIdleIsPreempted
    ContextIntegrity
    SleepTakesEffect
    NoOversleep
PROPERTY
    EarlyWakeOnlyAtWrap
