CONSTANTS
    MAX_THREADS = 3
    Roles <- TimeShell
    TickMod = 2
    KB_BUF_SIZE = 2
    UiSleep = 1
    ClockSleep = 1
    ShellSleeps = {}
    BeepMs = 1
    Beeps = 1
    Commands = {"beep"}
SPECIFICATION FairSpec
CHECK_DEADLOCK FALSE
PROPERTY BeepReturns
