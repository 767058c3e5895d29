CONSTANTS
    MAX_THREADS = 4
    Roles <- ClockShell
    TickMod = 3
    KB_BUF_SIZE = 2
    UiSleep = 1
    ClockSleep = 1
    ShellSleeps = {2}
    BeepMs = 1
    Beeps = 1
    Commands = {"exit", "stop", "sleep"}
SPECIFICATION FairSpec
CHECK_DEADLOCK FALSE
INVARIANT ShutdownStopsAll
PROPERTIES
    ReadyRuns
    TickCompletes
    EndHalts
