CONSTANTS
    KB_BUF_SIZE = 3
    BUF_SIZE = 3
    Keys = {"a", "f1", "lshift", "rshift", "caps", "backspace", "enter"}
SPECIFICATION FairSpec
INVARIANTS
    LineTerminated
    ShiftNotStuck
PROPERTIES
    ImplementsTypedInput
    EnterSubmits
