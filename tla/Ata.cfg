SPECIFICATION FairSpec
CONSTANTS
    Kinds <- MCKinds
    LoSize = 2
    HiSize = 2
    Image <- MCImage
    Data <- MCData
    Junk = Junk
    None = None
    Error = Error
    Calls <- MCCalls
INVARIANTS
    ReadSettles
    PrimaryFound
PROPERTIES
    ImplementsDisk
    CallReturns
