SPECIFICATION Spec
CONSTANTS
    Image <- MCImage
    FatEntries = 4
    DataUnits = 2
    EOC = 100
    NO_SECTOR = 200
    ListMax = 5
    ReadMax = 5
    MaxDepth = 2
    MkfsReserved = 2
    MkfsFatSize = 1
    Paths = {"docs", "SUB", "small", "deep", "old", "..", "/", ".", "none"}
    Files = {"small", "big", "NOTE", "VOL"}
    DriveNums = {0, 1}
INVARIANT
    DeletedSkipped
