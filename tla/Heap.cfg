CONSTANTS
    heap_base = 4
    heap_total_size = 28
    BLOCK_SIZE = 4
    Align = 2
    WordMod = 64
    Requests = {0, 1, 5, 9, 62}
    Arrays <- SmallArrays
SPECIFICATION Spec
INVARIANTS
    Tiling
    NoAdjacentFree
    LiveBlocks
    FirstFit
