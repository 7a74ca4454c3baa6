SPECIFICATION HeapSpec
CONSTANTS
    PageSize = 4
    MemTop = 23
    DefaultMem = 3
    UserMem = {10, 40}
    Requests = {0, 3, 10, 60}
    W = 64
    TOTAL_RAM_FRAG = 5
    SILAN_MALLOC_SIZE = 10
    BlockUnit = 2
    Wanted = {0, 3, 5}
INVARIANTS
    TypeOK
    AreasDisjoint
    HeapApart
PROPERTIES
    ImplementsBestFit
