SPECIFICATION Spec
CONSTANTS
    d1 = d1
    d2 = d2
    Discs = {d1, d2}
    Ciso = {d2}
    Used <- MCUsed
    CISO_HEADER_SIZE = 1
    CISO_BLOCK_SIZE = 2
    CISO_MAP_SIZE = 6
    NoDisc = none
    Shifts = {0, 1}
    Offsets = {0, 1}
    MaxLength = 2
    HeaderEnd = 2
    CACHE_MAX = 2
    DCacheLimit = 6
    PreloadBelow = 2
    PreloadUpTo = 4
    DI_READ_BUFFER_LENGTH = 1
INVARIANTS
    CacheCoherent
    ReadsDisc
    WritesInside
