CONSTANTS
    MaxAddr = 2
    GDB_MAX_BREAKPOINTS = 2
    InvalMax = 8
    Thrifty = TRUE
SPECIFICATION Spec
INVARIANTS
    CodePreserved
    Coherent
PROPERTIES
    StopReported
    Released
