SPECIFICATION Spec
CONSTANTS
    CardSize <- MCCardSize
    SysEnd = 1
    NoOffset = 3
    Content = {old, new}
    Lengths = {1, 2}
    SaveDelay = 1
    StorageFails = FALSE
INVARIANTS
    DirtyCovered
    DirtyScheduled
    CleanExit
PROPERTIES
    DebouncedSave
    ImplementsCardStore
    EventuallySaved
