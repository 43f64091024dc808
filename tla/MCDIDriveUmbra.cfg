SPECIFICATION Spec
CONSTANTS
    Off = {0, 1}
    UmbraAnytime = TRUE
    LogAnytime = FALSE
    MaxCmd = 4
INVARIANTS
    FileIOExclusive
