SPECIFICATION Spec
CONSTANTS
    Off = {0, 1}
    UmbraAnytime = FALSE
    LogAnytime = FALSE
    MaxCmd = 4
INVARIANTS
    TypeOK
    FileIOExclusive
PROPERTIES
    ImplementsDrive
    CommandsEnd
