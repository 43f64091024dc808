SPECIFICATION Spec
CONSTANTS
    SOCurrentTotalFDs = 3
    Caller = {c1, c2}
    NwcFails = FALSE
    QuickAnswers = FALSE
    MaxCalls = 2
INVARIANTS
    TypeOK
    OneOwner
    OwnAnswer
    FreeOnIOSSide
PROPERTIES
    CallsEnd
