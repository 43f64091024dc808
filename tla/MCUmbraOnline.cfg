SPECIFICATION Spec
CONSTANTS
    MaxSessions = 2
    HastyLeave = FALSE
INVARIANTS
    TypeOK
    OneReceiver
    SentWhole
    SessionFresh
PROPERTY
    SendEnds
