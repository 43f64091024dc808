SPECIFICATION Spec
CONSTANTS
    MaxSessions = 2
    HastyLeave = FALSE
PROPERTY
    LeaveEnds
