SPECIFICATION ExiSpec
CONSTANTS
    Slot = {0}
    Page = {p1, p2}
    PageContent = {c1, c2}
    GZ = {}
    Setting = {d1, d2}
    Short = {}
    Overlap = TRUE
    MaxCard = 2
    MaxUmbra = 2
INVARIANTS
    ExiTypeOK
    CardHolds
    PageStored
    SignalsMatch
    StatusIsActual
PROPERTIES
    TransfersEnd
