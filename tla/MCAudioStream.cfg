SPECIFICATION Spec
CONSTANTS
    Cells = 3
    Sizes = {7, 8, 9, 11}
    Late = FALSE
INVARIANTS
    TypeOK
    DecodedInContext
PROPERTIES
    PlayedInOrder
    StreamStops
