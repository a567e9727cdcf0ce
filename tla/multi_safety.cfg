CONSTANTS
    MaxPieces = 4
    MaxCalls = 6
    SizeBits = 4
SPECIFICATION Spec
INVARIANTS
    MultiTypeOK
    WindowIsRest
    StatementsInOrder
    AllOrNothing
