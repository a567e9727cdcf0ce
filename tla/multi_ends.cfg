CONSTANTS
    MaxPieces = 4
    MaxCalls = 6
    SizeBits = 4
SPECIFICATION Spec
PROPERTIES
    GoesAroundForAStatement
