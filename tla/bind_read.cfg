CONSTANTS
    IntHalf = 4
    NarrowHalf = 2
    CharHalf = 2
    WideHalf = 4
    NaN = NaN
    Reals <- MCReals
    Strings <- MCStrings
    WideStrings <- MCWideStrings
    MaxParams = 2
    BoundTypes <- MCTypes
SPECIFICATION Spec
INVARIANTS
    BoundTypeOK
    ComesBackIfItFits
    OnlyDatetimeIsLost
    UnreadableForAReason
    ExactIfItFits
