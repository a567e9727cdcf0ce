CONSTANTS
    IntHalf = 2
    NarrowHalf = 1
    CharHalf = 2
    WideHalf = 4
    NaN = NaN
    Reals <- MCReals
    Strings <- MCStrings
    WideStrings <- MCWideStrings
SPECIFICATION Spec
INVARIANTS
    StrictTotalOrder
    TypesStayTogether
