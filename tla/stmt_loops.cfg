CONSTANTS
    MaxRows = 3
SPECIFICATION Spec
INVARIANTS
    StmtTypeOK
    RangeForSeesAll
    StepLoopSeesAll
    NoRowLost
