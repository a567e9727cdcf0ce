CONSTANTS
    MaxRows = 3
SPECIFICATION Spec
INVARIANTS
    NullIsReadable
