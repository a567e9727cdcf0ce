CONSTANTS
    Ops = {o1, o2, o3, o4}
    None = None
SPECIFICATION FairSpec
INVARIANTS
    HandlersInOrder
PROPERTIES
    ImplementsFairContract
