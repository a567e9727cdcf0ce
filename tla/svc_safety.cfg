CONSTANTS
    Ops = {o1, o2, o3}
    Threads = {t1, t2}
    o1 = o1
    o2 = o2
    o3 = o3
    c1 = c1
    c2 = c2
    Conns = {c1, c2}
    On <- MCOn
    None = None
SPECIFICATION Spec
SYMMETRY Symmetry
INVARIANTS
    IInv
    HandlerAtMostOnce
    NothingLost
    DriverOutlivesTasks
    ParentOutlivesPool
    OvertakesFew
    NoTerminateOnceStarted
PROPERTIES
    RunReturnsOnlyWhenIdle
    ImplementsContract
