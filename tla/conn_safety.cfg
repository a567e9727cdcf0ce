CONSTANTS
    Con = c1
    Conns = {c1}
    On <- MCOn
    Ops = {o1, o2}
    Threads = {t1, t2}
    None = None
    Client = client
    Handles = {h1, h2}
    Stmts = {s1, s2}
    Null = Null
SPECIFICATION ConnSpec
SYMMETRY Symmetry
INVARIANTS
    ConnTypeOK
    NoDataRace
    NoUseAfterClose
    HandlesAccounted
    ClientKnowsState
    ClientOwnsAll
PROPERTIES
    CloseOutsideRunReleases
    DestructionReleases
    CallsAreAtomic
