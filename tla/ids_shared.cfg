SPECIFICATION Spec
CONSTANTS
    Thread = {t1, t2}
    Handle = {h1, h2}
    Memory = {m1, m2}
    Fd = {f1, f2}
    Request <- MCRequest
    Config <- MCConfig
    Word <- SmallWord
    MaxId = 2
    NoFd = NoFd
    Nothing = Nothing
SYMMETRY Symmetry
INVARIANTS
    IdsUnique
CHECK_DEADLOCK FALSE
