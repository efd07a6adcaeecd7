SPECIFICATION Spec
CONSTANTS
    Thread = {t1, t2}
    Handle = {h1, h2, h3}
    Memory = {m1, m2}
    Fd = {f1, f2, f3}
    Request <- MCRequest
    Config <- MCConfig
    Word <- SmallWord
    MaxId = 1
    NoFd = NoFd
    Nothing = Nothing
SYMMETRY Symmetry
INVARIANTS
    TypeOK
    HandlesKeepMemory
    NoDescriptorLeaked
    PixelsFit
    CoreInfoAgrees
PROPERTIES
    MemoryShared
CHECK_DEADLOCK FALSE
