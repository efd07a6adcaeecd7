CONSTANTS
    Client = {c1, c2}
    Daemon = {d1}
    Listener = {l1, l2}
    Drain = {w1, w2, w3}
    NoOne = NoOne
    NoCmd = NoCmd
    k1 = k1
    k2 = k2
    k3 = k3
    k4 = k4
    k5 = k5
    k6 = k6
    Cmd = {k1, k5, k6}
    KindOf <- PacketKind
    BadPacket = {k5}
    BadArg = {k1}
    MaxImpl = 3
    MaxCalls = 2
    Resident = {d1}
    Serial = TRUE
    Faults = {"core"}
SPECIFICATION Spec
SYMMETRY Symmetry
INVARIANTS
    ServiceReachable
    SessionBacked
    ListenerCallsLiveComposer
    HandedOnce
PROPERTIES
    SessionsShared
    CommandsLedgered
CHECK_DEADLOCK FALSE
