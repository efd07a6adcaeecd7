CONSTANTS
    Client = {c1}
    Daemon = {d1}
    Listener = {l1}
    Drain = {w1}
    NoOne = NoOne
    NoCmd = NoCmd
    k1 = k1
    k2 = k2
    k3 = k3
    k4 = k4
    k5 = k5
    k6 = k6
    Cmd = {k2}
    KindOf <- PacketKind
    BadPacket = {}
    BadArg = {}
    MaxImpl = 1
    MaxCalls = 1
    Resident = {}
    Serial = TRUE
    Faults = {}
SPECIFICATION Spec
INVARIANT AckedNotLost
CHECK_DEADLOCK FALSE
