CONSTANTS
    Client = {c1, c2}
    Daemon = {d1}
    Listener = {l1}
    Drain = {w1, w2}
    NoOne = NoOne
    NoCmd = NoCmd
    k1 = k1
    k2 = k2
    k3 = k3
    k4 = k4
    k5 = k5
    k6 = k6
    Cmd = {k2}
    KindOf <- PacketKind
    BadPacket = {}
    BadArg = {}
    MaxImpl = 2
    MaxCalls = 1
    Resident = {}
    Serial = FALSE
    Faults = {"load", "setup", "core", "recv"}
SPECIFICATION Spec
PROPERTY CallsReturn
CHECK_DEADLOCK FALSE
