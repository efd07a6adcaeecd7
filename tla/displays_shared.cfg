CONSTANTS
    Client = {u1, u2, u3}
    Service = Service
    DispType = {t1}
    NoType = NoType
    MaxLevel = 1
    Config = {g1}
    PanelConfig = {g1}
    NoValue = NoValue
    Faults = {"panel", "setconfig", "getconfig"}
SPECIFICATION Spec
INVARIANTS
    RefsAreHolders
    CallsOnLiveDisplay
SYMMETRY Symmetry
PROPERTY SharedByClients
