CONSTANTS
    Client = {u1, u2}
    Service = Service
    DispType = {t1, t2}
    NoType = NoType
    MaxLevel = 1
    Config = {g1, g2}
    PanelConfig = {g1, g2}
    NoValue = NoValue
    Faults = {"flush", "destroy"}
SPECIFICATION Spec
INVARIANT TypeOK
SYMMETRY Symmetry
 
