CONSTANTS
    b1 = b1
    b2 = b2
    b3 = b3
    small = small
    large = large
    Buffer = {b1, b2, b3}
    Geometry = {small, large}
    GeometryOf <- BufferGeometry
    NoGeometry = NoGeometry
    Mode = {m1, m2, m9}
    StcMode = {m1, m2}
    NoMode = NoMode
    Config = {g1, g2}
    NoConfig = NoConfig
    Nothing = Nothing
    Faults = {"list", "mode", "prepare", "commit"}
SPECIFICATION Spec
INVARIANTS
    TypeOK
    CommitAsDescribed
    ModeNotForgotten
