SPECIFICATION Spec
CONSTANTS
    User = {handler, u}
    Handler = handler
    Key = {demura}
    NoKey = nokey
    Value = {0, 1}
    NoValue = novalue
    Files <- MCFiles
    Absent = absent
    MaxObject = 2
    Demura = demura
    MaxCmd = 3
    MaxSession = 2
    WithMemory = {1, 2}
INVARIANTS
    TypeOK
    ParserStays
    SessionBuffers
    ImportAsConfigured
    AnsweredIsKept
CHECK_DEADLOCK FALSE
