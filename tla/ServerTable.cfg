SPECIFICATION Spec
CONSTANTS
    c1 = c1
    c2 = c2
    c3 = c3
    c4 = c4
    Clients <- FourClients
    MaxClients = 3
    MaxDescriptor = 3
INVARIANTS
    TypeOK
    RecordsHaveSessions
    SessionsAreListed
SYMMETRY Symmetry
CHECK_DEADLOCK FALSE
