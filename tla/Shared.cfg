\* Three requests of one user, two connections.
SPECIFICATION FairSpec
CONSTANTS
    a = a
    b = b
    c = c
    u = u
    Requests <- MCRequests
    Sessions <- MCSessions
    Session <- MCSession
    Renames <- MCRenames
    Connections = 2
CHECK_DEADLOCK FALSE
INVARIANTS BoundHaveAgents ConflictMeansBound
PROPERTIES UsersTitleStays RequestsEnd
