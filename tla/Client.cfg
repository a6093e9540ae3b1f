\* Two requests; any number of connections, three slots for sockets.
SPECIFICATION FairSpec
CONSTANTS
    q1 = q1
    q2 = q2
    k1 = k1
    k2 = k2
    k3 = k3
    Requests <- MCRequests
    Sockets <- MCSockets
    None = None
CHECK_DEADLOCK FALSE
INVARIANTS OneLink SendsWhereConnected StopIsClean
PROPERTIES ImplementsOnce ComesBack
