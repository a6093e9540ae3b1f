\* Two pages at a time, two keys, two shells.
SPECIFICATION RelaySpec
CONSTANTS
    w1 = w1
    w2 = w2
    k1 = k1
    k2 = k2
    s1 = s1
    s2 = s2
    Sockets <- MCSockets
    Keys <- MCKeys
    Shells <- MCShells
    None = None
    MaxAttempts = 2
CHECK_DEADLOCK FALSE
INVARIANTS KeysFindShells UnwatchedIsTimed TimedIsUnwatched EndIsTold
PROPERTIES EndsTogether AbandonedIsSignalled
