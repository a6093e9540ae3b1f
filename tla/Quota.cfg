\* Three requests of one user or of the shared runtime over several days.
SPECIFICATION Spec
CONSTANTS
    u1 = u1
    r1 = r1
    r2 = r2
    r3 = r3
    Users = {u1}
    Nobody = Nobody
    Reqs = {r1, r2, r3}
    Exhausting <- OneReachesLimit
    TTL = 1
    QueryTime = 1
    MaxTime = 4
    NoEntry = NoEntry
    NoRow = NoRow
SYMMETRY RequestSymmetry
CHECK_DEADLOCK FALSE
PROPERTIES AdmittedBelowLimit RefusedForToday
