\* Gateways that crash, hang, take long to end and put others in their place, writes that fail.
\* The bridge may end, hence no deadlock check.
SPECIFICATION FairSpec
CONSTANTS
    r1 = r1
    r2 = r2
    MaxGen = 3
    MaxConf = 1
    Requests <- MCTwoRequests
    MayCrash = TRUE
    MayHang = TRUE
    MayOutlast = TRUE
    MayReplace = TRUE
    DiskFails = TRUE
INVARIANTS TypeOK PredecessorsAreTold
PROPERTIES RestartTakesEffect RestartArrives LossIsNoticed RestartEnds
CHECK_DEADLOCK FALSE
