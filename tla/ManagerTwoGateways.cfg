\* A gateway that takes longer to shut down than the bridge waits. The bound on gateways ends a run.
SPECIFICATION Spec
CONSTANTS
    r1 = r1
    r2 = r2
    MaxGen = 3
    MaxConf = 1
    Requests <- MCOneRequest
    MayCrash = FALSE
    MayHang = FALSE
    MayOutlast = TRUE
    MayReplace = FALSE
    DiskFails = FALSE
INVARIANT OneGateway
CHECK_DEADLOCK FALSE
