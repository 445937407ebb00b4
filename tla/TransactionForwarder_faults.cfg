SPECIFICATION Spec
CONSTANTS
    t1 = t1
    t2 = t2
    t3 = t3
    t4 = t4
    e1 = e1
    e2 = e2
    Txns <- MCTxnsFaults
    NoTxn = NoTxn
    Oversize <- MCOversize
    IsMetrics <- MCIsMetrics
    Version <- MCVersion
    TargetsOf <- MCTargetsOf
    NoTarget = NoTarget
    Endpoints <- MCEndpoints1
    RouteOf <- MCRouteOf
    TargetOf <- MCTargetOf
    UseV3 <- MCUseV3
    ChannelCapacity = 1
    EndpointBufferSize = 1
    RetryCapacity = 1
    EndpointConcurrency = 2
    Faults = {"halt", "panic", "disk"}
INVARIANTS
    FwTypeOK
    Accounted
    StopsClean
PROPERTIES
    NoDispatchWhileOpen
