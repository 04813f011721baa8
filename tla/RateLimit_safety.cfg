\* Three requests, one of which may die, and an owner's update, which may die
\* before its DEL, over four windows of one tick: answers may be a tick late,
\* INCR is prompt.
SPECIFICATION Spec
CONSTANTS
    free = free
    pro = pro
    enterprise = enterprise
    Undefined = Undefined
    Plans <- MCPlans
    Enterprise = enterprise
    PlanRateLimits <- MCPlanRateLimits
    Limits = {1, 2, 3}
    InitialOrg <- MCInitialOrg
    WindowLength = 1
    Requests = {r1, r2, r3}
    Updates = {u1}
    Dtos <- UpAndDown
    Latency = 1
    IncrLatency = 0
    MaxTime = 3
    Crashable = {r3, u1}
SYMMETRY Symmetry
INVARIANTS
    TypeOK
    QuotaHolds
    CountersOfEndedWindowsExpire
    StalenessBounded
    NotifiedOncePerWindow
