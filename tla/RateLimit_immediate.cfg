\* One request fills the cache while one update completes.
SPECIFICATION Spec
CONSTANTS
    free = free
    pro = pro
    enterprise = enterprise
    Undefined = Undefined
    Plans <- MCPlans
    Enterprise = enterprise
    PlanRateLimits <- MCPlanRateLimits
    Limits = {1, 2, 3}
    InitialOrg <- MCInitialOrg
    WindowLength = 2
    Requests = {r1}
    Updates = {u1}
    Dtos <- UpAndDown
    Latency = 0
    IncrLatency = 0
    MaxTime = 2
    Crashable = {}
SYMMETRY Symmetry
INVARIANTS
    ChangesApplyImmediately
