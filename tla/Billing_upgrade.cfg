\* Checkouts one after the other.
SPECIFICATION Spec
CONSTANTS
    free = free
    pro = pro
    enterprise = enterprise
    Null = Null
    Plans <- TwoPlans
    Free = free
    Enterprise = enterprise
    PlanRateLimits <- MCPlanRateLimits
    PlanTerms <- MCPlanTerms
    CustomLimits = {5}
    BlockSize = 2
    MonthLength = 2
    MaxTime = 3
    Scenarios <- CheckoutsOnly
    Calls = {c1, c2, c3, c4, c5}
SYMMETRY Symmetry
CONSTRAINT NothingLapses
PROPERTIES
    FreeCancels
