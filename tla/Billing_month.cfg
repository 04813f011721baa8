\* Months pass over a subscription that Stripe renews.
SPECIFICATION Spec
CONSTANTS
    free = free
    pro = pro
    enterprise = enterprise
    Null = Null
    Plans <- TwoPlans
    Free = free
    Enterprise = enterprise
    PlanRateLimits <- MCPlanRateLimits
    PlanTerms <- MCPlanTerms
    CustomLimits = {5}
    BlockSize = 2
    MonthLength = 2
    MaxTime = 3
    Scenarios <- MonthsOnly
    Calls = {c1, c2, c3, c4}
SYMMETRY Symmetry
PROPERTIES
    UsageIsCurrent
