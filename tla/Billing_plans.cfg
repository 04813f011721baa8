\* The scenarios of MCBilling.
SPECIFICATION Spec
CONSTANTS
    free = free
    pro = pro
    enterprise = enterprise
    Null = Null
    Plans <- MCPlans
    Free = free
    Enterprise = enterprise
    PlanRateLimits <- MCPlanRateLimits
    PlanTerms <- MCPlanTerms
    CustomLimits = {5}
    BlockSize = 2
    MonthLength = 2
    MaxTime = 3
    Scenarios <- MCScenarios
    Calls = {c1, c2, c3, c4}
SYMMETRY Symmetry
INVARIANTS
    TypeOK
    PlanSync
    SubscriptionMatchesPlan
    OneStripeIdentity
    PlansArePaid
    InvoicesAgree
PROPERTIES
    ActivationRepairs
