---------------------------- MODULE MCRateLimit ----------------------------
(* Small instances of RateLimit for TLC.                                   *)
EXTENDS RateLimit, TLC

CONSTANTS free, pro, enterprise

MCPlans == {free, pro, enterprise}
MCPlanRateLimits == free :> 1 @@ pro :> 2 @@ enterprise :> 3
MCInitialOrg == [plan |-> free, requestsPerMinute |-> 1]

Body(plan, rpm) == [plan |-> plan, requestsPerMinute |-> rpm]

\* A fixed plan, a custom limit alone, and the enterprise plan with a limit of
\* its own.
MCDtos == {Body(pro, Undefined), Body(Undefined, 2), Body(enterprise, 3)}
\* The limit goes up, and down again.
UpAndDown == {Body(pro, Undefined), Body(free, Undefined)}

Symmetry == Permutations(Requests \cap Crashable) \cup Permutations(Requests \ Crashable)
                \cup Permutations(Updates)
=============================================================================
