----------------------------- MODULE MCBilling -----------------------------
(* Small instances of Billing for TLC.                                     *)
EXTENDS Billing, TLC

CONSTANTS free, pro, enterprise

MCPlans == {free, pro, enterprise}
TwoPlans == {free, enterprise}
MCPlanRateLimits == [plan \in Plans |-> CASE plan = free -> 1 [] plan = pro -> 2
                                          [] plan = enterprise -> 3]

MCPlanTerms == [plan \in Plans |->
    CASE plan = free       -> [quota |-> 1, price |-> 0, overagePerThousand |-> 0]
      [] plan = pro        -> [quota |-> 1, price |-> 2, overagePerThousand |-> 1]
      [] plan = enterprise -> [quota |-> 2, price |-> 5, overagePerThousand |-> 1]]

Scenario(kinds, plans, calls, atOnce, faults, onboarded, clock) ==
    [kinds |-> kinds, plans |-> plans, calls |-> calls, atOnce |-> atOnce, faults |-> faults,
     onboarded |-> onboarded, clock |-> clock]

Checkouts == {"checkout", "confirm"}

MCScenarios ==
    {\* Plan changes, with and without Stripe, one after the other.
     Scenario(Checkouts \cup {"subscribe"}, {free, pro}, 4, 1, FALSE, FALSE, FALSE),
     \* Two calls at a time, any of which may die; two of a publisher.
     Scenario(Checkouts, {pro, enterprise}, 3, 2, TRUE, FALSE, FALSE),
     Scenario(Checkouts \cup {"payouts"}, {pro}, 3, 2, FALSE, TRUE, FALSE),
     \* Calls that die, one after the other.
     Scenario(Checkouts, {pro}, 4, 1, TRUE, FALSE, FALSE),
     \* Every plan and becoming a publisher, one call after the other.
     Scenario(Checkouts \cup {"subscribe", "onboard", "payouts", "view", "usage"}, Plans, 3, 1, FALSE, FALSE, FALSE),
     \* An OWNER sets plan and limit, between the calls of billing and while they run.
     Scenario(Checkouts \cup {"subscribe", "patch"}, {free, pro}, 3, 1, FALSE, FALSE, FALSE),
     Scenario({"checkout", "confirm", "patch"}, {pro}, 3, 2, TRUE, FALSE, FALSE),
     \* Months pass while the plan changes and invoices are closed.
     Scenario({"subscribe", "close"}, {pro}, 3, 2, FALSE, FALSE, TRUE)}

\* Checkouts alone.
CheckoutsOnly == {Scenario({"checkout"}, Plans, 5, 1, FALSE, FALSE, FALSE)}

\* A subscriber whose months pass.
MonthsOnly == {Scenario(Checkouts \cup {"usage"}, Plans, 4, 1, FALSE, FALSE, TRUE)}

\* Stripe subscriptions are paid for as long as nobody cancels them.
NothingLapses == \A s \in Calls : subscription[s] \in {"canceled", "none", "active"}

Symmetry == Permutations(Calls)
=============================================================================
