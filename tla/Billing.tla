------------------------------ MODULE Billing ------------------------------
(***************************************************************************)
(* The subscription of one organization (billing/billing.service.ts): plan *)
(* changes, Stripe checkouts and their confirmation, the events Stripe     *)
(* sends (billing/billing-webhook.controller.ts), usage and invoices, over *)
(* the subscription row, the organization's plan and limit, the logged     *)
(* requests and Stripe itself; and the other writer of the organization's  *)
(* plan and limit, its OWNER (organizations/organizations.service.ts).     *)
(*                                                                         *)
(* Every HTTP request and every event is a call; a step is what happens    *)
(* between two awaits.  Stripe is external: a checkout session that is     *)
(* paid starts a subscription, and every change of one is sent as an       *)
(* event, in any order and perhaps twice.                                  *)
(***************************************************************************)
EXTENDS Integers, FiniteSets

CONSTANTS
    Calls,             \* requests and event deliveries; a session bears its call's name
    Plans, Free, Enterprise,
    PlanRateLimits,    \* PLAN_RATE_LIMITS: requests per minute of each plan
    PlanTerms,         \* PLAN_TERMS: quota, price and overagePerThousand of each plan
    CustomLimits,      \* the limits an OWNER asks for
    BlockSize,         \* the requests of a billed block
    Null,
    Scenarios,         \* bounds, of which a behaviour keeps to one: see below
    MonthLength,       \* instants of a month, the first of which is its boundary
    MaxTime            \* bound: the clock stops here

RequestKinds == {"view",        \* any request that only needs the subscription
                 "subscribe",   \* POST subscribe
                 "checkout",    \* POST checkout
                 "confirm",     \* POST checkout/confirm
                 "onboard",     \* POST connect/onboard: ensureConnectAccount
                 "payouts",     \* GET connect/status: getConnectStatus
                 "usage",       \* GET usage
                 "close",       \* POST invoices/close
                 "patch"}       \* PATCH /organizations/:id/rate-limit

\* The requests that are made and the plans they ask for, how many calls, how many of them at a time, whether
\* they may die, whether the organization has a Connect account, whether time passes.
ScenarioSet == [kinds : SUBSET RequestKinds, plans : SUBSET Plans, calls : Nat, atOnce : Nat,
                faults : BOOLEAN, onboarded : BOOLEAN, clock : BOOLEAN]

ASSUME PlansAssumption ==
    /\ {Free, Enterprise} \subseteq Plans /\ Null \notin Plans \cup Calls
    /\ PlanRateLimits \in [Plans -> Nat] /\ CustomLimits \subseteq Nat \ {0}
    /\ PlanTerms \in [Plans -> [quota : Nat, price : Nat, overagePerThousand : Nat]]
ASSUME BoundsAssumption ==
    /\ Scenarios \subseteq ScenarioSet
    /\ IsFiniteSet(Calls) /\ BlockSize \in Nat \ {0} /\ MonthLength \in Nat \ {0} /\ MaxTime \in Nat

VARIABLES
    scenario,      \* the bounds of this behaviour
    now,           \* the clock
    logged,        \* api_logs: the instants of the organization's requests, one each
    bill,          \* the billing_records written by closeInvoice, one for each call
    row,           \* the subscriptions row of the organization
    org,           \* plan and requestsPerMinute of its organizations row
    records,       \* billing_records written for each Stripe subscription
    customers,     \* Stripe customers made for the organization
    accounts,      \* Stripe Connect accounts made for it
    transfers,     \* those that may receive transfers
    session,       \* the checkout sessions, each with the plan and customer it is for
    subscription,  \* the Stripe subscriptions, named after their sessions
    events,        \* events to be delivered
    op,            \* what each call is: its kind and the data it carries
    pc,            \* where it is
    entity,        \* the row as it has loaded and changed it
    draft          \* the organization as it has loaded and changed it

stripe == <<customers, accounts, transfers, session, subscription, events>>
call   == <<op, pc, entity, draft>>
meter  == <<scenario, now, logged, bill>>
vars   == <<row, org, records, stripe, call, meter>>

NoRow == [exists |-> FALSE, plan |-> Null, status |-> "active", customer |-> 0,
          subscription |-> Null, account |-> 0, payouts |-> FALSE, period |-> 0]
NoBill == [state |-> "none", plan |-> Free, period |-> 0, used |-> 0, total |-> 0, at |-> 0]
NoSession == [state |-> "none", plan |-> Null, customer |-> 0]

\* A request or an event about a session, its subscription, an account or a limit.
Op(kind, plan, about, status) ==
    [kind |-> kind, plan |-> plan, about |-> about, status |-> status]
NoOp == Op("none", Null, Null, Null)

Init ==
    /\ scenario \in Scenarios
    /\ now = 0
    /\ logged = {}
    /\ bill = [p \in Calls |-> NoBill]
    /\ row = IF scenario.onboarded THEN [NoRow EXCEPT !.exists = TRUE, !.plan = Free, !.account = 1]
             ELSE NoRow
    /\ org = [plan |-> Free, requestsPerMinute |-> PlanRateLimits[Free]]
    /\ records = [s \in Calls |-> 0]
    /\ customers = 0 /\ accounts = row.account /\ transfers = {}
    /\ session = [s \in Calls |-> NoSession]
    /\ subscription = [s \in Calls |-> "none"]
    /\ events = {}
    /\ op = [p \in Calls |-> NoOp]
    /\ pc = [p \in Calls |-> "idle"]
    /\ entity = [p \in Calls |-> NoRow]
    /\ draft = [p \in Calls |-> org]

Ended == {"done", "failed"}
Busy(p) == pc[p] \notin {"idle"} \cup Ended

Goto(p, step) == pc' = [pc EXCEPT ![p] = step]
Set(p, e) == entity' = [entity EXCEPT ![p] = e]

Begin(p, o, step) ==
    /\ pc[p] = "idle"
    /\ Cardinality({q \in Calls : Busy(q)}) < scenario.atOnce
    /\ Cardinality({q \in Calls : pc[q] # "idle"}) < scenario.calls
    /\ op' = [op EXCEPT ![p] = o]
    /\ Goto(p, step)

-----------------------------------------------------------------------------
(* Requests.                                                               *)

BeginRequest(p, kind, plan) ==
    /\ kind \in scenario.kinds \ {"confirm", "patch"} /\ plan \in scenario.plans
    /\ Begin(p, Op(kind, IF kind \in {"subscribe", "checkout"} THEN plan ELSE Null, Null, Null),
             CASE kind = "subscribe" -> "find" [] kind = "payouts" -> "lookup" [] OTHER -> "ensure")
    /\ UNCHANGED <<row, org, records, stripe, entity, draft, meter>>

\* Slip: the session need not be paid.
ConfirmUnpaid(p, s) ==
    /\ "confirm" \in scenario.kinds
    /\ session[s].state \in {"open", "complete"}
    /\ Begin(p, Op("activate", session[s].plan, s, Null), "find")
    /\ UNCHANGED <<row, org, records, stripe, entity, draft, meter>>

\* confirmCheckout of a session of this organization that is paid.
Confirm(p, s) ==
    /\ "confirm" \in scenario.kinds
    /\ session[s].state = "complete"
    /\ Begin(p, Op("activate", session[s].plan, s, Null), "find")
    /\ UNCHANGED <<row, org, records, stripe, entity, draft, meter>>

\* Stripe delivers an event, for the last time or not.
Deliver(p, ev) ==
    /\ ev \in events
    /\ Begin(p, ev, IF ev.kind = "activate" THEN "find" ELSE "lookup")
    /\ events' \in {events, events \ {ev}}
    /\ UNCHANGED <<row, org, records, customers, accounts, transfers, session, subscription,
                   entity, draft, meter>>

\* The OWNER asks for a plan, a limit, both or neither.
UpdateRateLimit(p, plan, limit) ==
    /\ "patch" \in scenario.kinds /\ plan \in scenario.plans \cup {Null}
    /\ Begin(p, Op("patch", plan, limit, Null), "patch")
    /\ UNCHANGED <<row, org, records, stripe, entity, draft, meter>>

-----------------------------------------------------------------------------
(* ensureSubscription() and applyPlan().                                   *)

\* findOne: a missing subscription becomes a FREE one.
Ensure(p) ==
    /\ pc[p] = "ensure"
    /\ Goto(p, IF row.exists THEN "branch" ELSE "find")
    /\ Set(p, row)
    /\ UNCHANGED <<row, org, records, stripe, op, draft, meter>>

\* currentPeriod(): the month of the clock.
CurrentPeriod == now \div MonthLength

\* Slip: the plan of the call, also when the call is not about one.
AppliedOfCall(p) == op[p].plan

\* The plan applied: the one asked or paid for, or FREE.
Applied(p) == IF op[p].kind \in {"subscribe", "activate"} THEN op[p].plan ELSE Free

\* Slip: a row that has the plan already is left as it is.
FindUnlessSame(p) ==
    /\ pc[p] = "find"
    /\ IF row.exists /\ row.plan = Applied(p)
       THEN IF op[p].kind = "activate"
            THEN /\ Goto(p, "write")
                 /\ Set(p, [row EXCEPT !.customer = session[op[p].about].customer,
                                       !.subscription = op[p].about])
            ELSE Goto(p, "branch") /\ Set(p, row)
       ELSE /\ Goto(p, "save")
            /\ Set(p, [row EXCEPT !.plan = Applied(p), !.status = "active", !.period = CurrentPeriod])
    /\ UNCHANGED <<row, org, records, stripe, op, draft, meter>>

Find(p) ==
    /\ pc[p] = "find"
    /\ Goto(p, "save")
    /\ Set(p, [row EXCEPT !.plan = Applied(p), !.status = "active", !.period = CurrentPeriod])
    /\ UNCHANGED <<row, org, records, stripe, op, draft, meter>>

\* subRepo.save: an insert fails if another call has inserted the row.
Save(p) ==
    /\ pc[p] = "save"
    /\ IF row.exists /\ ~entity[p].exists
       THEN Goto(p, "failed") /\ UNCHANGED <<row, entity>>
       ELSE LET e == [entity[p] EXCEPT !.exists = TRUE]
            IN  Goto(p, "loadOrg") /\ Set(p, e) /\ row' = e
    /\ UNCHANGED <<org, records, stripe, op, draft, meter>>

\* Slip: the limit follows the plan, the organization's plan does not.
LoadOrgRateOnly(p) ==
    /\ pc[p] = "loadOrg"
    /\ Goto(p, "saveOrg")
    /\ draft' = [draft EXCEPT ![p] = [org EXCEPT !.requestsPerMinute = PlanRateLimits[Applied(p)]]]
    /\ UNCHANGED <<row, org, records, stripe, op, entity, meter>>

\* updateRateLimit(orgId, { plan, requestsPerMinute }), either of them Null if
\* it is not given: a fixed plan sets the limit as well.
Updated(plan, limit) ==
    [plan |-> IF plan = Null THEN org.plan ELSE plan,
     requestsPerMinute |-> IF plan \notin {Enterprise, Null} THEN PlanRateLimits[plan]
                           ELSE IF limit = Null THEN org.requestsPerMinute ELSE limit]

LoadOrg(p) ==
    /\ pc[p] = "loadOrg"
    /\ Goto(p, "saveOrg")
    /\ draft' = [draft EXCEPT ![p] = Updated(Applied(p), Null)]
    /\ UNCHANGED <<row, org, records, stripe, op, entity, meter>>

\* The same, asked by the OWNER: the subscription has no part in it.
LoadPatched(p) ==
    /\ pc[p] = "patch"
    /\ Goto(p, "savePatch")
    /\ draft' = [draft EXCEPT ![p] = Updated(op[p].plan, op[p].about)]
    /\ UNCHANGED <<row, org, records, stripe, op, entity, meter>>

SavePatched(p) ==
    /\ pc[p] = "savePatch"
    /\ Goto(p, "done")
    /\ org' = draft[p]
    /\ UNCHANGED <<row, records, stripe, op, entity, draft, meter>>

\* The row linked to the session's customer and subscription.
Linked(p) == [entity[p] EXCEPT !.customer = session[op[p].about].customer,
                               !.subscription = op[p].about,
                               !.status = "active"]

\* Slip: a downgraded row keeps its Stripe subscription.
UnlinkedNot(p) == entity[p]

Unlinked(p) == [entity[p] EXCEPT !.subscription = Null]

\* The organization is saved; then what the caller of applyPlan does next.
SaveOrg(p) ==
    /\ pc[p] = "saveOrg"
    /\ org' = draft[p]
    /\ CASE op[p].kind = "activate"  -> Goto(p, "write") /\ Set(p, Linked(p))
         [] op[p].kind = "downgrade" -> Goto(p, "write") /\ Set(p, Unlinked(p))
         [] op[p].kind = "subscribe" -> Goto(p, "done") /\ UNCHANGED entity
         [] OTHER -> Goto(p, "branch") /\ UNCHANGED entity
    /\ UNCHANGED <<row, records, stripe, op, draft, meter>>

\* The whole entity is written back.
Write(p) ==
    /\ pc[p] = "write"
    /\ Goto(p, IF op[p].kind = "checkout" THEN "session" ELSE "done")
    /\ row' = entity[p]
    /\ UNCHANGED <<org, records, stripe, op, entity, draft, meter>>

-----------------------------------------------------------------------------
(* createCheckout(), ensureStripeCustomer(), ensureConnectAccount().       *)

\* Once the subscription is there.
Branch(p) ==
    /\ pc[p] = "branch"
    /\ IF op[p].kind = "checkout" /\ op[p].plan = Free
       THEN /\ op' = [op EXCEPT ![p].kind = "downgrade"]
            /\ Goto(p, IF entity[p].subscription = Null THEN "find" ELSE "cancel")
       ELSE /\ Goto(p, CASE op[p].kind = "checkout" -> "customer"
                         [] op[p].kind = "onboard" /\ entity[p].account = 0 -> "account"
                         [] op[p].kind \in {"usage", "close"} -> "count"
                         [] OTHER -> "done")
            /\ UNCHANGED op
    /\ UNCHANGED <<row, org, records, stripe, entity, draft, meter>>

\* cancelSubscription; an error is only logged.
Cancel(p) ==
    /\ pc[p] = "cancel"
    /\ Goto(p, "find")
    /\ LET s == entity[p].subscription
       IN  \/ /\ subscription[s] # "canceled"
              /\ subscription' = [subscription EXCEPT ![s] = "canceled"]
              /\ events' = events \cup {Op("deleted", Null, s, Null)}
           \/ /\ subscription[s] = "canceled" \/ scenario.faults
              /\ UNCHANGED <<subscription, events>>
    /\ UNCHANGED <<row, org, records, customers, accounts, transfers, session, op, entity, draft, meter>>

\* Slip: the customer of an earlier checkout is not looked for.
LoadCustomerAnew(p) ==
    /\ pc[p] = "customer"
    /\ Goto(p, "newCustomer")
    /\ Set(p, row)
    /\ UNCHANGED <<row, org, records, stripe, op, draft, meter>>

LoadCustomer(p) ==
    /\ pc[p] = "customer"
    /\ Goto(p, IF row.customer = 0 THEN "newCustomer" ELSE "session")
    /\ Set(p, row)
    /\ UNCHANGED <<row, org, records, stripe, op, draft, meter>>

CreateCustomer(p) ==
    /\ pc[p] = "newCustomer"
    /\ Goto(p, "write")
    /\ customers' = customers + 1
    /\ Set(p, [entity[p] EXCEPT !.customer = customers + 1])
    /\ UNCHANGED <<row, org, records, accounts, transfers, session, subscription, events, op, draft, meter>>

CreateSession(p) ==
    /\ pc[p] = "session"
    /\ Goto(p, "done")
    /\ session' = [session EXCEPT ![p] =
                      [state |-> "open", plan |-> op[p].plan, customer |-> entity[p].customer]]
    /\ UNCHANGED <<row, org, records, customers, accounts, transfers, subscription, events,
                   op, entity, draft, meter>>

CreateAccount(p) ==
    /\ pc[p] = "account"
    /\ Goto(p, "write")
    /\ accounts' = accounts + 1
    /\ Set(p, [entity[p] EXCEPT !.account = accounts + 1])
    /\ UNCHANGED <<row, org, records, customers, transfers, session, subscription, events, op, draft, meter>>

-----------------------------------------------------------------------------
(* getUsage() and closeInvoice().                                          *)

\* Slip: what has been logged until now.
CountedUntilNow(e) == Cardinality(logged \cap (e.period * MonthLength .. MaxTime))

\* Between includes both ends: the last one is the boundary of the next month.
Month(period) == period * MonthLength .. (period + 1) * MonthLength
Counted(e) == Cardinality(logged \cap Month(e.period))

\* computeBill: started blocks of the requests over the quota, and the price.
ComputeBill(plan, used) ==
    LET terms == PlanTerms[plan]
        overage == IF used > terms.quota THEN used - terms.quota ELSE 0
    IN  terms.price + ((overage + BlockSize - 1) \div BlockSize) * terms.overagePerThousand

\* The requests of the row's period are counted; the usage is answered with them.
Count(p) ==
    /\ pc[p] = "count"
    /\ IF op[p].kind = "usage" THEN Goto(p, "done") /\ UNCHANGED bill
       ELSE /\ Goto(p, "insert")
            /\ LET used == Counted(entity[p])
               IN  bill' = [bill EXCEPT ![p] =
                       [state |-> "counted", plan |-> entity[p].plan, period |-> entity[p].period,
                        used |-> used, total |-> ComputeBill(entity[p].plan, used), at |-> now]]
    /\ UNCHANGED <<row, org, records, stripe, op, entity, draft, scenario, now, logged>>

InsertBill(p) ==
    /\ pc[p] = "insert"
    /\ Goto(p, "done")
    /\ bill' = [bill EXCEPT ![p].state = "open"]
    /\ UNCHANGED <<row, org, records, stripe, op, entity, draft, scenario, now, logged>>

\* The gateway logs a request of the organization; time passes.
Log ==
    /\ scenario.clock /\ now \notin logged
    /\ logged' = logged \cup {now}
    /\ UNCHANGED <<row, org, records, stripe, call, scenario, now, bill>>

Tick ==
    /\ scenario.clock /\ now < MaxTime
    /\ now' = now + 1
    /\ UNCHANGED <<row, org, records, stripe, call, scenario, logged, bill>>

-----------------------------------------------------------------------------
(* handleStripeEvent() after its findOne, and getConnectStatus().          *)

Lookup(p) ==
    /\ pc[p] = "lookup"
    /\ Set(p, row)
    /\ LET found == CASE op[p].kind = "payouts" -> row.account # 0
                      [] op[p].kind = "account" -> row.account = op[p].about
                      [] OTHER -> row.subscription = op[p].about
       IN  IF ~found THEN Goto(p, "done") /\ UNCHANGED op
           ELSE /\ Goto(p, CASE op[p].kind = "deleted" -> "find"
                             [] op[p].kind = "invoice" -> "record"
                             [] OTHER -> "change")
                /\ op' = IF op[p].kind = "deleted" THEN [op EXCEPT ![p].kind = "downgrade"] ELSE op
    /\ UNCHANGED <<row, org, records, stripe, draft, meter>>

\* The status or the payout flag the event carries; getConnectStatus asks Stripe.
Change(p) ==
    /\ pc[p] = "change"
    /\ LET ready == IF op[p].kind = "account" THEN op[p].status = "active"
                    ELSE entity[p].account \in transfers
       IN  IF op[p].kind = "status"
           THEN Goto(p, "write") /\ Set(p, [entity[p] EXCEPT !.status = op[p].status])
           ELSE /\ Goto(p, IF op[p].kind = "payouts" /\ entity[p].payouts = ready
                           THEN "done" ELSE "write")
                /\ Set(p, [entity[p] EXCEPT !.payouts = ready])
    /\ UNCHANGED <<row, org, records, stripe, op, draft, meter>>

\* recordPaidInvoice
Record(p) ==
    /\ pc[p] = "record"
    /\ Goto(p, "done")
    /\ records' = [records EXCEPT ![op[p].about] = @ + 1]
    /\ UNCHANGED <<row, org, stripe, op, entity, draft, meter>>

\* An await throws, or the instance dies.  An event is not sent again: the
\* controller answers 200 to it whatever its handlers do.
Crash(p) ==
    /\ scenario.faults /\ Busy(p)
    /\ Goto(p, "failed")
    /\ UNCHANGED <<row, org, records, stripe, op, entity, draft, meter>>
-----------------------------------------------------------------------------
(* Stripe, and the people who deal with it.                                *)

StatusEvent(s, status) == Op("status", Null, s, status)
PaidEvent(s)           == Op("invoice", Null, s, Null)

\* The session is paid: its subscription starts and its first invoice is paid.
Pay(s) ==
    /\ session[s].state = "open"
    /\ session' = [session EXCEPT ![s].state = "complete"]
    /\ subscription' = [subscription EXCEPT ![s] = "active"]
    /\ events' = events \cup {Op("activate", session[s].plan, s, Null), PaidEvent(s)}
    /\ UNCHANGED <<row, org, records, customers, accounts, transfers, call, meter>>

\* A renewal fails, or what was due is paid.
Renew(s, status) ==
    /\ {subscription[s], status} = {"active", "past_due"}
    /\ subscription' = [subscription EXCEPT ![s] = status]
    /\ events' = events \cup {StatusEvent(s, status)} \cup
                     (IF status = "active" THEN {PaidEvent(s)} ELSE {})
    /\ UNCHANGED <<row, org, records, customers, accounts, transfers, session, call, meter>>

\* The customer ends it in the portal, or Stripe after failed payments.
EndSubscription(s) ==
    /\ subscription[s] \in {"active", "past_due"}
    /\ subscription' = [subscription EXCEPT ![s] = "canceled"]
    /\ events' = events \cup {Op("deleted", Null, s, Null)}
    /\ UNCHANGED <<row, org, records, customers, accounts, transfers, session, call, meter>>

\* An account may now receive transfers, or no longer.
UpdateAccount(a) ==
    /\ a <= accounts
    /\ transfers' = IF a \in transfers THEN transfers \ {a} ELSE transfers \cup {a}
    /\ events' = events \cup {Op("account", Null, a, IF a \in transfers THEN "inactive" ELSE "active")}
    /\ UNCHANGED <<row, org, records, customers, accounts, session, subscription, call, meter>>

\* Every call is over.
Finished == /\ \A p \in Calls : ~Busy(p)
            /\ Cardinality({p \in Calls : pc[p] # "idle"}) = scenario.calls
            /\ UNCHANGED vars

CallStep(p) ==
    \/ \E kind \in RequestKinds, plan \in Plans : BeginRequest(p, kind, plan)
    \/ \E plan \in Plans \cup {Null}, limit \in CustomLimits \cup {Null} : UpdateRateLimit(p, plan, limit)
    \/ \E s \in Calls : Confirm(p, s)
    \/ \E ev \in events : Deliver(p, ev)
    \/ LoadPatched(p) \/ SavePatched(p)
    \/ Ensure(p) \/ Find(p) \/ Save(p) \/ LoadOrg(p) \/ SaveOrg(p) \/ Write(p)
    \/ Branch(p) \/ Cancel(p) \/ LoadCustomer(p) \/ CreateCustomer(p) \/ CreateSession(p)
    \/ CreateAccount(p) \/ Lookup(p) \/ Change(p) \/ Record(p) \/ Count(p) \/ InsertBill(p) \/ Crash(p)

StripeStep ==
    \/ \E s \in Calls : Pay(s) \/ EndSubscription(s)
    \/ \E s \in Calls, status \in {"active", "past_due"} : Renew(s, status)
    \/ \E a \in 1 .. accounts : UpdateAccount(a)

Next == (\E p \in Calls : CallStep(p)) \/ StripeStep \/ Log \/ Tick \/ Finished

Spec == Init /\ [][Next]_vars

-----------------------------------------------------------------------------
(* Properties.                                                             *)

Rows == [exists : BOOLEAN, plan : Plans \cup {Null}, status : {"active", "past_due"},
         customer : Nat, subscription : Calls \cup {Null}, account : Nat, payouts : BOOLEAN, period : Nat]
Orgs == [plan : Plans, requestsPerMinute : Nat]
Ops == [kind : RequestKinds \cup {"none", "activate", "downgrade", "deleted", "status",
                                  "invoice", "account"},
        plan : Plans \cup {Null}, about : Calls \cup Nat \cup {Null},
        status : {"active", "past_due", "inactive", Null}]

\* The shapes of the rows, of what Stripe has and of the locals of every call.
TypeOK ==
    /\ scenario \in Scenarios /\ now \in 0 .. MaxTime /\ logged \subseteq 0 .. MaxTime
    /\ bill \in [Calls -> [state : {"none", "counted", "open"}, plan : Plans, period : Nat,
                           used : Nat, total : Nat, at : Nat]]
    /\ row \in Rows /\ (row.exists => row.plan \in Plans)
    /\ org \in Orgs
    /\ records \in [Calls -> Nat]
    /\ customers \in Nat /\ accounts \in Nat /\ transfers \subseteq 1 .. accounts
    /\ session \in [Calls -> [state : {"none", "open", "complete"},
                              plan : Plans \cup {Null}, customer : Nat]]
    /\ subscription \in [Calls -> {"none", "active", "past_due", "canceled"}]
    /\ events \subseteq Ops
    /\ op \in [Calls -> Ops]
    /\ pc \in [Calls -> {"idle", "ensure", "find", "save", "loadOrg", "saveOrg", "write", "branch",
                         "cancel", "customer", "newCustomer", "session", "account", "lookup",
                         "change", "record", "count", "insert", "patch", "savePatch"} \cup Ended]
    /\ entity \in [Calls -> Rows]
    /\ draft \in [Calls -> Orgs]

AllOver == \A p \in Calls : ~Busy(p)
Subscribed == \E p \in Calls : op[p].kind = "subscribe"

\* The OWNER has asked for the plan.
Patched(plan) == \E p \in Calls : op[p].kind = "patch" /\ op[p].plan = plan

OneByOne == scenario.atOnce = 1
Faultless == OneByOne /\ ~scenario.faults

\* When calls come one by one and none dies, the gateway's plan is between them
\* the billed plan (billing.service.ts:82), or one that the OWNER has set
\* without billing (organizations.service.ts:214-223).
PlanSync == Faultless /\ AllOver /\ row.exists => org.plan = row.plan \/ Patched(org.plan)

\* Then the Stripe subscription on the row is for the plan on the row, too,
\* unless the plan was also changed without Stripe (billing.service.ts:386-397).
SubscriptionMatchesPlan ==
    Faultless /\ AllOver /\ ~Subscribed /\ row.subscription # Null =>
        session[row.subscription].plan = row.plan

\* And the organization has a single Stripe customer and a single Connect
\* account (billing.service.ts:368 and 224).
OneStripeIdentity == Faultless => customers <= 1 /\ accounts <= 1

\* The plan needs no payment, or a session was paid for it.
Bought(plan) ==
    plan \in {Free, Null} \/ \E s \in Calls : session[s].state = "complete" /\ session[s].plan = plan

\* Whatever interleaves, dies, or arrives late or twice: with Stripe in charge
\* no plan is billed that was not paid for (billing.service.ts:178), and the
\* gateway's is paid for too, or one that the OWNER has asked for.
PlansArePaid ==
    ~Subscribed => Bought(row.plan) /\ (Bought(org.plan) \/ Patched(org.plan))

\* Whatever calls before it died and wherever they did, a confirmation or an
\* event that activates a session leaves its plan and subscription on the row
\* and its plan and limit on the organization, unless another call interleaves:
\* "the /confirm path is the safety net" (billing-webhook.controller.ts:48-50).
ActivationRepairs ==
    [][\A p \in Calls :
         OneByOne /\ op[p].kind = "activate" /\ pc[p] = "write" /\ pc'[p] = "done" =>
             LET s == op[p].about
             IN  /\ row'.plan = session[s].plan /\ row'.subscription = s
                 /\ org'.plan = row'.plan
                 /\ row'.plan = Enterprise \/ org'.requestsPerMinute = PlanRateLimits[row'.plan]]_vars

\* Of two invoices of one month the one counted later bills no fewer requests,
\* and no less if the plan is the same; counted after the month both bill its
\* requests (billing.service.ts:101-126, 147-170).
InvoicesAgree ==
    \A p, q \in Calls :
        LET b == bill[p]
            c == bill[q]
            end == (b.period + 1) * MonthLength
        IN  b.state = "open" /\ c.state = "open" /\ b.period = c.period =>
                /\ b.at < c.at => b.used <= c.used /\ (b.plan = c.plan => b.total <= c.total)
                /\ b.at > end /\ c.at > end => b.used = c.used

\* The usage answered is that of the current month (billing.service.ts:88).
UsageIsCurrent ==
    [][\A p \in Calls :
         op[p].kind = "usage" /\ pc[p] = "ensure" /\ pc'[p] = "branch" =>
             entity'[p].period = CurrentPeriod]_vars

\* A change to FREE cancels every subscription that was activated
\* (billing.service.ts:176).
FreeCancels ==
    [][\A p, q \in Calls :
         /\ op[p].kind = "downgrade" /\ op[p].plan = Free /\ pc[p] = "write" /\ pc'[p] = "done"
         /\ op[q].kind = "activate" /\ pc[q] = "done"
         => subscription[op[q].about] = "canceled"]_vars
=============================================================================
