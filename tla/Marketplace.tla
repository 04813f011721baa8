---------------------------- MODULE Marketplace ----------------------------
(***************************************************************************)
(* The subscription of ONE organization to ONE published API               *)
(* (marketplace/marketplace.service.ts): subscribing, the confirmation of  *)
(* a paid checkout, Stripe's events and unsubscribing.  The row is unique  *)
(* per organization and API and an API is never changed, so other pairs    *)
(* do not interact with it.                                                *)
(*                                                                         *)
(* Every request and every delivery of an event is a call; a step is what  *)
(* happens between two awaits.  Stripe is external: a session that is paid *)
(* starts a subscription, and its start and end are sent as events, in any *)
(* order and perhaps twice.                                                *)
(***************************************************************************)
EXTENDS Integers, FiniteSets

CONSTANTS
    Calls,             \* requests and event deliveries; a session bears its call's name
    Null,
    MaxConcurrent,     \* bound: calls in progress at a time
    Crashable          \* calls that may throw or die between two awaits

ASSUME CallsAssumption == /\ Null \notin Calls /\ MaxConcurrent \in Nat
                          /\ Crashable \subseteq Calls /\ IsFiniteSet(Calls)

VARIABLES
    paid,          \* whether the API has a price and Stripe is enabled
    row,           \* the marketplace_subscriptions row of the pair
    session,       \* the checkout sessions
    subscription,  \* the Stripe subscriptions, named after their sessions
    events,        \* events to be delivered
    op,            \* what each call is, and the session it is about
    pc,            \* where it is
    entity         \* the row as it has loaded and changed it

stripe == <<session, subscription, events>>
vars   == <<paid, row, stripe, op, pc, entity>>

\* A row; its id is the name of the call that created it.
Row(id, status, sub) == [id |-> id, status |-> status, subscription |-> sub]
NoRow == Row(Null, "active", Null)

Op(kind, about) == [kind |-> kind, about |-> about]

Init ==
    /\ paid \in BOOLEAN
    /\ row = NoRow
    /\ session = [s \in Calls |-> "none"]
    /\ subscription = [s \in Calls |-> "none"]
    /\ events = {}
    /\ op = [p \in Calls |-> Op("none", Null)]
    /\ pc = [p \in Calls |-> "idle"]
    /\ entity = [p \in Calls |-> NoRow]

Ended == {"done", "failed", "crashed"}
Busy(p) == pc[p] \notin {"idle"} \cup Ended

Goto(p, step) == pc' = [pc EXCEPT ![p] = step]
Set(p, e) == entity' = [entity EXCEPT ![p] = e]

Begin(p, o, step) ==
    /\ pc[p] = "idle"
    /\ Cardinality({q \in Calls : Busy(q)}) < MaxConcurrent
    /\ op' = [op EXCEPT ![p] = o]
    /\ Goto(p, step)

-----------------------------------------------------------------------------
(* subscribe()                                                             *)

Subscribe(p) ==
    /\ Begin(p, Op("subscribe", Null), "existing")
    /\ UNCHANGED <<paid, row, stripe, entity>>

\* findOne: any row, canceled or not, refuses a second subscription.
CheckExisting(p) ==
    /\ pc[p] = "existing"
    /\ Goto(p, IF row.id # Null THEN "failed" ELSE IF paid THEN "payout" ELSE "save")
    /\ Set(p, Row(p, "active", Null))
    /\ UNCHANGED <<paid, row, stripe, op>>

\* The publisher must be ready to receive payouts.
CheckPayout(p) ==
    /\ pc[p] = "payout"
    /\ Goto(p, "session") \/ Goto(p, "failed")
    /\ UNCHANGED <<paid, row, stripe, op, entity>>

\* ensureCustomer and createSubscriptionCheckout: no row is written.
CreateSession(p) ==
    /\ pc[p] = "session"
    /\ Goto(p, "done")
    /\ session' = [session EXCEPT ![p] = "open"]
    /\ UNCHANGED <<paid, row, subscription, events, op, entity>>

-----------------------------------------------------------------------------
(* confirmSubscription(), handleStripeEvent(), activateSubscription().     *)

\* Slip: the session need not be paid.
ConfirmUnpaid(p, s) ==
    /\ session[s] # "none"
    /\ Begin(p, Op("activate", s), "find")
    /\ UNCHANGED <<paid, row, stripe, entity>>

\* /confirm with a session of this organization that is paid.
Confirm(p, s) ==
    /\ session[s] = "complete"
    /\ Begin(p, Op("activate", s), "find")
    /\ UNCHANGED <<paid, row, stripe, entity>>

\* Stripe delivers an event, for the last time or not.
Deliver(p, ev) ==
    /\ ev \in events
    /\ Begin(p, ev, "find")
    /\ events' \in {events, events \ {ev}}
    /\ UNCHANGED <<paid, row, session, subscription, entity>>

\* activateSubscription: the row of the pair, or a new one, becomes active.
FindActivated(p) ==
    /\ pc[p] = "find" /\ op[p].kind = "activate"
    /\ Goto(p, "save")
    /\ Set(p, Row(IF row.id = Null THEN p ELSE row.id, "active", op[p].about))
    /\ UNCHANGED <<paid, row, stripe, op>>

\* Slip: the status is named after the event.
FindDeletedStatus(p) ==
    /\ pc[p] = "find" /\ op[p].kind = "deleted"
    /\ Goto(p, IF row.id # Null /\ row.subscription = op[p].about THEN "save" ELSE "done")
    /\ Set(p, [row EXCEPT !.status = "deleted"])
    /\ UNCHANGED <<paid, row, stripe, op>>

\* customer.subscription.deleted: the row of that subscription is canceled.
FindDeleted(p) ==
    /\ pc[p] = "find" /\ op[p].kind = "deleted"
    /\ Goto(p, IF row.id # Null /\ row.subscription = op[p].about THEN "save" ELSE "done")
    /\ Set(p, [row EXCEPT !.status = "canceled"])
    /\ UNCHANGED <<paid, row, stripe, op>>

\* subRepo.save: an update of the row with that id, an insert if there is none;
\* the insert fails if the pair has another row.
Save(p) ==
    /\ pc[p] = "save"
    /\ IF row.id \in {Null, entity[p].id}
       THEN Goto(p, "done") /\ row' = entity[p]
       ELSE Goto(p, "failed") /\ UNCHANGED row
    /\ UNCHANGED <<paid, stripe, op, entity>>

-----------------------------------------------------------------------------
(* unsubscribe()                                                           *)

\* findOne of the row the request names.
Unsubscribe(p) ==
    /\ row.id # Null
    /\ Begin(p, Op("unsubscribe", row.subscription),
             IF row.subscription = Null THEN "remove" ELSE "cancel")
    /\ Set(p, row)
    /\ UNCHANGED <<paid, row, stripe>>

\* Slip: the row goes, the Stripe subscription stays.
CancelNot(p) ==
    /\ pc[p] = "cancel"
    /\ Goto(p, "remove")
    /\ UNCHANGED <<paid, row, stripe, op, entity>>

\* cancelSubscription; an error is only logged.
Cancel(p) ==
    /\ pc[p] = "cancel"
    /\ Goto(p, "remove")
    /\ LET s == entity[p].subscription
       IN  \/ /\ subscription[s] = "active"
              /\ subscription' = [subscription EXCEPT ![s] = "canceled"]
              /\ events' = events \cup {Op("deleted", s)}
           \/ /\ subscription[s] # "active" \/ p \in Crashable
              /\ UNCHANGED <<subscription, events>>
    /\ UNCHANGED <<paid, row, session, op, entity>>

\* subRepo.remove deletes by id.
Remove(p) ==
    /\ pc[p] = "remove"
    /\ Goto(p, "done")
    /\ row' = IF row.id = entity[p].id THEN NoRow ELSE row
    /\ UNCHANGED <<paid, stripe, op, entity>>

\* An await throws, or the instance dies.  The controller answers 200 to an
\* event whatever its handlers do.
Crash(p) ==
    /\ p \in Crashable /\ Busy(p)
    /\ Goto(p, "crashed")
    /\ UNCHANGED <<paid, row, stripe, op, entity>>

-----------------------------------------------------------------------------
(* Stripe, and the people who deal with it.                                *)

Pay(s) ==
    /\ session[s] = "open"
    /\ session' = [session EXCEPT ![s] = "complete"]
    /\ subscription' = [subscription EXCEPT ![s] = "active"]
    /\ events' = events \cup {Op("activate", s)}
    /\ UNCHANGED <<paid, row, op, pc, entity>>

\* The customer ends it in the portal, or Stripe after failed payments.
EndSubscription(s) ==
    /\ subscription[s] = "active"
    /\ subscription' = [subscription EXCEPT ![s] = "canceled"]
    /\ events' = events \cup {Op("deleted", s)}
    /\ UNCHANGED <<paid, row, session, op, pc, entity>>

\* Every call is over.
Finished == /\ \A p \in Calls : pc[p] \in Ended
            /\ UNCHANGED vars

CallStep(p) ==
    \/ Subscribe(p) \/ CheckExisting(p) \/ CheckPayout(p) \/ CreateSession(p)
    \/ \E s \in Calls : Confirm(p, s)
    \/ \E ev \in events : Deliver(p, ev)
    \/ FindActivated(p) \/ FindDeleted(p) \/ Save(p)
    \/ Unsubscribe(p) \/ Cancel(p) \/ Remove(p) \/ Crash(p)

StripeStep == \E s \in Calls : Pay(s) \/ EndSubscription(s)

Next == (\E p \in Calls : CallStep(p)) \/ StripeStep \/ Finished

Spec == Init /\ [][Next]_vars

-----------------------------------------------------------------------------
(* Properties.                                                             *)

Rows == [id : Calls \cup {Null}, status : {"active", "canceled"},
         subscription : Calls \cup {Null}]

\* The shapes of the row, of what Stripe has and of the locals of every call.
TypeOK ==
    /\ paid \in BOOLEAN
    /\ row \in Rows
    /\ session \in [Calls -> {"none", "open", "complete"}]
    /\ subscription \in [Calls -> {"none", "active", "canceled"}]
    /\ events \subseteq [kind : {"activate", "deleted"}, about : Calls]
    /\ op \in [Calls -> [kind : {"none", "subscribe", "activate", "deleted", "unsubscribe"},
                        about : Calls \cup {Null}]]
    /\ pc \in [Calls -> {"idle", "existing", "payout", "session", "find", "save", "cancel",
                         "remove"} \cup Ended]
    /\ entity \in [Calls -> Rows]

\* Whatever interleaves, dies, or arrives late or twice: an API that has a
\* price is only active for an organization that paid for it
\* (marketplace.service.ts:92-95).
AccessIsPaid ==
    paid /\ row.id # Null /\ row.status = "active" =>
        row.subscription # Null /\ session[row.subscription] = "complete"

\* No call is in progress and Stripe has nothing more to say.
Settled == events = {} /\ \A p \in Calls : ~Busy(p)

\* A call died, or could not reach Stripe.
Disturbed ==
    \E p \in Calls : pc[p] = "crashed" \/ (p \in Crashable /\ op[p].kind = "unsubscribe")

Paid == {s \in Calls : session[s] = "complete"}

\* An organization that paid once and is still billed has the API, and the
\* subscription it is billed for is the one it can end: the confirmation and
\* the events race, come late and twice, and unsubscribing races with them
\* (marketplace.service.ts:215 and 282).
BilledHasAccess ==
    Settled /\ ~Disturbed /\ Cardinality(Paid) = 1 =>
        \A s \in Paid : subscription[s] = "active" =>
            row.id # Null /\ row.status = "active" /\ row.subscription = s
=============================================================================
