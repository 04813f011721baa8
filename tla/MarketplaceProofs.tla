------------------------- MODULE MarketplaceProofs -------------------------
(***************************************************************************)
(* What holds of Marketplace for any number of calls, however many of them *)
(* run at a time or die.                                                   *)
(***************************************************************************)
EXTENDS Marketplace, FiniteSetTheorems, TLAPS

Complete(s) == s \in Calls /\ session[s] = "complete"

\* A row that may be saved: its subscription was paid for, and a priced API has one.
Backed(r) == /\ r.subscription # Null => Complete(r.subscription)
             /\ paid => r.subscription # Null

\* A session outlives the call that made it; what Stripe announces as paid is.
StripeInv ==
    /\ \A s \in Calls : session[s] # "none" => pc[s] = "done"
    /\ \A ev \in events : ev.kind = "activate" => Complete(ev.about)

RowInv == row.id # Null => Backed(row)

\* What a call carries to its next step.
CallInv(p) ==
    /\ op[p].kind \in {"activate", "deleted"} => op[p].about \in Calls
    /\ op[p].kind = "activate" => Complete(op[p].about)
    /\ pc[p] = "cancel" => entity[p].subscription \in Calls
    /\ pc[p] = "save" => Backed(entity[p])

CallsInv == \A p \in Calls : CallInv(p)

Inv == TypeOK /\ StripeInv /\ RowInv /\ CallsInv

USE CallsAssumption DEF stripe

LEMMA InitInv == Init => Inv
  BY DEF Init, Inv, TypeOK, StripeInv, RowInv, CallsInv, CallInv, NoRow, Row, Rows, Op

\* A step of one call that makes no session and no event.
LEMMA OneCall ==
    ASSUME Inv, NEW p \in Calls, UNCHANGED <<paid, session>>, events' \subseteq events,
           ~(pc[p] = "done"), CallInv(p)',
           \A q \in Calls \ {p} : pc'[q] = pc[q] /\ op'[q] = op[q] /\ entity'[q] = entity[q]
    PROVE  StripeInv' /\ CallsInv'
  <1> USE DEF Inv, Complete
  <1>1. StripeInv'
    BY DEF StripeInv
  <1>2. ASSUME NEW q \in Calls PROVE CallInv(q)'
    <2>1. CASE q = p
      BY <2>1
    <2>2. CASE q # p
      BY <2>2 DEF CallsInv, CallInv, Backed
    <2> QED BY <2>1, <2>2
  <1> QED BY <1>1, <1>2 DEF CallsInv

\* Sessions only become complete: what was paid for stays so.
LEMMA CompleteStays ==
    ASSUME Inv, UNCHANGED paid, \A s \in Calls : Complete(s) => Complete(s)'
    PROVE  /\ RowInv /\ row' = row => RowInv'
           /\ UNCHANGED <<pc, op, entity>> => CallsInv'
  BY DEF Inv, RowInv, CallsInv, CallInv, Backed, Complete

LEMMA BeginInv ==
    ASSUME Inv, NEW p \in Calls, NEW step, NEW o, Begin(p, o, step), step \in {"existing", "find"},
           o \in [kind : {"subscribe", "activate", "deleted"}, about : Calls \cup {Null}],
           o.kind \in {"activate", "deleted"} => o.about \in Calls,
           o.kind = "activate" => Complete(o.about),
           UNCHANGED <<paid, row, session, subscription, entity>>, events' \subseteq events
    PROVE  Inv'
  <1> USE DEF Inv, Begin, Goto
  <1>1. TypeOK'
    BY DEF TypeOK
  <1>2. CallInv(p)'
    BY DEF CallInv, TypeOK, Complete
  <1>3. StripeInv' /\ CallsInv'
    BY <1>2, OneCall DEF TypeOK
  <1> QED BY <1>1, <1>3 DEF RowInv, Backed, Complete

LEMMA CallStepInv == ASSUME Inv, NEW p \in Calls, CallStep(p) PROVE Inv'
  <1> USE DEF Inv
  <1>1. CASE Subscribe(p)
    BY <1>1, BeginInv DEF Subscribe, Op
  <1>2. ASSUME NEW s \in Calls, Confirm(p, s) PROVE Inv'
    BY <1>2, BeginInv DEF Confirm, Op, Complete
  <1>3. ASSUME NEW ev \in events, Deliver(p, ev) PROVE Inv'
    <2>1. /\ ev \in [kind : {"activate", "deleted"}, about : Calls]
          /\ ev.kind = "activate" => Complete(ev.about)
      BY DEF TypeOK, StripeInv
    <2>2. ev \in [kind : {"subscribe", "activate", "deleted"}, about : Calls \cup {Null}]
      BY <2>1
    <2> QED BY <1>3, <2>1, <2>2, BeginInv DEF Deliver
  <1>4. CASE CheckExisting(p)
    <2> USE <1>4 DEF CheckExisting, Goto, Set
    <2>1. Row(p, "active", Null) \in Rows /\ Row(p, "active", Null).subscription = Null
      BY DEF Row, Rows
    <2>2. TypeOK'
      BY <2>1 DEF TypeOK, Ended
    <2>3. CallInv(p)'
      BY <2>1 DEF CallInv, CallsInv, TypeOK, Complete, Backed
    <2>4. StripeInv' /\ CallsInv'
      BY <2>3, OneCall DEF TypeOK
    <2> QED BY <2>2, <2>4, CompleteStays DEF Complete
  <1>5. CASE CheckPayout(p)
    <2> USE <1>5 DEF CheckPayout, Goto
    <2>1. TypeOK'
      BY DEF TypeOK, Ended
    <2>2. CallInv(p)'
      BY DEF CallInv, CallsInv, TypeOK, Complete
    <2>3. StripeInv' /\ CallsInv'
      BY <2>2, OneCall DEF TypeOK
    <2> QED BY <2>1, <2>3, CompleteStays DEF Complete
  <1>6. CASE CreateSession(p)
    <2> USE <1>6 DEF CreateSession, Goto
    <2>1. TypeOK'
      BY DEF TypeOK, Ended
    <2>2. session[p] = "none"
      BY DEF StripeInv
    <2>3. \A s \in Calls : Complete(s) => Complete(s)'
      BY <2>2 DEF Complete, TypeOK
    <2>4. StripeInv'
      BY <2>3 DEF StripeInv, TypeOK, Complete
    <2>5. CallsInv'
      BY <2>3 DEF CallsInv, CallInv, TypeOK, Complete, Backed
    <2> QED BY <2>1, <2>3, <2>4, <2>5, CompleteStays
  <1>7. CASE FindActivated(p)
    <2> USE <1>7 DEF FindActivated, Goto, Set
    <2> DEFINE new == Row(IF row.id = Null THEN p ELSE row.id, "active", op[p].about)
    <2>1. new \in Rows /\ new.subscription = op[p].about /\ Complete(op[p].about)
      BY DEF Row, Rows, TypeOK, CallsInv, CallInv
    <2> HIDE DEF new
    <2>2. entity' = [entity EXCEPT ![p] = new]
      BY DEF new
    <2>3. TypeOK'
      BY <2>1, <2>2 DEF TypeOK
    <2>4. CallInv(p)'
      BY <2>1, <2>2 DEF CallInv, CallsInv, TypeOK, Complete, Backed
    <2>5. StripeInv' /\ CallsInv'
      BY <2>2, <2>4, OneCall DEF TypeOK
    <2> QED BY <2>3, <2>5, CompleteStays DEF Complete
  <1>8. CASE FindDeleted(p)
    <2> USE <1>8 DEF FindDeleted, Goto, Set
    <2> DEFINE new == [row EXCEPT !.status = "canceled"]
    <2>1. new \in Rows /\ new.subscription = row.subscription
      BY DEF Rows, TypeOK
    <2> HIDE DEF new
    <2>2. entity' = [entity EXCEPT ![p] = new]
      BY DEF new
    <2>3. TypeOK'
      <3>1. entity' \in [Calls -> Rows]
        BY <2>1, <2>2 DEF TypeOK
      <3>2. pc' \in [Calls -> {"idle", "existing", "payout", "session", "find", "save", "cancel", "remove"}
                            \cup Ended]
        BY DEF TypeOK, Ended
      <3> QED BY <3>1, <3>2 DEF TypeOK
    <2>4. CallInv(p)'
      BY <2>1, <2>2 DEF CallInv, CallsInv, TypeOK, Complete, Backed, RowInv
    <2>5. StripeInv' /\ CallsInv'
      BY <2>2, <2>4, OneCall DEF TypeOK
    <2> QED BY <2>3, <2>5, CompleteStays DEF Complete
  <1>9. CASE Save(p)
    <2> USE <1>9 DEF Save, Goto
    <2>1. TypeOK'
      BY DEF TypeOK, Ended
    <2>2. CallInv(p)'
      BY DEF CallInv, CallsInv, TypeOK, Complete
    <2>3. StripeInv' /\ CallsInv'
      BY <2>2, OneCall DEF TypeOK
    <2>4. RowInv'
      BY DEF RowInv, CallsInv, CallInv, Backed, Complete
    <2> QED BY <2>1, <2>3, <2>4
  <1>10. CASE Unsubscribe(p)
    <2> USE <1>10 DEF Unsubscribe, Begin, Goto, Set, Op
    <2>1. TypeOK'
      BY DEF TypeOK, Rows
    <2>2. CallInv(p)'
      BY DEF CallInv, TypeOK, Rows
    <2>3. StripeInv' /\ CallsInv'
      BY <2>2, OneCall DEF TypeOK
    <2> QED BY <2>1, <2>3, CompleteStays DEF Complete
  <1>11. CASE Cancel(p)
    <2> USE <1>11 DEF Cancel, Goto
    <2>1. entity[p].subscription \in Calls
      BY DEF CallsInv, CallInv
    <2>2. TypeOK'
      BY <2>1 DEF TypeOK, Op
    <2>3. StripeInv'
      BY DEF StripeInv, Op, Complete, TypeOK
    <2>4. CallsInv'
      BY DEF CallsInv, CallInv, Complete, Backed, TypeOK
    <2> QED BY <2>2, <2>3, <2>4, CompleteStays DEF Complete
  <1>12. CASE Remove(p)
    <2> USE <1>12 DEF Remove, Goto
    <2>1. NoRow \in Rows /\ NoRow.id = Null
      BY DEF NoRow, Row, Rows
    <2>2. TypeOK'
      BY <2>1 DEF TypeOK, Ended
    <2>3. CallInv(p)'
      BY DEF CallInv, CallsInv, TypeOK, Complete
    <2>4. StripeInv' /\ CallsInv'
      BY <2>3, OneCall DEF TypeOK
    <2>5. RowInv'
      BY <2>1 DEF RowInv, Backed, Complete
    <2> QED BY <2>2, <2>4, <2>5
  <1>13. CASE Crash(p)
    <2> USE <1>13 DEF Crash, Goto, Busy, Ended
    <2>1. TypeOK'
      BY DEF TypeOK
    <2>2. CallInv(p)'
      BY DEF CallInv, CallsInv, TypeOK, Complete
    <2>3. StripeInv' /\ CallsInv'
      BY <2>2, OneCall DEF TypeOK
    <2> QED BY <2>1, <2>3, CompleteStays DEF Complete
  <1> QED BY <1>1, <1>2, <1>3, <1>4, <1>5, <1>6, <1>7, <1>8, <1>9, <1>10, <1>11, <1>12, <1>13
          DEF CallStep

LEMMA StripeStepInv == ASSUME Inv, StripeStep PROVE Inv'
  <1> USE DEF Inv
  <1>1. ASSUME NEW s \in Calls, Pay(s) \/ EndSubscription(s) PROVE Inv'
    <2> USE <1>1 DEF Pay, EndSubscription, Op
    <2>1. TypeOK'
      BY DEF TypeOK
    <2>2. \A t \in Calls : Complete(t) => Complete(t)'
      BY DEF Complete, TypeOK
    <2>3. StripeInv'
      BY DEF StripeInv, Complete, TypeOK
    <2> QED BY <2>1, <2>2, <2>3, CompleteStays
  <1> QED BY <1>1 DEF StripeStep

LEMMA StepInv == Inv /\ [Next]_vars => Inv'
  <1>1. Inv /\ UNCHANGED vars => Inv'
    BY DEF Inv, vars, TypeOK, StripeInv, RowInv, CallsInv, CallInv, Backed, Complete
  <1> QED BY <1>1, CallStepInv, StripeStepInv DEF Next, Finished

\* The row, what Stripe has and the locals of every call keep their shapes.
THEOREM TypeCorrect == Spec => []TypeOK
  BY InitInv, StepInv, PTL DEF Inv, Spec

\* An API that has a price is only active for an organization that paid for
\* it, whatever races, dies, or arrives late or twice.
THEOREM PaidAccess == Spec => []AccessIsPaid
  <1>1. Inv => AccessIsPaid
    BY DEF Inv, RowInv, Backed, Complete, AccessIsPaid
  <1> QED BY <1>1, InitInv, StepInv, PTL DEF Spec

-----------------------------------------------------------------------------
(* Billing implies access.                                                 *)

Lapsed(s) == s \in Calls /\ subscription[s] = "canceled"

\* Only an API that has a price makes sessions, and only a paid one starts a subscription.
SessionOf(s) == (session[s] # "none" => paid) /\ (subscription[s] # "none" <=> Complete(s))

EventOf(ev) == Complete(ev.about) /\ (ev.kind = "deleted" => Lapsed(ev.about))

\* What has been canceled, on the row or about to be saved, has ended at Stripe.
CanceledOf(r) == r.status = "canceled" => Lapsed(r.subscription)

\* A call that removes the row has ended its subscription, or could not.
StepOf(p) ==
    /\ pc[p] = "idle" => op[p].kind = "none"
    /\ pc[p] \in {"payout", "session"} => paid
    /\ op[p].kind = "activate" => Complete(op[p].about)
    /\ op[p].kind = "deleted" => Lapsed(op[p].about)
    /\ pc[p] \in {"cancel", "remove"} =>
          op[p].kind = "unsubscribe" /\ (paid => Complete(entity[p].subscription))
    /\ pc[p] = "remove" /\ paid => p \in Crashable \/ Lapsed(entity[p].subscription)
    /\ pc[p] = "save" => entity[p].id # Null /\ CanceledOf(entity[p])

EndsInv ==
    /\ \A s \in Calls : SessionOf(s)
    /\ \A ev \in events : EventOf(ev)
    /\ \A p \in Calls : StepOf(p)
    /\ CanceledOf(row)

\* The organization paid for s alone, is billed for it, and no call was cut short.
Billed(s) == /\ Complete(s) /\ subscription[s] = "active"
             /\ \A t \in Calls : Complete(t) => t = s
             /\ ~Disturbed

\* Some call is about to write that s was paid for.
Activating(s) == \E p \in Calls : op[p] = Op("activate", s) /\ pc[p] \in {"find", "save"}

\* It has the row, or what gives it the row is announced or being done.
BilledOf(s) == Billed(s) => row.id # Null \/ Op("activate", s) \in events \/ Activating(s)

BilledInv == \A s \in Calls : BilledOf(s)

\* What is paid for, and what has ended, stays so.
LEMMA EndsFrame ==
    ASSUME EndsInv, UNCHANGED paid,
           \A s \in Calls : (Complete(s) => Complete(s)') /\ (Lapsed(s) => Lapsed(s)')
    PROVE  /\ \A ev \in events : EventOf(ev)'
           /\ \A q \in Calls : pc'[q] = pc[q] /\ op'[q] = op[q] /\ entity'[q] = entity[q] => StepOf(q)'
           /\ row' = row => CanceledOf(row)'
  <1>1. \A r : CanceledOf(r) => (r.status = "canceled" => Lapsed(r.subscription)')
    BY DEF CanceledOf, Lapsed
  <1>2. \A ev \in events : EventOf(ev)'
    BY DEF EndsInv, EventOf, Complete, Lapsed
  <1>3. ASSUME NEW q \in Calls, pc'[q] = pc[q], op'[q] = op[q], entity'[q] = entity[q] PROVE StepOf(q)'
    BY <1>3 DEF EndsInv, StepOf, CanceledOf, Complete, Lapsed
  <1> QED BY <1>1, <1>2, <1>3 DEF EndsInv, CanceledOf, Lapsed

\* A step of one call that makes no session and no event, and ends no subscription.
LEMMA EndsCall ==
    ASSUME EndsInv, NEW p \in Calls, UNCHANGED <<paid, session, subscription>>, events' \subseteq events,
           StepOf(p)', CanceledOf(row)',
           \A q \in Calls \ {p} : pc'[q] = pc[q] /\ op'[q] = op[q] /\ entity'[q] = entity[q]
    PROVE  EndsInv'
  <1>1. \A s \in Calls : (Complete(s) => Complete(s)') /\ (Lapsed(s) => Lapsed(s)')
    BY DEF Complete, Lapsed
  <1>2. \A q \in Calls : StepOf(q)'
    BY <1>1, EndsFrame
  <1>3. \A s \in Calls : SessionOf(s)'
    BY DEF EndsInv, SessionOf, Complete
  <1> QED BY <1>1, <1>2, <1>3, EndsFrame DEF EndsInv

LEMMA InitEndsInv == Init => EndsInv
  BY DEF Init, EndsInv, SessionOf, EventOf, StepOf, CanceledOf, Complete, Lapsed, NoRow, Row, Op

LEMMA CallStepEnds == ASSUME Inv, EndsInv, NEW p \in Calls, CallStep(p) PROVE EndsInv'
  <1>0. /\ StepOf(p) /\ CanceledOf(row) /\ CallInv(p) /\ RowInv /\ TypeOK
        /\ \A ev \in events : EventOf(ev)
        /\ UNCHANGED <<row, subscription>> => CanceledOf(row)'
    BY DEF EndsInv, Inv, CallsInv, CanceledOf, Lapsed
  <1>1. CASE Subscribe(p)
    <2>1. StepOf(p)'
      BY <1>0, <1>1 DEF Subscribe, Begin, Goto, Op, StepOf, TypeOK
    <2> QED BY <1>0, <1>1, <2>1, EndsCall DEF Subscribe, Begin, Goto, TypeOK
  <1>2. ASSUME NEW s \in Calls, Confirm(p, s) PROVE EndsInv'
    <2>1. StepOf(p)'
      BY <1>0, <1>2 DEF Confirm, Begin, Goto, Op, StepOf, Complete, TypeOK
    <2> QED BY <1>0, <1>2, <2>1, EndsCall DEF Confirm, Begin, Goto, TypeOK
  <1>3. ASSUME NEW ev \in events, Deliver(p, ev) PROVE EndsInv'
    <2>1. StepOf(p)'
      BY <1>0, <1>3 DEF Deliver, Begin, Goto, StepOf, EventOf, Complete, Lapsed, TypeOK
    <2> QED BY <1>0, <1>3, <2>1, EndsCall DEF Deliver, Begin, Goto, TypeOK
  <1>4. CASE CheckExisting(p)
    <2>1. StepOf(p)'
      BY <1>0, <1>4 DEF CheckExisting, Goto, Set, Row, StepOf, CanceledOf, Complete, Lapsed, TypeOK
    <2> QED BY <1>0, <1>4, <2>1, EndsCall DEF CheckExisting, Goto, Set, TypeOK
  <1>5. CASE CheckPayout(p)
    <2>1. StepOf(p)'
      BY <1>0, <1>5 DEF CheckPayout, Goto, StepOf, Complete, Lapsed, TypeOK
    <2> QED BY <1>0, <1>5, <2>1, EndsCall DEF CheckPayout, Goto, TypeOK
  <1>6. CASE CreateSession(p)
    <2>1. session[p] = "none" /\ paid
      BY <1>0, <1>6 DEF CreateSession, Inv, StripeInv, StepOf
    <2>2. /\ \A s \in Calls : (Complete(s) <=> Complete(s)') /\ (Lapsed(s) => Lapsed(s)')
          /\ UNCHANGED <<paid, subscription, row, events, op, entity>>
          /\ \A q \in Calls \ {p} : pc'[q] = pc[q]
      BY <1>0, <1>6, <2>1 DEF CreateSession, Goto, Complete, Lapsed, TypeOK
    <2>3. StepOf(p)'
      BY <1>0, <1>6, <2>2 DEF CreateSession, Goto, StepOf, Complete, Lapsed, TypeOK
    <2>4. \A s \in Calls : SessionOf(s)'
      BY <2>1, <2>2 DEF EndsInv, SessionOf
    <2>5. \A q \in Calls : StepOf(q)'
      BY <2>2, <2>3, EndsFrame
    <2> QED BY <2>2, <2>4, <2>5, EndsFrame DEF EndsInv
  <1>7. CASE FindActivated(p)
    <2> DEFINE new == Row(IF row.id = Null THEN p ELSE row.id, "active", op[p].about)
    <2>1. new.id # Null /\ new.status = "active"
      BY <1>0 DEF Row
    <2> HIDE DEF new
    <2>2. entity' = [entity EXCEPT ![p] = new]
      BY <1>7 DEF FindActivated, Set, new
    <2>3. StepOf(p)'
      BY <1>0, <1>7, <2>1, <2>2 DEF FindActivated, Goto, StepOf, CanceledOf, Complete, Lapsed, TypeOK
    <2> QED BY <1>0, <1>7, <2>2, <2>3, EndsCall DEF FindActivated, Goto, TypeOK
  <1>8. CASE FindDeleted(p)
    <2> DEFINE new == [row EXCEPT !.status = "canceled"]
    <2>1. new.id = row.id /\ new.subscription = row.subscription
      BY <1>0 DEF Rows, TypeOK
    <2> HIDE DEF new
    <2>2. entity' = [entity EXCEPT ![p] = new]
      BY <1>8 DEF FindDeleted, Set, new
    <2>3. StepOf(p)'
      BY <1>0, <1>8, <2>1, <2>2 DEF FindDeleted, Goto, Ended, StepOf, CanceledOf, Complete, Lapsed, TypeOK
    <2> QED BY <1>0, <1>8, <2>2, <2>3, EndsCall DEF FindDeleted, Goto, TypeOK
  <1>9. CASE Save(p)
    <2>1. StepOf(p)'
      BY <1>0, <1>9 DEF Save, Goto, StepOf, Complete, Lapsed, TypeOK
    <2>2. CanceledOf(row)'
      BY <1>0, <1>9 DEF Save, StepOf, CanceledOf, Lapsed
    <2> QED BY <1>0, <1>9, <2>1, <2>2, EndsCall DEF Save, Goto, TypeOK
  <1>10. CASE Unsubscribe(p)
    <2>1. StepOf(p)'
      BY <1>0, <1>10 DEF Unsubscribe, Begin, Goto, Set, Op, StepOf, RowInv, Backed, Complete, TypeOK
    <2> QED BY <1>0, <1>10, <2>1, EndsCall DEF Unsubscribe, Begin, Goto, Set, TypeOK
  <1>11. CASE Cancel(p)
    <2> DEFINE s == entity[p].subscription
    <2>1. s \in Calls
      BY <1>0, <1>11 DEF Cancel, CallInv
    <2>2. CASE subscription' = subscription /\ events' = events
      <3>1. subscription[s] # "active" \/ p \in Crashable
        BY <1>0, <1>11, <2>1, <2>2 DEF Cancel, TypeOK
      <3>2. paid => p \in Crashable \/ Lapsed(s)
        BY <1>0, <1>11, <2>1, <3>1 DEF Cancel, StepOf, EndsInv, SessionOf, Lapsed, TypeOK
      <3>3. StepOf(p)'
        BY <1>0, <1>11, <2>2, <3>2 DEF Cancel, Goto, StepOf, Complete, Lapsed, TypeOK
      <3> QED BY <1>0, <1>11, <2>2, <3>3, EndsCall DEF Cancel, Goto, TypeOK
    <2>3. CASE /\ subscription[s] = "active" /\ subscription' = [subscription EXCEPT ![s] = "canceled"]
               /\ events' = events \cup {Op("deleted", s)}
      <3>0. /\ UNCHANGED <<paid, row, session, op, entity>> /\ Goto(p, "remove") /\ pc[p] = "cancel"
            /\ Complete(s)
        BY <1>11, <2>1, <2>3 DEF Cancel, EndsInv, SessionOf
      <3>1. /\ \A t \in Calls : (Complete(t) <=> Complete(t)') /\ (Lapsed(t) => Lapsed(t)')
            /\ Lapsed(s)' /\ Complete(s)'
            /\ \A q \in Calls \ {p} : pc'[q] = pc[q]
        BY <1>0, <2>1, <2>3, <3>0 DEF Goto, Complete, Lapsed, TypeOK
      <3>2. StepOf(p)'
        BY <1>0, <3>0, <3>1 DEF Goto, StepOf, Complete, Lapsed, TypeOK
      <3>3. \A t \in Calls : SessionOf(t)'
        BY <1>0, <2>1, <2>3, <3>0, <3>1 DEF EndsInv, SessionOf, TypeOK
      <3>4. EventOf(Op("deleted", s))'
        BY <3>0, <3>1 DEF EventOf, Op, Complete, Lapsed
      <3>5. \A q \in Calls : StepOf(q)'
        BY <3>0, <3>1, <3>2, EndsFrame
      <3> QED BY <2>3, <3>0, <3>1, <3>3, <3>4, <3>5, EndsFrame DEF EndsInv
    <2> QED BY <1>11, <2>2, <2>3 DEF Cancel
  <1>12. CASE Remove(p)
    <2>1. StepOf(p)'
      BY <1>0, <1>12 DEF Remove, Goto, StepOf, Complete, Lapsed, TypeOK
    <2>2. CanceledOf(row)'
      BY <1>0, <1>12 DEF Remove, NoRow, Row, CanceledOf, Lapsed
    <2> QED BY <1>0, <1>12, <2>1, <2>2, EndsCall DEF Remove, Goto, TypeOK
  <1>13. CASE Crash(p)
    <2>1. StepOf(p)'
      BY <1>0, <1>13 DEF Crash, Goto, StepOf, Complete, Lapsed, TypeOK
    <2> QED BY <1>0, <1>13, <2>1, EndsCall DEF Crash, Goto, TypeOK
  <1> QED BY <1>1, <1>2, <1>3, <1>4, <1>5, <1>6, <1>7, <1>8, <1>9, <1>10, <1>11, <1>12, <1>13
          DEF CallStep

LEMMA StripeStepEnds == ASSUME Inv, EndsInv, StripeStep PROVE EndsInv'
  <1>1. ASSUME NEW s \in Calls, Pay(s) \/ EndSubscription(s) PROVE EndsInv'
    <2>0. UNCHANGED <<paid, row, op, pc, entity>> /\ TypeOK /\ SessionOf(s)
      BY <1>1 DEF Pay, EndSubscription, Inv, EndsInv
    <2>1. \A t \in Calls : (Complete(t) => Complete(t)') /\ (Lapsed(t) => Lapsed(t)')
      BY <1>1, <2>0 DEF Pay, EndSubscription, SessionOf, Complete, Lapsed, TypeOK
    <2>2. \A t \in Calls : SessionOf(t)'
      BY <1>1, <2>0 DEF Pay, EndSubscription, EndsInv, SessionOf, Complete, TypeOK
    <2>3. ASSUME NEW ev \in events' PROVE EventOf(ev)'
      <3>1. CASE ev \in events
        BY <2>0, <2>1, <3>1, EndsFrame
      <3>2. CASE Pay(s) /\ ev = Op("activate", s)
        BY <2>0, <3>2 DEF Pay, Op, EventOf, Complete, TypeOK
      <3>3. CASE EndSubscription(s) /\ ev = Op("deleted", s)
        BY <2>0, <3>3 DEF EndSubscription, Op, EventOf, SessionOf, Complete, Lapsed, TypeOK
      <3> QED BY <1>1, <3>1, <3>2, <3>3 DEF Pay, EndSubscription
    <2> QED BY <2>0, <2>1, <2>2, <2>3, EndsFrame DEF EndsInv
  <1> QED BY <1>1 DEF StripeStep

LEMMA StepEndsInv == Inv /\ EndsInv /\ [Next]_vars => EndsInv'
  <1>1. ASSUME EndsInv, UNCHANGED vars PROVE EndsInv'
    <2>1. \A s \in Calls : (Complete(s) => Complete(s)') /\ (Lapsed(s) => Lapsed(s)') /\ SessionOf(s)'
      BY <1>1 DEF vars, Complete, Lapsed, EndsInv, SessionOf
    <2> QED BY <1>1, <2>1, EndsFrame DEF vars, EndsInv
  <1> QED BY <1>1, CallStepEnds, StripeStepEnds DEF Next, Finished

-----------------------------------------------------------------------------
\* While it is billed for s alone the row is not removed.
LEMMA BilledCall ==
    ASSUME Inv, EndsInv, NEW p \in Calls, CallStep(p), NEW s \in Calls, BilledOf(s)
    PROVE  BilledOf(s)'
  <1> SUFFICES ASSUME Billed(s)'
               PROVE  (row.id # Null \/ Op("activate", s) \in events \/ Activating(s))'
    BY DEF BilledOf
  <1>0. /\ TypeOK /\ StepOf(p) /\ StepOf(p)' /\ \A t \in Calls : SessionOf(t)
        /\ pc'[p] # "crashed" /\ (pc[p] = "idle" => ~(p \in Crashable /\ op[p].kind = "unsubscribe"))
    BY CallStepEnds DEF EndsInv, Inv, Billed, Disturbed, StepOf
  <1>1. /\ \A q \in Calls \ {p} : pc'[q] = pc[q] /\ op'[q] = op[q]
        /\ op'[p] = op[p] \/ pc[p] = "idle"
        /\ pc[p] # "crashed"
        /\ \A t \in Calls : (Complete(t) <=> Complete(t)') /\ (subscription'[t] = "active" => subscription[t] = "active")
    <2>1. \A q \in Calls \ {p} : pc'[q] = pc[q] /\ op'[q] = op[q]
      <3>1. (\E step : Goto(p, step)) /\ (op' = op \/ \E o : op' = [op EXCEPT ![p] = o])
        BY DEF CallStep, Subscribe, CheckExisting, CheckPayout, CreateSession, Confirm, Deliver,
               FindActivated, FindDeleted, Save, Unsubscribe, Cancel, Remove, Crash, Begin
      <3> QED BY <1>0, <3>1 DEF Goto, TypeOK
    <2>2. op'[p] = op[p] \/ pc[p] = "idle"
      BY DEF CallStep, Subscribe, CheckExisting, CheckPayout, CreateSession, Confirm, Deliver,
             FindActivated, FindDeleted, Save, Unsubscribe, Cancel, Remove, Crash, Begin
    <2>3. pc[p] # "crashed"
      BY DEF CallStep, Subscribe, CheckExisting, CheckPayout, CreateSession, Confirm, Deliver,
             FindActivated, FindDeleted, Save, Unsubscribe, Cancel, Remove, Crash, Begin, Busy, Ended
    <2>4. \A t \in Calls : subscription'[t] = "active" => subscription[t] = "active"
      BY <1>0 DEF CallStep, Subscribe, CheckExisting, CheckPayout, CreateSession, Confirm, Deliver,
                  FindActivated, FindDeleted, Save, Unsubscribe, Cancel, Remove, Crash, TypeOK
    <2>5. session' = session \/ (session[p] = "none" /\ session' = [session EXCEPT ![p] = "open"])
      BY DEF CallStep, Subscribe, CheckExisting, CheckPayout, CreateSession, Confirm, Deliver,
             FindActivated, FindDeleted, Save, Unsubscribe, Cancel, Remove, Crash, Inv, StripeInv
    <2>6. \A t \in Calls : Complete(t) <=> Complete(t)'
      BY <1>0, <2>5 DEF Complete, TypeOK
    <2> QED BY <2>1, <2>2, <2>3, <2>4, <2>6
  <1>2. Billed(s)
    BY <1>0, <1>1 DEF Billed, Disturbed
  <1>3. paid /\ subscription[s] = "active" /\ \A t \in Calls : Complete(t) => t = s
    BY <1>0, <1>2 DEF Billed, SessionOf, Complete
  <1>4. ~Remove(p)
    <2> SUFFICES ASSUME Remove(p) PROVE FALSE
      OBVIOUS
    <2>1. /\ Complete(entity[p].subscription) /\ op[p].kind = "unsubscribe"
          /\ p \in Crashable \/ Lapsed(entity[p].subscription)
      BY <1>0, <1>3 DEF Remove, StepOf
    <2>2. entity[p].subscription = s /\ p \notin Crashable
      BY <1>2, <1>3, <2>1 DEF Billed, Disturbed, Complete
    <2> QED BY <1>3, <2>1, <2>2 DEF Lapsed
  <1>5. ~Crash(p)
    BY <1>0 DEF Crash, Goto, TypeOK
  <1>6. CASE row.id # Null
    BY <1>0, <1>4, <1>6 DEF CallStep, Subscribe, CheckExisting, CheckPayout, CreateSession, Confirm,
               Deliver, FindActivated, FindDeleted, Save, Unsubscribe, Cancel, Crash, StepOf
  <1>7. CASE Op("activate", s) \in events
    <2>1. ASSUME NEW ev \in events, Deliver(p, ev), ev = Op("activate", s) PROVE Activating(s)'
      BY <1>0, <2>1 DEF Deliver, Begin, Goto, Activating, TypeOK
    <2>2. Op("activate", s) \in events' \/ \E ev \in events : Deliver(p, ev) /\ ev = Op("activate", s)
      BY <1>4, <1>7 DEF CallStep, Subscribe, CheckExisting, CheckPayout, CreateSession, Confirm,
               Deliver, FindActivated, FindDeleted, Save, Unsubscribe, Cancel, Crash
    <2> QED BY <2>1, <2>2
  <1>8. CASE Activating(s)
    <2>1. PICK q \in Calls : op[q] = Op("activate", s) /\ pc[q] \in {"find", "save"}
      BY <1>8 DEF Activating
    <2>2. CASE q # p
      BY <1>1, <2>1, <2>2 DEF Activating
    <2>3. CASE q = p /\ pc[p] = "find"
      <3>1. op[p].kind = "activate"
        BY <2>1, <2>3 DEF Op
      <3>2. FindActivated(p)
        BY <1>5, <2>3, <3>1 DEF CallStep, Subscribe, CheckExisting, CheckPayout, CreateSession, Confirm,
               Deliver, FindDeleted, Save, Unsubscribe, Cancel, Remove, Begin
      <3> QED BY <1>0, <2>1, <2>3, <3>2 DEF FindActivated, Goto, Activating, TypeOK
    <2>4. CASE q = p /\ pc[p] = "save"
      <3>1. Save(p)
        BY <1>5, <2>4 DEF CallStep, Subscribe, CheckExisting, CheckPayout, CreateSession, Confirm,
               Deliver, FindActivated, FindDeleted, Unsubscribe, Cancel, Remove, Begin
      <3> QED BY <1>0, <2>4, <3>1 DEF Save, StepOf
    <2> QED BY <2>1, <2>2, <2>3, <2>4
  <1> QED BY <1>2, <1>6, <1>7, <1>8 DEF BilledOf

\* A payment announces itself; what is already billed is not disturbed by Stripe.
LEMMA BilledStripe == ASSUME Inv, StripeStep, NEW s \in Calls, BilledOf(s) PROVE BilledOf(s)'
  <1>1. PICK t \in Calls : Pay(t) \/ EndSubscription(t)
    BY DEF StripeStep
  <1>2. CASE Pay(t) /\ t = s
    BY <1>2 DEF Pay, BilledOf
  <1>3. CASE Pay(t) /\ t # s
    BY <1>3 DEF Pay, BilledOf, Billed, Complete, Inv, TypeOK
  <1>4. CASE EndSubscription(t)
    BY <1>4 DEF EndSubscription, BilledOf, Billed, Disturbed, Activating, Complete, Inv, TypeOK
  <1> QED BY <1>1, <1>2, <1>3, <1>4

LEMMA BilledMeansAccess == Inv /\ EndsInv /\ BilledInv => BilledHasAccess
  <1> SUFFICES ASSUME Inv, EndsInv, BilledInv, Settled, ~Disturbed, Cardinality(Paid) = 1,
                      NEW s \in Paid, subscription[s] = "active"
               PROVE  row.id # Null /\ row.status = "active" /\ row.subscription = s
    BY DEF BilledHasAccess
  <1>1. IsFiniteSet(Paid)
    BY FS_Subset, CallsAssumption DEF Paid
  <1>2. s \in Calls /\ Complete(s) /\ \A t \in Calls : Complete(t) => t = s
    <2>1. PICK x : Paid = {x}
      BY <1>1, FS_Singleton
    <2> QED BY <2>1 DEF Paid, Complete
  <1>3. Billed(s) /\ paid
    BY <1>2 DEF Billed, EndsInv, SessionOf, Complete
  <1>4. row.id # Null
    BY <1>2, <1>3 DEF BilledInv, BilledOf, Activating, Settled, Busy, Ended
  <1>5. row.subscription = s
    BY <1>2, <1>3, <1>4 DEF Inv, RowInv, Backed, Complete
  <1>6. row.status # "canceled"
    BY <1>5 DEF EndsInv, CanceledOf, Lapsed
  <1> QED BY <1>4, <1>5, <1>6 DEF Inv, TypeOK, Rows

\* An organization that paid once and is still billed has the API, on a row
\* through which it can end what it is billed for, however the confirmation,
\* the events and unsubscribing race.
THEOREM BilledAccess == Spec => []BilledHasAccess
  <1>1. Init => BilledInv
    BY DEF Init, BilledInv, BilledOf, Billed, Complete
  <1>2. Inv /\ EndsInv /\ BilledInv /\ [Next]_vars => BilledInv'
    <2>1. BilledInv /\ UNCHANGED vars => BilledInv'
      BY DEF vars, BilledInv, BilledOf, Billed, Disturbed, Activating, Complete
    <2> QED BY <2>1, BilledCall, BilledStripe DEF Next, Finished, BilledInv
  <1> QED BY <1>1, <1>2, InitInv, StepInv, InitEndsInv, StepEndsInv, BilledMeansAccess, PTL DEF Spec
=============================================================================
