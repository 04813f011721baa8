--------------------------- MODULE BillingProofs ---------------------------
(***************************************************************************)
(* What holds of Billing for any plans, sessions, calls and bounds.        *)
(***************************************************************************)
EXTENDS Billing, FiniteSetTheorems, TLAPS

\* A session that is paid, and its plan.
Paid(s, plan) == session[s].state = "complete" /\ session[s].plan = plan

\* What a call carries and has read, at each of its steps.
LocalOf(p) ==
    /\ pc[p] = "idle" => op[p] = NoOp
    /\ op[p].kind \in {"subscribe", "checkout"} => op[p].plan \in Plans
    /\ op[p].kind = "activate" => op[p].about \in Calls /\ Paid(op[p].about, op[p].plan)
    /\ op[p].kind \in {"status", "invoice"} => op[p].about \in Calls
    /\ op[p].kind = "status" => op[p].status \in {"active", "past_due"}
    /\ op[p].kind = "patch" => op[p].about \in Nat \cup {Null}
    /\ pc[p] = "savePatch" => op[p].plan = Null \/ draft[p].plan = op[p].plan
    /\ pc[p] \in {"customer", "newCustomer", "session"} => op[p].kind = "checkout"
    /\ pc[p] = "record" => op[p].kind = "invoice"
    /\ pc[p] \in {"patch", "savePatch"} => op[p].kind = "patch"
    /\ entity[p].exists => entity[p].plan \in Plans
    /\ pc[p] \in {"save", "loadOrg", "saveOrg"} => entity[p].plan = Applied(p)
    /\ pc[p] \in {"loadOrg", "saveOrg", "branch", "cancel", "count"} => entity[p].exists
    /\ pc[p] = "cancel" => entity[p].subscription # Null
    /\ pc[p] = "saveOrg" =>
          /\ draft[p].plan = Applied(p)
          /\ Applied(p) = Enterprise \/ draft[p].requestsPerMinute = PlanRateLimits[Applied(p)]

\* What an event of Stripe says is so.
EventOf(ev) ==
    /\ ev.kind \in {"activate", "status", "invoice", "deleted", "account"}
    /\ ev.kind = "account" => ev.about \in Nat \ {0}
    /\ ev.kind # "account" => ev.about \in Calls
    /\ ev.kind = "activate" => Paid(ev.about, ev.plan)
    /\ ev.kind = "status" => ev.status \in {"active", "past_due"}

\* A session is made by its call, for a plan.
SessionOf(s) == session[s].state # "none" => session[s].plan \in Plans /\ pc[s] = "done"

Inv ==
    /\ TypeOK
    /\ \A p \in Calls : LocalOf(p) /\ SessionOf(p)
    /\ \A ev \in events : EventOf(ev)

\* Arithmetic that the provers find at once when nothing else is in sight.
LEMMA SumIsNat == ASSUME NEW a \in Nat, NEW b \in Nat, NEW c \in Nat PROVE a + b * c \in Nat
  OBVIOUS

LEMMA Antisymmetry == ASSUME NEW a \in Nat, NEW b \in Nat, a <= b, b <= a PROVE a = b
  OBVIOUS

USE PlansAssumption, BoundsAssumption

LEMMA DivIsNat == ASSUME NEW a \in Nat, NEW m \in Nat \ {0} PROVE a \div m \in Nat
  OBVIOUS

\* The kinds of change that calls make to what they carry and have read.
LEMMA Downgraded == ASSUME NEW o \in Ops PROVE [o EXCEPT !.kind = "downgrade"] \in Ops
  BY DEF Ops

LEMMA ReadBack ==
    ASSUME NEW e \in Rows
    PROVE  /\ \A status \in {"active", "past_due"} :
                 /\ [e EXCEPT !.status = status] \in Rows
                 /\ [e EXCEPT !.status = status].exists = e.exists
                 /\ [e EXCEPT !.status = status].plan = e.plan
           /\ \A ready \in BOOLEAN :
                 /\ [e EXCEPT !.payouts = ready] \in Rows
                 /\ [e EXCEPT !.payouts = ready].exists = e.exists
                 /\ [e EXCEPT !.payouts = ready].plan = e.plan
  BY DEF Rows

LEMMA UpdatedIsOrg ==
    ASSUME TypeOK, NEW plan \in Plans \cup {Null}, NEW limit \in Nat \cup {Null}
    PROVE  /\ Updated(plan, limit) \in Orgs
           /\ Updated(plan, limit).plan = IF plan = Null THEN org.plan ELSE plan
           /\ plan \notin {Null, Enterprise} => Updated(plan, limit).requestsPerMinute = PlanRateLimits[plan]
  BY DEF Updated, TypeOK, Orgs

LEMMA AppliedIsPlan ==
    ASSUME Inv, NEW p \in Calls PROVE Applied(p) \in Plans
  BY DEF Inv, LocalOf, SessionOf, Paid, Applied

LEMMA InitInv == Init => Inv
  <1> SUFFICES ASSUME Init PROVE Inv
    OBVIOUS
  <1> USE DEF Init
  <1>1. scenario \in ScenarioSet
    OBVIOUS
  <1>2. NoRow \in Rows /\ row \in Rows /\ row.account \in {0, 1}
    BY <1>1 DEF NoRow, Rows, ScenarioSet
  <1>3. row.exists => row.plan \in Plans
    BY <1>1 DEF NoRow
  <1>4. org \in Orgs
    BY DEF Orgs
  <1>5. TypeOK
    BY <1>2, <1>3, <1>4 DEF TypeOK, NoBill, NoSession, NoOp, Op, Ops, Ended
  <1>6. ASSUME NEW p \in Calls PROVE LocalOf(p) /\ SessionOf(p)
    BY DEF LocalOf, SessionOf, NoOp, Op, NoRow, NoSession
  <1> QED BY <1>5, <1>6 DEF Inv

-----------------------------------------------------------------------------
(* A step of a call keeps to its own locals.                               *)

LEMMA CallFrame ==
    ASSUME TypeOK, NEW p \in Calls, CallStep(p)
    PROVE  /\ \A q \in Calls \ {p} : /\ op'[q] = op[q] /\ pc'[q] = pc[q]
                                     /\ entity'[q] = entity[q] /\ draft'[q] = draft[q]
           /\ pc[p] \notin Ended /\ UNCHANGED <<scenario, now, logged>>
  <1> USE DEF TypeOK, Goto, Set, Ended, meter
  <1>1. ASSUME NEW o, NEW step, Begin(p, o, step), UNCHANGED <<entity, draft, meter>>
        PROVE  /\ \A q \in Calls \ {p} : /\ op'[q] = op[q] /\ pc'[q] = pc[q]
                                         /\ entity'[q] = entity[q] /\ draft'[q] = draft[q]
               /\ pc[p] \notin Ended /\ UNCHANGED <<scenario, now, logged>>
    BY <1>1 DEF Begin
  <1>2. ASSUME NEW kind \in RequestKinds, NEW plan \in Plans, BeginRequest(p, kind, plan)
        PROVE  \E o, step : Begin(p, o, step) /\ UNCHANGED <<entity, draft, meter>>
    BY <1>2 DEF BeginRequest
  <1>12. ASSUME NEW plan, NEW limit, UpdateRateLimit(p, plan, limit)
         PROVE  \E o, step : Begin(p, o, step) /\ UNCHANGED <<entity, draft, meter>>
    BY <1>12 DEF UpdateRateLimit
  <1>3. ASSUME NEW s \in Calls, Confirm(p, s)
        PROVE  \E o, step : Begin(p, o, step) /\ UNCHANGED <<entity, draft, meter>>
    BY <1>3 DEF Confirm
  <1>4. ASSUME NEW ev \in events, Deliver(p, ev)
        PROVE  \E o, step : Begin(p, o, step) /\ UNCHANGED <<entity, draft, meter>>
    BY <1>4 DEF Deliver
  <1>5. CASE Ensure(p) \/ Find(p) \/ Save(p) \/ LoadOrg(p) \/ Write(p) \/ Record(p)
    BY <1>5 DEF Ensure, Find, Save, LoadOrg, Write, Record
  <1>6. CASE SaveOrg(p)
    BY <1>6 DEF SaveOrg
  <1>13. CASE LoadPatched(p) \/ SavePatched(p)
    BY <1>13 DEF LoadPatched, SavePatched
  <1>7. CASE Branch(p) \/ Cancel(p) \/ LoadCustomer(p) \/ CreateCustomer(p)
    BY <1>7 DEF Branch, Cancel, LoadCustomer, CreateCustomer
  <1>8. CASE CreateSession(p) \/ CreateAccount(p) \/ Count(p) \/ InsertBill(p)
    BY <1>8 DEF CreateSession, CreateAccount, Count, InsertBill
  <1>9. CASE Lookup(p)
    BY <1>9 DEF Lookup
  <1>10. CASE Change(p)
    BY <1>10 DEF Change
  <1>11. CASE Crash(p)
    BY <1>11 DEF Crash, Busy
  <1> QED BY <1>1, <1>2, <1>3, <1>4, <1>5, <1>6, <1>7, <1>8, <1>9, <1>10, <1>11, <1>12, <1>13 DEF CallStep

\* So it is enough to look at these, at the shapes and at the new events.
LEMMA CallInv ==
    ASSUME Inv, NEW p \in Calls, CallStep(p), TypeOK', LocalOf(p)',
           \A s \in Calls : \/ session'[s] = session[s]
                            \/ s = p /\ pc'[p] = "done" /\ session'[p].plan \in Plans,
           \A ev \in events' : ev \in events \/ (ev.kind = "deleted" /\ ev.about \in Calls)
    PROVE  Inv'
  <1>1. /\ \A q \in Calls \ {p} : /\ op'[q] = op[q] /\ pc'[q] = pc[q]
                                  /\ entity'[q] = entity[q] /\ draft'[q] = draft[q]
        /\ pc[p] \notin Ended
    BY CallFrame DEF Inv
  <1>2. session[p].state = "none"
    BY <1>1 DEF Inv, SessionOf, Ended, TypeOK
  <1>3. ASSUME NEW s, NEW plan, s \in Calls, Paid(s, plan) PROVE Paid(s, plan)'
    BY <1>2, <1>3 DEF Paid
  <1>4. ASSUME NEW q \in Calls \ {p} PROVE LocalOf(q)' /\ SessionOf(q)'
    <2>1. LocalOf(q) /\ SessionOf(q)
      BY DEF Inv
    <2>2. LocalOf(q)'
      BY <1>1, <1>3, <2>1 DEF LocalOf, Applied
    <2> QED BY <1>1, <2>1, <2>2 DEF SessionOf
  <1>5. SessionOf(p)'
    BY <1>2 DEF SessionOf
  <1>6. ASSUME NEW ev \in events' PROVE EventOf(ev)'
    BY <1>3 DEF EventOf, Inv
  <1> QED BY <1>4, <1>5, <1>6 DEF Inv

\* Steps that only touch the locals keep the shapes.
Pcs == {"idle", "ensure", "find", "save", "loadOrg", "saveOrg", "write", "branch", "cancel",
        "customer", "newCustomer", "session", "account", "lookup", "change", "record", "count",
        "insert", "patch", "savePatch"} \cup Ended

LEMMA LocalShapes ==
    ASSUME TypeOK, NEW p \in Calls, UNCHANGED <<row, org, records, stripe, draft, meter>>,
           \E step \in Pcs : pc' = [pc EXCEPT ![p] = step],
           UNCHANGED op \/ \E o \in Ops : op' = [op EXCEPT ![p] = o],
           UNCHANGED entity \/ \E e \in Rows : entity' = [entity EXCEPT ![p] = e]
    PROVE  TypeOK'
  <1> USE DEF TypeOK
  <1>1. pc' \in [Calls -> Pcs]
    BY DEF Pcs
  <1>2. op' \in [Calls -> Ops]
    OBVIOUS
  <1>3. entity' \in [Calls -> Rows]
    OBVIOUS
  <1> QED BY <1>1, <1>2, <1>3 DEF stripe, meter, Pcs

LEMMA BeginInv ==
    ASSUME Inv, NEW p \in Calls, CallStep(p),
           \/ \E kind \in RequestKinds, plan \in Plans : BeginRequest(p, kind, plan)
           \/ \E plan \in Plans \cup {Null}, limit \in CustomLimits \cup {Null} : UpdateRateLimit(p, plan, limit)
           \/ \E s \in Calls : Confirm(p, s)
           \/ \E ev \in events : Deliver(p, ev)
    PROVE  Inv'
  <1> USE DEF Inv, TypeOK
  <1>1. ASSUME NEW o \in Ops, NEW step \in {"ensure", "find", "lookup", "patch"}, Begin(p, o, step),
               UNCHANGED <<row, org, records, customers, accounts, transfers, session, subscription,
                           entity, draft, meter>>,
               events' \subseteq events,
               o.kind \in {"subscribe", "checkout"} => o.plan \in Plans,
               o.kind = "activate" => o.about \in Calls /\ Paid(o.about, o.plan),
               o.kind \in {"status", "invoice"} => o.about \in Calls,
               o.kind = "status" => o.status \in {"active", "past_due"},
               o.kind = "patch" => o.about \in Nat \cup {Null},
               step = "patch" => o.kind = "patch"
        PROVE  Inv'
    <2>1. op' = [op EXCEPT ![p] = o] /\ pc' = [pc EXCEPT ![p] = step]
      BY <1>1 DEF Begin, Goto
    <2>2. TypeOK'
      BY <1>1, <2>1 DEF meter
    <2>3. LocalOf(p)'
      BY <1>1, <2>1 DEF LocalOf, Paid
    <2> QED BY <1>1, <2>2, <2>3, CallInv
  <1>2. ASSUME NEW kind \in RequestKinds, NEW plan \in Plans, BeginRequest(p, kind, plan) PROVE Inv'
    <2> DEFINE o == Op(kind, IF kind \in {"subscribe", "checkout"} THEN plan ELSE Null, Null, Null)
               step == CASE kind = "subscribe" -> "find" [] kind = "payouts" -> "lookup" [] OTHER -> "ensure"
    <2>1. o \in Ops /\ step \in {"ensure", "find", "lookup"}
          /\ o.kind = kind /\ (kind \in {"subscribe", "checkout"} => o.plan \in Plans)
      BY DEF Op, Ops
    <2>2. kind \notin {"activate", "status", "invoice", "patch"}
      BY <1>2 DEF RequestKinds, BeginRequest
    <2>3. Begin(p, o, step) /\ UNCHANGED <<row, org, records, stripe, entity, draft, meter>>
      BY <1>2 DEF BeginRequest
    <2> HIDE DEF o, step
    <2> QED BY <1>1, <2>1, <2>2, <2>3 DEF stripe
  <1>3. ASSUME NEW s \in Calls, Confirm(p, s) PROVE Inv'
    <2> DEFINE o == Op("activate", session[s].plan, s, Null)
    <2>1. o \in Ops /\ o.kind = "activate" /\ o.about = s /\ Paid(s, o.plan)
      BY <1>3 DEF Op, Ops, Confirm, Paid
    <2>2. Begin(p, o, "find") /\ UNCHANGED <<row, org, records, stripe, entity, draft, meter>>
      BY <1>3 DEF Confirm
    <2> HIDE DEF o
    <2> QED BY <1>1, <2>1, <2>2 DEF stripe
  <1>4. ASSUME NEW ev \in events, Deliver(p, ev) PROVE Inv'
    <2>1. EventOf(ev) /\ ev \in Ops
      OBVIOUS
    <2>2. events' \subseteq events
      BY <1>4 DEF Deliver
    <2>3. PICK step \in {"find", "lookup"} : Begin(p, ev, step)
      BY <1>4 DEF Deliver
    <2>4. UNCHANGED <<row, org, records, customers, accounts, transfers, session, subscription,
                      entity, draft, meter>>
      BY <1>4 DEF Deliver
    <2>5. /\ ev.kind \notin {"subscribe", "checkout", "patch"}
          /\ ev.kind = "activate" => ev.about \in Calls /\ Paid(ev.about, ev.plan)
          /\ ev.kind \in {"status", "invoice"} => ev.about \in Calls
          /\ ev.kind = "status" => ev.status \in {"active", "past_due"}
      BY <2>1 DEF EventOf
    <2> QED BY <1>1, <2>1, <2>2, <2>3, <2>4, <2>5
  <1>5. ASSUME NEW plan \in Plans \cup {Null}, NEW limit \in CustomLimits \cup {Null},
               UpdateRateLimit(p, plan, limit)
        PROVE  Inv'
    <2> DEFINE o == Op("patch", plan, limit, Null)
    <2>1. limit \in Nat \cup {Null}
      OBVIOUS
    <2>2. o \in Ops /\ o.kind = "patch" /\ o.about = limit
      <3>1. "patch" \in RequestKinds
        BY DEF RequestKinds
      <3> QED BY <2>1, <3>1 DEF Op, Ops
    <2>3. Begin(p, o, "patch") /\ UNCHANGED <<row, org, records, stripe, entity, draft, meter>>
      BY <1>5 DEF UpdateRateLimit
    <2> HIDE DEF o
    <2> QED BY <1>1, <2>1, <2>2, <2>3 DEF stripe
  <1> QED BY <1>2, <1>3, <1>4, <1>5

\* findOne, and what is decided on its answer.
LEMMA ReadInv ==
    ASSUME Inv, NEW p \in Calls, CallStep(p),
           \/ Ensure(p) \/ Find(p) \/ LoadOrg(p) \/ LoadPatched(p) \/ Branch(p) \/ LoadCustomer(p)
           \/ Lookup(p) \/ Change(p) \/ Crash(p)
    PROVE  Inv'
  <1> USE DEF Inv, TypeOK
  <1>1. ASSUME TypeOK', LocalOf(p)', UNCHANGED stripe PROVE Inv'
    BY <1>1, CallInv DEF stripe
  <1>2. LocalOf(p) /\ Applied(p) \in Plans
    BY AppliedIsPlan
  <1>3. CurrentPeriod \in Nat
    <2>1. now \in Nat /\ MonthLength \in Nat \ {0}
      OBVIOUS
    <2> QED BY <2>1, DivIsNat DEF CurrentPeriod
  <1>4. CASE Ensure(p)
    <2>1. TypeOK'
      BY <1>4 DEF Ensure, Goto, Set, stripe, meter
    <2>2. LocalOf(p)'
      BY <1>2, <1>4 DEF Ensure, Goto, Set, LocalOf, stripe, Paid
    <2> QED BY <1>1, <1>4, <2>1, <2>2 DEF Ensure
  <1>5. CASE Find(p)
    <2> DEFINE e == [row EXCEPT !.plan = Applied(p), !.status = "active", !.period = CurrentPeriod]
    <2>1. e \in Rows /\ e.plan = Applied(p)
      BY <1>2, <1>3 DEF Rows
    <2>2. pc' = [pc EXCEPT ![p] = "save"] /\ entity' = [entity EXCEPT ![p] = e]
          /\ UNCHANGED <<row, org, records, stripe, op, draft, meter>>
      BY <1>5 DEF Find, Goto, Set
    <2> HIDE DEF e
    <2>3. TypeOK'
      BY <2>1, <2>2 DEF stripe, meter
    <2>4. LocalOf(p)'
      BY <1>2, <2>1, <2>2 DEF LocalOf, stripe, Paid, Applied
    <2> QED BY <1>1, <2>2, <2>3, <2>4
  <1>6. CASE LoadOrg(p)
    <2> DEFINE d == Updated(Applied(p), Null)
    <2>1. d \in Orgs /\ d.plan = Applied(p)
          /\ (Applied(p) = Enterprise \/ d.requestsPerMinute = PlanRateLimits[Applied(p)])
      BY <1>2, UpdatedIsOrg
    <2>2. /\ pc[p] = "loadOrg" /\ pc' = [pc EXCEPT ![p] = "saveOrg"]
          /\ draft' = [draft EXCEPT ![p] = d]
          /\ UNCHANGED <<row, org, records, stripe, op, entity, meter>>
      BY <1>6 DEF LoadOrg, Goto
    <2> HIDE DEF d
    <2>3. TypeOK'
      BY <2>1, <2>2 DEF stripe, meter
    <2>4. LocalOf(p)'
      BY <1>2, <2>1, <2>2 DEF LocalOf, stripe, Paid, Applied
    <2> QED BY <1>1, <2>2, <2>3, <2>4
  <1>12. CASE LoadPatched(p)
    <2> DEFINE d == Updated(op[p].plan, op[p].about)
    <2>0. /\ op[p].plan \in Plans \cup {Null} /\ op[p].about \in Nat \cup {Null}
          /\ op[p].kind = "patch"
      BY <1>2, <1>12 DEF LoadPatched, LocalOf, Ops
    <2>1. d \in Orgs /\ (op[p].plan = Null \/ d.plan = op[p].plan)
      BY <2>0, UpdatedIsOrg
    <2>2. /\ pc[p] = "patch" /\ pc' = [pc EXCEPT ![p] = "savePatch"]
          /\ draft' = [draft EXCEPT ![p] = d]
          /\ UNCHANGED <<row, org, records, stripe, op, entity, meter>>
      BY <1>12 DEF LoadPatched, Goto
    <2> HIDE DEF d
    <2>3. TypeOK'
      BY <2>1, <2>2 DEF stripe, meter
    <2>4. LocalOf(p)'
      BY <1>2, <2>1, <2>2 DEF LocalOf, stripe, Paid, Applied
    <2> QED BY <1>1, <2>2, <2>3, <2>4
  <1>7. CASE Branch(p)
    <2> DEFINE o == [op[p] EXCEPT !.kind = "downgrade"]
    <2>0. o \in Ops
      <3>1. op[p] \in Ops
        OBVIOUS
      <3> QED BY <3>1, Downgraded
    <2>3. /\ op' = op \/ op' = [op EXCEPT ![p] = o]
          /\ \E step \in {"find", "cancel", "customer", "account", "count", "done"} :
                pc' = [pc EXCEPT ![p] = step]
          /\ UNCHANGED <<row, org, records, stripe, entity, draft, meter>>
      BY <1>7 DEF Branch, Goto
    <2>1. TypeOK'
      <3> HIDE DEF o
      <3> HIDE DEF TypeOK
      <3> QED BY <2>0, <2>3, LocalShapes DEF Pcs, Ended
    <2>2. LocalOf(p)'
      BY <1>2, <1>7 DEF Branch, Goto, LocalOf, stripe, Paid, Ops
    <2> QED BY <1>1, <1>7, <2>1, <2>2 DEF Branch
  <1>8. CASE LoadCustomer(p)
    <2>1. TypeOK'
      BY <1>8 DEF LoadCustomer, Goto, Set, stripe, meter
    <2>2. LocalOf(p)'
      BY <1>2, <1>8 DEF LoadCustomer, Goto, Set, LocalOf, stripe, Paid
    <2> QED BY <1>1, <1>8, <2>1, <2>2 DEF LoadCustomer
  <1>9. CASE Lookup(p)
    <2>1. pc'[p] \in {"done", "find", "record", "change"} /\ entity'[p] = row
          /\ (pc'[p] = "record" => op[p].kind = "invoice")
          /\ (op' = op \/ (op[p].kind = "deleted" /\ op' = [op EXCEPT ![p].kind = "downgrade"]))
          /\ UNCHANGED <<row, org, records, stripe, draft, meter>>
      BY <1>9 DEF Lookup, Goto, Set
    <2> DEFINE o == [op[p] EXCEPT !.kind = "downgrade"]
    <2>0. o \in Ops
      <3>1. op[p] \in Ops
        OBVIOUS
      <3> QED BY <3>1, Downgraded
    <2>4. /\ op' = op \/ op' = [op EXCEPT ![p] = o]
          /\ \E step \in {"done", "find", "record", "change"} : pc' = [pc EXCEPT ![p] = step]
          /\ entity' = [entity EXCEPT ![p] = row]
      BY <1>9 DEF Lookup, Goto, Set
    <2>2. TypeOK'
      <3> HIDE DEF o
      <3>1. row \in Rows
        OBVIOUS
      <3> HIDE DEF TypeOK
      <3> QED BY <2>0, <2>1, <2>4, <3>1, LocalShapes DEF Pcs, Ended
    <2>3. LocalOf(p)'
      BY <1>2, <2>1 DEF LocalOf, stripe, Paid, Ops
    <2> QED BY <1>1, <2>1, <2>2, <2>3
  <1>10. CASE Change(p)
    <2> DEFINE r == IF op[p].kind = "account" THEN op[p].status = "active"
                    ELSE entity[p].account \in transfers
               e == IF op[p].kind = "status" THEN [entity[p] EXCEPT !.status = op[p].status]
                    ELSE [entity[p] EXCEPT !.payouts = r]
    <2>1. e \in Rows /\ e.exists = entity[p].exists /\ e.plan = entity[p].plan
      <3>1. entity[p] \in Rows
        OBVIOUS
      <3>2. op[p].kind = "status" => op[p].status \in {"active", "past_due"}
        BY <1>2 DEF LocalOf
      <3>3. r \in BOOLEAN
        <4>1. CASE op[p].kind = "account"
          <5>1. (op[p].status = "active") \in BOOLEAN
            OBVIOUS
          <5> QED BY <4>1, <5>1
        <4>2. CASE op[p].kind # "account"
          <5>1. (entity[p].account \in transfers) \in BOOLEAN
            OBVIOUS
          <5> QED BY <4>2, <5>1
        <4> HIDE DEF r
        <4> QED BY <4>1, <4>2
      <3> HIDE DEF r
      <3> QED BY <3>1, <3>2, <3>3, ReadBack
    <2>2. /\ \E step \in {"done", "write"} : pc' = [pc EXCEPT ![p] = step]
          /\ entity' = [entity EXCEPT ![p] = e]
          /\ UNCHANGED <<row, org, records, stripe, op, draft, meter>>
      BY <1>10 DEF Change, Goto, Set
    <2> HIDE DEF e
    <2>3. TypeOK'
      BY <2>1, <2>2 DEF stripe, meter, Ended
    <2>4. LocalOf(p)'
      BY <1>2, <2>1, <2>2 DEF LocalOf, stripe, Paid
    <2> QED BY <1>1, <2>2, <2>3, <2>4
  <1>11. CASE Crash(p)
    <2>1. TypeOK'
      BY <1>11 DEF Crash, Goto, stripe, meter, Ended
    <2>2. LocalOf(p)'
      BY <1>2, <1>11 DEF Crash, Goto, LocalOf, stripe, Paid
    <2> QED BY <1>1, <1>11, <2>1, <2>2 DEF Crash
  <1> QED BY <1>4, <1>5, <1>6, <1>7, <1>8, <1>9, <1>10, <1>11, <1>12

\* What is written, to the database and to Stripe.
\* The bill of a plan, and the requests it is for.
LEMMA BillIsNat ==
    ASSUME NEW plan \in Plans, NEW used \in Nat PROVE ComputeBill(plan, used) \in Nat
  <1> DEFINE overage == IF used > PlanTerms[plan].quota THEN used - PlanTerms[plan].quota ELSE 0
             blocks == (overage + BlockSize - 1) \div BlockSize
  <1>1. /\ PlanTerms[plan].price \in Nat /\ PlanTerms[plan].quota \in Nat
        /\ PlanTerms[plan].overagePerThousand \in Nat
    OBVIOUS
  <1>2. overage + BlockSize - 1 \in Nat
    BY <1>1
  <1>3. blocks \in Nat
    <2> HIDE DEF overage
    <2> QED BY <1>2, DivIsNat
  <1> HIDE DEF blocks
  <1>4. PlanTerms[plan].price + blocks * PlanTerms[plan].overagePerThousand \in Nat
    BY <1>1, <1>3, SumIsNat
  <1> QED BY <1>4 DEF ComputeBill, blocks

LEMMA CountIsNat ==
    ASSUME TypeOK, NEW S PROVE Cardinality(logged \cap S) \in Nat /\ IsFiniteSet(logged \cap S)
  <1>1. IsFiniteSet(0 .. MaxTime) /\ logged \cap S \subseteq 0 .. MaxTime
    <2>1. MaxTime \in Int /\ 0 \in Int
      OBVIOUS
    <2>2. IsFiniteSet(0 .. MaxTime)
      BY <2>1, FS_Interval
    <2> QED BY <2>2 DEF TypeOK
  <1> QED BY <1>1, FS_Subset, FS_CardinalityType

LEMMA WriteInv ==
    ASSUME Inv, NEW p \in Calls, CallStep(p),
           \/ Save(p) \/ SaveOrg(p) \/ SavePatched(p) \/ Write(p) \/ Cancel(p) \/ CreateCustomer(p)
           \/ CreateSession(p) \/ CreateAccount(p) \/ Record(p) \/ Count(p) \/ InsertBill(p)
    PROVE  Inv'
  <1> USE DEF Inv, TypeOK
  <1>1. ASSUME TypeOK', LocalOf(p)', UNCHANGED <<session, events>> PROVE Inv'
    BY <1>1, CallInv
  <1>2. LocalOf(p) /\ Applied(p) \in Plans
    BY AppliedIsPlan
  <1>3. CASE Save(p)
    <2> DEFINE e == [entity[p] EXCEPT !.exists = TRUE]
    <2>1. e \in Rows /\ e.exists /\ e.plan = entity[p].plan
      <3>1. entity[p] \in Rows
        OBVIOUS
      <3> HIDE DEF Inv, TypeOK
      <3> QED BY <3>1 DEF Rows
    <2>2. /\ pc[p] = "save" /\ UNCHANGED <<org, records, stripe, op, draft, meter>>
          /\ \/ pc' = [pc EXCEPT ![p] = "failed"] /\ UNCHANGED <<row, entity>>
             \/ /\ pc' = [pc EXCEPT ![p] = "loadOrg"]
                /\ entity' = [entity EXCEPT ![p] = e] /\ row' = e
      BY <1>3 DEF Save, Goto, Set
    <2> HIDE DEF e
    <2>3. entity[p].plan = Applied(p)
      BY <1>2, <2>2 DEF LocalOf
    <2>4. TypeOK'
      <3>1. CASE pc' = [pc EXCEPT ![p] = "failed"] /\ UNCHANGED <<row, entity>>
        BY <2>2, <3>1 DEF stripe, meter, Ended
      <3>2. CASE pc' = [pc EXCEPT ![p] = "loadOrg"] /\ entity' = [entity EXCEPT ![p] = e] /\ row' = e
        BY <1>2, <2>1, <2>2, <2>3, <3>2 DEF stripe, meter
      <3> QED BY <2>2, <3>1, <3>2
    <2>5. LocalOf(p)'
      BY <1>2, <2>1, <2>2, <2>3 DEF LocalOf, stripe, Paid, Applied
    <2> QED BY <1>1, <2>2, <2>4, <2>5 DEF stripe
  <1>4. CASE SaveOrg(p)
    <2>1. PICK e \in Rows, step \in {"write", "done", "branch"} :
             /\ pc' = [pc EXCEPT ![p] = step] /\ entity' = [entity EXCEPT ![p] = e]
             /\ e.exists = entity[p].exists /\ e.plan = entity[p].plan
      <3>1. entity[p] \in Rows
        OBVIOUS
      <3>2. CASE op[p].kind = "activate"
        <4> DEFINE s == op[p].about
        <4>1. session[s].customer \in Nat /\ s \in Calls
          BY <1>2, <3>2 DEF LocalOf
        <4>2. Linked(p) \in Rows /\ Linked(p).exists = entity[p].exists /\ Linked(p).plan = entity[p].plan
          BY <3>1, <4>1 DEF Linked, Rows
        <4> QED BY <1>4, <3>2, <4>2 DEF SaveOrg, Goto, Set
      <3>3. CASE op[p].kind = "downgrade"
        <4>1. Unlinked(p) \in Rows /\ Unlinked(p).exists = entity[p].exists /\ Unlinked(p).plan = entity[p].plan
          BY <3>1 DEF Unlinked, Rows
        <4> QED BY <1>4, <3>3, <4>1 DEF SaveOrg, Goto, Set
      <3>4. CASE op[p].kind \notin {"activate", "downgrade"}
        <4>1. entity' = [entity EXCEPT ![p] = entity[p]]
          BY <1>4, <3>4 DEF SaveOrg
        <4> QED BY <1>4, <3>1, <3>4, <4>1 DEF SaveOrg, Goto
      <3> QED BY <3>2, <3>3, <3>4
    <2>2. pc[p] = "saveOrg" /\ org' = draft[p] /\ UNCHANGED <<row, records, stripe, op, draft, meter>>
      BY <1>4 DEF SaveOrg
    <2>3. TypeOK'
      BY <2>1, <2>2 DEF stripe, meter, Ended
    <2>4. LocalOf(p)'
      BY <1>2, <2>1, <2>2 DEF LocalOf, stripe, Paid
    <2> QED BY <1>1, <2>2, <2>3, <2>4 DEF stripe
  <1>5. CASE Write(p)
    <2>1. TypeOK'
      BY <1>2, <1>5 DEF Write, Goto, stripe, meter, Ended, LocalOf
    <2>2. LocalOf(p)'
      BY <1>2, <1>5 DEF Write, Goto, LocalOf, stripe, Paid
    <2> QED BY <1>1, <1>5, <2>1, <2>2 DEF Write, stripe
  <1>6. CASE Cancel(p)
    <2> DEFINE s == entity[p].subscription
    <2>1. s \in Calls /\ pc[p] = "cancel"
      BY <1>2, <1>6 DEF LocalOf, Rows, Cancel
    <2>2. Op("deleted", Null, s, Null) \in Ops
      BY <2>1 DEF Op, Ops
    <2>3. /\ pc' = [pc EXCEPT ![p] = "find"]
          /\ UNCHANGED <<row, org, records, customers, accounts, transfers, session, op, entity, draft, meter>>
          /\ \/ UNCHANGED <<subscription, events>>
             \/ /\ subscription' = [subscription EXCEPT ![s] = "canceled"]
                /\ events' = events \cup {Op("deleted", Null, s, Null)}
      BY <1>6 DEF Cancel, Goto
    <2> HIDE DEF s
    <2>4. TypeOK'
      BY <2>1, <2>2, <2>3 DEF meter
    <2>5. LocalOf(p)'
      BY <1>2, <2>3 DEF LocalOf, Paid
    <2>6. \A ev \in events' : ev \in events \/ (ev.kind = "deleted" /\ ev.about \in Calls)
      BY <2>1, <2>3 DEF Op
    <2> QED BY <2>3, <2>4, <2>5, <2>6, CallInv
  <1>7. CASE CreateCustomer(p) \/ CreateAccount(p)
    <2>1. PICK e \in Rows :
             /\ entity' = [entity EXCEPT ![p] = e]
             /\ e.exists = entity[p].exists /\ e.plan = entity[p].plan
      <3>1. entity[p] \in Rows /\ customers + 1 \in Nat /\ accounts + 1 \in Nat
        OBVIOUS
      <3>2. ASSUME NEW n \in Nat
            PROVE  /\ [entity[p] EXCEPT !.customer = n] \in Rows
                   /\ [entity[p] EXCEPT !.customer = n].exists = entity[p].exists
                   /\ [entity[p] EXCEPT !.customer = n].plan = entity[p].plan
                   /\ [entity[p] EXCEPT !.account = n] \in Rows
                   /\ [entity[p] EXCEPT !.account = n].exists = entity[p].exists
                   /\ [entity[p] EXCEPT !.account = n].plan = entity[p].plan
        BY <3>1 DEF Rows
      <3> HIDE DEF Inv, TypeOK
      <3>3. CASE CreateCustomer(p)
        BY <3>1, <3>2, <3>3 DEF CreateCustomer, Set
      <3>4. CASE CreateAccount(p)
        BY <3>1, <3>2, <3>4 DEF CreateAccount, Set
      <3> QED BY <1>7, <3>3, <3>4
    <2>2. /\ pc' = [pc EXCEPT ![p] = "write"]
          /\ UNCHANGED <<row, org, records, transfers, session, subscription, events, op, draft, meter>>
          /\ customers' \in {customers, customers + 1} /\ accounts' \in {accounts, accounts + 1}
      BY <1>7 DEF CreateCustomer, CreateAccount, Goto
    <2>3. TypeOK'
      BY <2>1, <2>2 DEF meter
    <2>4. LocalOf(p)'
      BY <1>2, <2>1, <2>2 DEF LocalOf, Paid
    <2> QED BY <1>1, <2>2, <2>3, <2>4
  <1>8. CASE CreateSession(p)
    <2> DEFINE t == [state |-> "open", plan |-> op[p].plan, customer |-> entity[p].customer]
    <2>1. t.plan \in Plans /\ t \in [state : {"none", "open", "complete"}, plan : Plans \cup {Null}, customer : Nat]
      <3>1. op[p].plan \in Plans
        BY <1>2, <1>8 DEF LocalOf, CreateSession
      <3>2. entity[p].customer \in Nat
        BY DEF Rows
      <3> QED BY <3>1, <3>2
    <2>2. /\ pc[p] = "session" /\ pc' = [pc EXCEPT ![p] = "done"] /\ session' = [session EXCEPT ![p] = t]
          /\ UNCHANGED <<row, org, records, customers, accounts, transfers, subscription, events,
                         op, entity, draft, meter>>
      BY <1>8 DEF CreateSession, Goto
    <2> HIDE DEF t
    <2>3. TypeOK'
      BY <2>1, <2>2 DEF meter, Ended
    <2>4. LocalOf(p)'
      BY <1>2, <2>2 DEF LocalOf, Applied
    <2>5. \A s \in Calls : \/ session'[s] = session[s]
                           \/ s = p /\ pc'[p] = "done" /\ session'[p].plan \in Plans
      BY <2>1, <2>2
    <2> QED BY <2>2, <2>3, <2>4, <2>5, CallInv
  <1>9. CASE Record(p)
    <2>1. op[p].about \in Calls
      BY <1>2, <1>9 DEF LocalOf, Record
    <2>2. TypeOK'
      BY <1>9, <2>1 DEF Record, Goto, stripe, meter, Ended
    <2>3. LocalOf(p)'
      BY <1>2, <1>9 DEF Record, Goto, LocalOf, stripe, Paid
    <2> QED BY <1>1, <1>9, <2>2, <2>3 DEF Record, stripe
  <1>10. CASE Count(p) \/ InsertBill(p)
    <2>1. PICK step \in {"done", "insert"} : pc' = [pc EXCEPT ![p] = step]
      BY <1>10 DEF Count, InsertBill, Goto
    <2>2. UNCHANGED <<row, org, records, stripe, op, entity, draft, scenario, now, logged>>
      BY <1>10 DEF Count, InsertBill
    <2>3. bill' \in [Calls -> [state : {"none", "counted", "open"}, plan : Plans, period : Nat,
                               used : Nat, total : Nat, at : Nat]]
      <3>1. CASE UNCHANGED bill
        BY <3>1
      <3>2. CASE InsertBill(p)
        <4>1. \A b \in [state : {"none", "counted", "open"}, plan : Plans, period : Nat,
                          used : Nat, total : Nat, at : Nat] :
                 [b EXCEPT !.state = "open"] \in [state : {"none", "counted", "open"}, plan : Plans,
                                                  period : Nat, used : Nat, total : Nat, at : Nat]
          OBVIOUS
        <4>2. bill' = [bill EXCEPT ![p] = [bill[p] EXCEPT !.state = "open"]]
          BY <3>2 DEF InsertBill
        <4> QED BY <4>1, <4>2
      <3>3. CASE Count(p) /\ ~ UNCHANGED bill
        <4> DEFINE used == Counted(entity[p])
                   total == ComputeBill(entity[p].plan, used)
        <4>1. entity[p].plan \in Plans /\ entity[p].period \in Nat /\ now \in Nat
          BY <1>2, <3>3 DEF Count, LocalOf, Rows
        <4>2. used \in Nat
          BY CountIsNat DEF Counted
        <4>3. total \in Nat
          <5> HIDE DEF used
          <5> QED BY <4>1, <4>2, BillIsNat
        <4>4. bill' = [bill EXCEPT ![p] =
                  [state |-> "counted", plan |-> entity[p].plan, period |-> entity[p].period,
                   used |-> used, total |-> total, at |-> now]]
          BY <3>3 DEF Count
        <4> HIDE DEF used, total
        <4> QED BY <4>1, <4>2, <4>3, <4>4
      <3> QED BY <1>10, <3>1, <3>2, <3>3
    <2>4. TypeOK'
      BY <2>1, <2>2, <2>3 DEF stripe, Ended
    <2>5. LocalOf(p)'
      BY <1>2, <2>1, <2>2 DEF LocalOf, stripe, Paid
    <2> QED BY <1>1, <2>2, <2>4, <2>5 DEF stripe
  <1>11. CASE SavePatched(p)
    <2>1. /\ pc' = [pc EXCEPT ![p] = "done"] /\ org' = draft[p]
          /\ UNCHANGED <<row, records, stripe, op, entity, draft, meter>>
      BY <1>11 DEF SavePatched, Goto
    <2>2. TypeOK'
      BY <2>1 DEF stripe, meter, Ended
    <2>3. LocalOf(p)'
      BY <1>2, <2>1 DEF LocalOf, stripe, Paid
    <2> QED BY <1>1, <2>1, <2>2, <2>3 DEF stripe
  <1> QED BY <1>3, <1>4, <1>5, <1>6, <1>7, <1>8, <1>9, <1>10, <1>11

\* Stripe's own steps, and the clock.
LEMMA StripeStepsInv ==
    ASSUME Inv, StripeStep \/ Log \/ Tick \/ UNCHANGED vars PROVE Inv'
  <1> USE DEF Inv, TypeOK, call
  <1>1. ASSUME TypeOK', UNCHANGED call,
               \A s \in Calls : \/ session'[s] = session[s]
                                \/ session[s].state = "open" /\ session'[s].plan = session[s].plan,
               \A ev \in events' : ev \in events \/ EventOf(ev)'
        PROVE  Inv'
    <2>1. ASSUME NEW s, NEW plan, s \in Calls, Paid(s, plan) PROVE Paid(s, plan)'
      BY <1>1, <2>1 DEF Paid
    <2>2. ASSUME NEW p \in Calls PROVE LocalOf(p)' /\ SessionOf(p)'
      <3>1. LocalOf(p) /\ SessionOf(p)
        OBVIOUS
      <3>2. LocalOf(p)'
        BY <1>1, <2>1, <3>1 DEF LocalOf, Applied
      <3> QED BY <1>1, <3>1, <3>2 DEF SessionOf
    <2>3. ASSUME NEW ev \in events' PROVE EventOf(ev)'
      BY <1>1, <2>1 DEF EventOf
    <2> QED BY <1>1, <2>2, <2>3
  <1>2. ASSUME NEW s \in Calls, Pay(s) PROVE Inv'
    <2>1. PICK t, a, i :
             /\ t \in [state : {"none", "open", "complete"}, plan : Plans \cup {Null}, customer : Nat]
             /\ t.state = "complete" /\ t.plan = session[s].plan
             /\ a \in Ops /\ a.kind = "activate" /\ a.about = s /\ a.plan = t.plan
             /\ i \in Ops /\ i.kind = "invoice" /\ i.about = s
             /\ session' = [session EXCEPT ![s] = t] /\ events' = events \cup {a, i}
      <3>1. session[s] \in [state : {"none", "open", "complete"}, plan : Plans \cup {Null}, customer : Nat]
        OBVIOUS
      <3>2. /\ session' = [session EXCEPT ![s] = [session[s] EXCEPT !.state = "complete"]]
            /\ events' = events \cup {Op("activate", session[s].plan, s, Null), PaidEvent(s)}
        BY <1>2 DEF Pay
      <3>3. Op("activate", session[s].plan, s, Null) \in Ops /\ PaidEvent(s) \in Ops
        BY <3>1 DEF Op, Ops, PaidEvent
      <3> QED BY <3>1, <3>2, <3>3 DEF Op, PaidEvent
    <2>2. /\ session[s].state = "open" /\ subscription' = [subscription EXCEPT ![s] = "active"]
          /\ UNCHANGED <<row, org, records, customers, accounts, transfers, call, meter>>
      BY <1>2 DEF Pay
    <2>3. TypeOK'
      BY <2>1, <2>2 DEF meter
    <2>4. EventOf(a)' /\ EventOf(i)'
      BY <2>1 DEF EventOf, Paid
    <2>5. \A r \in Calls : \/ session'[r] = session[r]
                           \/ session[r].state = "open" /\ session'[r].plan = session[r].plan
      BY <2>1, <2>2
    <2> QED BY <1>1, <2>1, <2>2, <2>3, <2>4, <2>5
  <1>3. ASSUME NEW s \in Calls, NEW status \in {"active", "past_due"}, Renew(s, status) PROVE Inv'
    <2>1. /\ StatusEvent(s, status) \in Ops /\ PaidEvent(s) \in Ops
          /\ EventOf(StatusEvent(s, status))' /\ EventOf(PaidEvent(s))'
      BY DEF Op, Ops, PaidEvent, StatusEvent, EventOf
    <2>2. /\ subscription' = [subscription EXCEPT ![s] = status]
          /\ events' \subseteq events \cup {StatusEvent(s, status), PaidEvent(s)}
          /\ UNCHANGED <<row, org, records, customers, accounts, transfers, session, call, meter>>
      BY <1>3 DEF Renew
    <2>3. TypeOK'
      BY <2>1, <2>2 DEF meter
    <2> QED BY <1>1, <2>1, <2>2, <2>3
  <1>4. ASSUME NEW s \in Calls, EndSubscription(s) PROVE Inv'
    <2> DEFINE ev == Op("deleted", Null, s, Null)
    <2>1. ev \in Ops /\ EventOf(ev)'
      BY DEF Op, Ops, EventOf
    <2>2. /\ subscription' = [subscription EXCEPT ![s] = "canceled"]
          /\ events' = events \cup {ev}
          /\ UNCHANGED <<row, org, records, customers, accounts, transfers, session, call, meter>>
      BY <1>4 DEF EndSubscription
    <2> HIDE DEF ev
    <2>3. TypeOK'
      BY <2>1, <2>2 DEF meter
    <2> QED BY <1>1, <2>1, <2>2, <2>3
  <1>5. ASSUME NEW a \in 1 .. accounts, UpdateAccount(a) PROVE Inv'
    <2>1. PICK ev \in Ops : events' = events \cup {ev} /\ ev.kind = "account" /\ ev.about = a
      <3>1. \A status \in {"active", "inactive"} : Op("account", Null, a, status) \in Ops
        BY DEF Op, Ops
      <3> QED BY <1>5, <3>1 DEF UpdateAccount, Op
    <2>2. /\ transfers' \subseteq 1 .. accounts
          /\ UNCHANGED <<row, org, records, customers, accounts, session, subscription, call, meter>>
      BY <1>5 DEF UpdateAccount
    <2>3. TypeOK'
      BY <2>1, <2>2 DEF meter
    <2>4. EventOf(ev)'
      BY <2>1 DEF EventOf
    <2> QED BY <1>1, <2>1, <2>2, <2>3, <2>4
  <1>6. CASE Log \/ Tick \/ UNCHANGED vars
    <2>1. UNCHANGED <<row, org, records, stripe, call, scenario, bill>>
      BY <1>6 DEF Log, Tick, vars, meter
    <2>2. now' \in 0 .. MaxTime /\ logged' \subseteq 0 .. MaxTime
      <3>1. CASE Log
        BY <3>1 DEF Log
      <3>2. CASE Tick
        BY <3>2 DEF Tick
      <3> QED BY <1>6, <3>1, <3>2 DEF vars, meter
    <2>3. TypeOK'
      BY <2>1, <2>2 DEF stripe
    <2> QED BY <1>1, <2>1, <2>3 DEF stripe
  <1> QED BY <1>2, <1>3, <1>4, <1>5, <1>6 DEF StripeStep

LEMMA StepInv == Inv /\ [Next]_vars => Inv'
  BY BeginInv, ReadInv, WriteInv, StripeStepsInv DEF Next, CallStep, Finished

\* The rows, what Stripe has and the locals of every call keep their shapes.
THEOREM TypeCorrect == Spec => []TypeOK
  <1>1. Inv => TypeOK
    BY DEF Inv
  <1> QED BY <1>1, InitInv, StepInv, PTL DEF Spec

-----------------------------------------------------------------------------
(* No plan without payment.                                                *)

\* The plan may be the gateway's.
Granted(plan) == Bought(plan) \/ Patched(plan)

PaidInv ==
    ~Subscribed => /\ Bought(row.plan) /\ Granted(org.plan)
                   /\ \A p \in Calls : Bought(entity[p].plan) /\ Granted(draft[p].plan)

\* Where the plans of a call, of the row and of the organization come from.
LEMMA PlanMoves ==
    ASSUME Inv, NEW p \in Calls, CallStep(p)
    PROVE  /\ entity'[p].plan \in {entity[p].plan, row.plan, Applied(p)}
           /\ row'.plan \in {row.plan, entity[p].plan}
           /\ org'.plan \in {org.plan, draft[p].plan}
           /\ \/ draft'[p].plan \in {draft[p].plan, org.plan, Applied(p)}
              \/ op[p].kind = "patch" /\ draft'[p].plan = op[p].plan
           /\ op[p].kind = "patch" => op'[p] = op[p]
           /\ op[p].kind = "subscribe" => op'[p].kind = "subscribe"
           /\ \A s \in Calls : session'[s] = session[s] \/ session[s].state = "none"
  <1> USE DEF Inv, TypeOK, Goto, Set, stripe
  <1>1. LocalOf(p) /\ SessionOf(p) /\ entity[p] \in Rows /\ row \in Rows
    OBVIOUS
  <1>2. ASSUME NEW o, NEW step, Begin(p, o, step)
        PROVE  op[p].kind \notin {"subscribe", "patch"}
    BY <1>1, <1>2 DEF Begin, LocalOf, NoOp, Op
  <1>3. CASE \/ \E kind \in RequestKinds, plan \in Plans : BeginRequest(p, kind, plan)
             \/ \E plan \in Plans \cup {Null}, limit \in CustomLimits \cup {Null} : UpdateRateLimit(p, plan, limit)
             \/ \E s \in Calls : Confirm(p, s)
             \/ \E ev \in events : Deliver(p, ev)
    BY <1>2, <1>3 DEF BeginRequest, UpdateRateLimit, Confirm, Deliver
  <1>4. CASE Ensure(p) \/ LoadCustomer(p) \/ Crash(p) \/ Record(p)
    BY <1>1, <1>4 DEF Ensure, LoadCustomer, Crash, Record
  <1>13. CASE LoadOrg(p)
    <2>1. Updated(Applied(p), Null).plan = Applied(p)
      BY AppliedIsPlan DEF Updated
    <2> QED BY <1>13, <2>1 DEF LoadOrg
  <1>14. CASE LoadPatched(p)
    <2>1. op[p].kind = "patch"
      BY <1>1, <1>14 DEF LocalOf, LoadPatched
    <2>2. Updated(op[p].plan, op[p].about).plan \in {org.plan, op[p].plan}
      BY DEF Updated
    <2> QED BY <1>14, <2>1, <2>2 DEF LoadPatched
  <1>15. CASE SavePatched(p)
    BY <1>15 DEF SavePatched
  <1>12. CASE Find(p)
    <2>1. [row EXCEPT !.plan = Applied(p), !.status = "active", !.period = CurrentPeriod].plan = Applied(p)
      BY <1>1 DEF Rows
    <2> QED BY <1>12, <2>1 DEF Find
  <1>5. CASE Lookup(p)
    BY <1>1, <1>5 DEF Lookup, Ops
  <1>6. CASE Branch(p) \/ Count(p) \/ InsertBill(p) \/ Cancel(p)
    BY <1>1, <1>6 DEF Branch, Count, InsertBill, Cancel, Ops
  <1>7. CASE Change(p)
    BY <1>1, <1>7 DEF Change, Rows
  <1>8. CASE Save(p) \/ Write(p)
    BY <1>1, <1>8 DEF Save, Write, Rows
  <1>9. CASE SaveOrg(p)
    <2>1. org'.plan = draft[p].plan /\ UNCHANGED <<row, session, op, draft>>
      BY <1>1, <1>9 DEF SaveOrg
    <2>2. Linked(p).plan = entity[p].plan /\ Unlinked(p).plan = entity[p].plan
      BY <1>1 DEF Linked, Unlinked, Rows
    <2>3. entity' = entity \/ entity' = [entity EXCEPT ![p] = Linked(p)]
            \/ entity' = [entity EXCEPT ![p] = Unlinked(p)]
      BY <1>9 DEF SaveOrg
    <2>4. entity'[p].plan = entity[p].plan
      BY <2>2, <2>3
    <2> QED BY <2>1, <2>4
  <1>10. CASE CreateCustomer(p) \/ CreateAccount(p)
    BY <1>1, <1>10 DEF CreateCustomer, CreateAccount, Rows
  <1>11. CASE CreateSession(p)
    BY <1>1, <1>11 DEF CreateSession, SessionOf, Ended
  <1> QED BY <1>3, <1>4, <1>5, <1>6, <1>7, <1>8, <1>9, <1>10, <1>11, <1>12, <1>13, <1>14, <1>15
      DEF CallStep

LEMMA StepPaidInv == Inv /\ PaidInv /\ [Next]_vars => PaidInv'
  <1> SUFFICES ASSUME Inv, PaidInv, [Next]_vars, ~Subscribed'
               PROVE  /\ Bought(row.plan)' /\ Granted(org.plan)'
                      /\ \A q \in Calls : Bought(entity[q].plan)' /\ Granted(draft[q].plan)'
    BY DEF PaidInv
  <1>1. ASSUME NEW p \in Calls, CallStep(p)
        PROVE  /\ Bought(row.plan)' /\ Granted(org.plan)'
               /\ \A q \in Calls : Bought(entity[q].plan)' /\ Granted(draft[q].plan)'
    <2>1. /\ entity'[p].plan \in {entity[p].plan, row.plan, Applied(p)}
          /\ row'.plan \in {row.plan, entity[p].plan}
          /\ org'.plan \in {org.plan, draft[p].plan}
          /\ \/ draft'[p].plan \in {draft[p].plan, org.plan, Applied(p)}
             \/ op[p].kind = "patch" /\ draft'[p].plan = op[p].plan
          /\ op[p].kind = "patch" => op'[p] = op[p]
          /\ op[p].kind = "subscribe" => op'[p].kind = "subscribe"
          /\ \A s \in Calls : session'[s] = session[s] \/ session[s].state = "none"
      BY <1>1, PlanMoves
    <2>2. \A q \in Calls \ {p} : op'[q] = op[q] /\ entity'[q] = entity[q] /\ draft'[q] = draft[q]
      BY <1>1, CallFrame DEF Inv
    <2>3. ~Subscribed
      BY <2>1, <2>2 DEF Subscribed
    <2>4. Bought(Applied(p)) /\ (op[p].kind = "patch" => Granted(op[p].plan))
      BY <2>3 DEF Subscribed, Inv, LocalOf, Applied, Bought, Paid, Granted, Patched
    <2>5. ASSUME NEW plan
          PROVE  (Bought(plan) => Bought(plan)') /\ (Granted(plan) => Granted(plan)')
      <3>1. Bought(plan) => Bought(plan)'
        BY <2>1 DEF Bought
      <3>2. Patched(plan) => Patched(plan)'
        BY <2>1, <2>2 DEF Patched
      <3> QED BY <3>1, <3>2 DEF Granted
    <2>6. /\ Bought(row'.plan) /\ Granted(org'.plan)
          /\ \A q \in Calls : Bought(entity'[q].plan) /\ Granted(draft'[q].plan)
      BY <2>1, <2>2, <2>3, <2>4 DEF PaidInv, Granted
    <2> QED BY <2>5, <2>6
  <1>2. CASE StripeStep \/ Log \/ Tick \/ UNCHANGED vars
    <2>1. UNCHANGED <<row, org, call>>
      BY <1>2 DEF StripeStep, Log, Tick, vars, Pay, Renew, EndSubscription, UpdateAccount
    <2>2. \A s \in Calls : session'[s] = session[s] \/ session[s].state = "open"
      BY <1>2 DEF StripeStep, Log, Tick, vars, stripe, Pay, Renew, EndSubscription, UpdateAccount, Inv, TypeOK
    <2>3. ASSUME NEW plan
          PROVE  (Bought(plan) => Bought(plan)') /\ (Granted(plan) => Granted(plan)')
      BY <2>1, <2>2 DEF Bought, Granted, Patched, call
    <2> QED BY <2>1, <2>3 DEF PaidInv, Subscribed, call
  <1> QED BY <1>1, <1>2 DEF Next, Finished

\* As long as nobody subscribes without Stripe, no plan is billed that was not
\* paid for, and the gateway has one that was or that its OWNER asked for,
\* whatever interleaves, dies, arrives late or twice.
THEOREM PaidFor == Spec => []PlansArePaid
  <1>1. Init => PaidInv
    BY DEF Init, PaidInv, Bought, Granted, NoRow
  <1>2. PaidInv => PlansArePaid
    BY DEF PaidInv, PlansArePaid, Granted
  <1> QED BY <1>1, <1>2, InitInv, StepInv, StepPaidInv, PTL DEF Spec

-----------------------------------------------------------------------------
(* The invoices of a month.                                                *)

LEMMA DivMonotone ==
    ASSUME NEW a \in Nat, NEW b \in Nat, a <= b, NEW m \in Nat \ {0}
    PROVE  a \div m <= b \div m
  OBVIOUS

LEMMA BillMonotone ==
    ASSUME NEW plan \in Plans, NEW m \in Nat, NEW n \in Nat, m <= n
    PROVE  ComputeBill(plan, m) <= ComputeBill(plan, n)
  <1> DEFINE quota == PlanTerms[plan].quota
             rate == PlanTerms[plan].overagePerThousand
             over(used) == IF used > quota THEN used - quota ELSE 0
             blocks(used) == (over(used) + BlockSize - 1) \div BlockSize
  <1>1. PlanTerms[plan].price \in Nat /\ quota \in Nat /\ rate \in Nat
    OBVIOUS
  <1>2. over(m) + BlockSize - 1 \in Nat /\ over(n) + BlockSize - 1 \in Nat
        /\ over(m) + BlockSize - 1 <= over(n) + BlockSize - 1
    BY <1>1
  <1>3. blocks(m) \in Nat /\ blocks(n) \in Nat /\ blocks(m) <= blocks(n)
    <2> HIDE DEF over
    <2> QED BY <1>2, DivIsNat, DivMonotone
  <1>4. /\ ComputeBill(plan, m) = PlanTerms[plan].price + blocks(m) * rate
        /\ ComputeBill(plan, n) = PlanTerms[plan].price + blocks(n) * rate
    BY DEF ComputeBill
  <1> HIDE DEF blocks, rate
  <1>5. blocks(m) * rate <= blocks(n) * rate /\ blocks(m) * rate \in Nat /\ blocks(n) * rate \in Nat
    BY <1>1, <1>3
  <1> QED BY <1>1, <1>4, <1>5

LEMMA TimeIsFinite == IsFiniteSet(0 .. MaxTime)
  <1>1. MaxTime \in Int
    BY BoundsAssumption
  <1> QED BY <1>1, FS_Interval

\* The requests of a month logged before an instant, or until it.
Before(period, t) == {u \in logged \cap Month(period) : u < t}
Until(period, t) == {u \in logged \cap Month(period) : u <= t}

\* A bill is for those it counted, all that were logged before it was.
BillOf(p) ==
    LET b == bill[p]
    IN  b.state # "none" =>
            /\ b.at <= now /\ b.total = ComputeBill(b.plan, b.used)
            /\ Cardinality(Before(b.period, b.at)) <= b.used
            /\ b.used <= Cardinality(Until(b.period, b.at))

LEMMA SomeLogged ==
    ASSUME TypeOK, NEW S, S \subseteq logged, NEW T, T \subseteq S
    PROVE  /\ IsFiniteSet(S) /\ IsFiniteSet(T) /\ Cardinality(S) \in Nat /\ Cardinality(T) \in Nat
           /\ Cardinality(T) <= Cardinality(S)
  <1>0. S = logged \cap S
    OBVIOUS
  <1>1. IsFiniteSet(S)
    BY <1>0, CountIsNat
  <1> QED BY <1>1, FS_Subset, FS_CardinalityType

LEMMA LoggedAt == ASSUME TypeOK PROVE logged \subseteq Nat
  BY DEF TypeOK

LEMMA BillsAgree == Inv /\ (\A p \in Calls : BillOf(p)) => InvoicesAgree
  <1> SUFFICES ASSUME Inv, \A r \in Calls : BillOf(r), NEW p \in Calls, NEW q \in Calls,
                      bill[p].state = "open", bill[q].state = "open", bill[p].period = bill[q].period
               PROVE  /\ bill[p].at < bill[q].at => /\ bill[p].used <= bill[q].used
                                                    /\ bill[p].plan = bill[q].plan => bill[p].total <= bill[q].total
                      /\ /\ bill[p].at > (bill[p].period + 1) * MonthLength
                         /\ bill[q].at > (bill[p].period + 1) * MonthLength
                         => bill[p].used = bill[q].used
    BY DEF InvoicesAgree
  <1> DEFINE period == bill[p].period
  <1>1. /\ BillOf(p) /\ BillOf(q) /\ TypeOK
        /\ bill[p].at \in Nat /\ bill[q].at \in Nat /\ bill[p].used \in Nat /\ bill[q].used \in Nat
        /\ bill[p].plan \in Plans /\ period \in Nat
    BY DEF Inv, TypeOK
  <1>2. ASSUME bill[p].at < bill[q].at PROVE bill[p].used <= bill[q].used
    <2>1. Until(period, bill[p].at) \subseteq Before(period, bill[q].at)
      BY <1>1, <1>2, LoggedAt DEF Until, Before
    <2>2. /\ Cardinality(Until(period, bill[p].at)) \in Nat /\ Cardinality(Before(period, bill[q].at)) \in Nat
          /\ Cardinality(Until(period, bill[p].at)) <= Cardinality(Before(period, bill[q].at))
      BY <1>1, <2>1, SomeLogged DEF Before
    <2>3. bill[p].used <= Cardinality(Until(period, bill[p].at))
          /\ Cardinality(Before(period, bill[q].at)) <= bill[q].used
      BY <1>1 DEF BillOf
    <2> QED BY <1>1, <2>2, <2>3
  <1>3. ASSUME NEW r \in {p, q}, bill[r].at > (period + 1) * MonthLength
        PROVE  bill[r].used = Cardinality(logged \cap Month(period))
    <2>1. Before(period, bill[r].at) = logged \cap Month(period)
      BY <1>1, <1>3 DEF Before, Month, TypeOK
    <2>2. Until(period, bill[r].at) = logged \cap Month(period)
      BY <1>1, <1>3 DEF Until, Month, TypeOK
    <2>3. Cardinality(logged \cap Month(period)) \in Nat
      BY <1>1, CountIsNat
    <2>4. /\ Cardinality(Before(period, bill[r].at)) <= bill[r].used
          /\ bill[r].used <= Cardinality(Until(period, bill[r].at)) /\ bill[r].used \in Nat
      BY <1>1 DEF BillOf
    <2>5. /\ Cardinality(logged \cap Month(period)) <= bill[r].used
          /\ bill[r].used <= Cardinality(logged \cap Month(period))
      BY <2>1, <2>2, <2>4
    <2> QED BY <2>3, <2>4, <2>5, Antisymmetry
  <1>4. bill[p].used <= bill[q].used /\ bill[p].plan = bill[q].plan => bill[p].total <= bill[q].total
    BY <1>1, BillMonotone DEF BillOf
  <1> QED BY <1>2, <1>3, <1>4

\* Nothing is logged after the clock, and what is counted is inserted once.
BillInv ==
    /\ \A u \in logged : u <= now
    /\ \A p \in Calls : BillOf(p) /\ (pc[p] = "insert" => bill[p].state = "counted")

\* A bill stays right: what is logged later is logged at the clock or after it.
LEMMA BillKept ==
    ASSUME TypeOK, TypeOK', NEW p \in Calls, BillOf(p), logged \subseteq logged', now <= now',
           bill'[p] = bill[p] \/ (bill[p].state # "none" /\ bill'[p] = [bill[p] EXCEPT !.state = "open"]),
           \A u \in logged' : u \in logged \/ u >= now
    PROVE  BillOf(p)'
  <1> DEFINE b == bill[p]
             before == {u \in logged' \cap Month(b.period) : u < b.at}
             until == {u \in logged' \cap Month(b.period) : u <= b.at}
  <1>1. CASE b.state = "none"
    BY <1>1 DEF BillOf
  <1>2. CASE b.state # "none"
    <2>1. /\ b.at <= now /\ b.total = ComputeBill(b.plan, b.used) /\ b.used \in Nat /\ b.at \in Nat
          /\ Cardinality(Before(b.period, b.at)) <= b.used
          /\ b.used <= Cardinality(Until(b.period, b.at)) /\ now \in Nat /\ now' \in Nat
      BY <1>2 DEF BillOf, TypeOK
    <2>2. before = Before(b.period, b.at)
      <3>1. \A u \in logged' : u \in Nat
        BY DEF TypeOK
      <3>2. \A u \in logged' : u < b.at => u \in logged
        BY <2>1, <3>1
      <3> QED BY <3>2 DEF Before
    <2>3. Until(b.period, b.at) \subseteq until
      BY DEF Until
    <2>4. IsFiniteSet(logged')
      <3>1. logged' \subseteq 0 .. MaxTime
        BY DEF TypeOK
      <3> QED BY <3>1, TimeIsFinite, FS_Subset
    <2>5. /\ IsFiniteSet(until)
          /\ Cardinality(Until(b.period, b.at)) <= Cardinality(until)
      <3>1. until \subseteq logged'
        OBVIOUS
      <3> HIDE DEF until
      <3> QED BY <2>3, <2>4, <3>1, FS_Subset
    <2>6. Cardinality(Until(b.period, b.at)) \in Nat /\ Cardinality(until) \in Nat
      <3> HIDE DEF until
      <3> QED BY <2>3, <2>5, FS_Subset, FS_CardinalityType
    <2>7. Cardinality(before) <= b.used
      <3> HIDE DEF before, b
      <3> QED BY <2>1, <2>2
    <2>8. b.used <= Cardinality(until) /\ b.at <= now'
      <3> HIDE DEF until, b
      <3> QED BY <2>1, <2>5, <2>6
    <2>9. /\ bill'[p].at = b.at /\ bill'[p].total = b.total /\ bill'[p].plan = b.plan
          /\ bill'[p].used = b.used /\ bill'[p].period = b.period
      BY DEF TypeOK
    <2>10. \A period, t : /\ Before(period, t)' = {u \in logged' \cap Month(period) : u < t}
                          /\ Until(period, t)' = {u \in logged' \cap Month(period) : u <= t}
      BY DEF Before, Until
    <2> HIDE DEF b
    <2> QED BY <2>1, <2>7, <2>8, <2>9, <2>10 DEF BillOf
  <1> QED BY <1>1, <1>2

LEMMA StepBillInv == Inv /\ Inv' /\ BillInv /\ [Next]_vars => BillInv'
  <1> SUFFICES ASSUME Inv, Inv', BillInv, [Next]_vars PROVE BillInv'
    OBVIOUS
  <1>1. TypeOK /\ TypeOK' /\ \A p \in Calls : BillOf(p)
    BY DEF Inv, BillInv
  <1>2. now \in Nat /\ now' \in Nat /\ logged \subseteq Nat
    BY <1>1, LoggedAt DEF TypeOK
  <1>3. CASE Log \/ Tick \/ StripeStep \/ UNCHANGED vars
    <2>1. UNCHANGED <<bill, pc>>
      BY <1>3 DEF Log, Tick, StripeStep, Pay, Renew, EndSubscription, UpdateAccount, vars, meter, call
    <2>2. /\ logged \subseteq logged' /\ now <= now' /\ \A u \in logged' : u \in logged \/ u = now
      <3>1. CASE Log
        BY <1>2, <3>1 DEF Log
      <3>2. CASE Tick
        BY <1>2, <3>2 DEF Tick
      <3>3. CASE StripeStep \/ UNCHANGED vars
        BY <1>2, <3>3 DEF StripeStep, Pay, Renew, EndSubscription, UpdateAccount, vars, meter
      <3> QED BY <1>3, <3>1, <3>2, <3>3
    <2>3. \A u \in logged' : u \in Nat /\ (u \in logged \/ u >= now)
      BY <1>2, <2>2
    <2>4. \A p \in Calls : BillOf(p)'
      BY <1>1, <2>1, <2>2, <2>3, BillKept
    <2>5. \A u \in logged' : u <= now'
      BY <1>2, <2>2, <2>3 DEF BillInv
    <2> QED BY <2>1, <2>4, <2>5 DEF BillInv
  <1>4. ASSUME NEW p \in Calls, CallStep(p) PROVE BillInv'
    <2>1. /\ \A q \in Calls \ {p} : pc'[q] = pc[q]
          /\ UNCHANGED <<now, logged>>
      BY <1>1, <1>4, CallFrame
    <2>2. ASSUME NEW q \in Calls,
                 \/ bill'[q] = bill[q]
                 \/ bill[q].state # "none" /\ bill'[q] = [bill[q] EXCEPT !.state = "open"]
          PROVE  BillOf(q)'
      BY <1>1, <1>2, <2>1, <2>2, BillKept
    <2>3. CASE Count(p) /\ op[p].kind # "usage"
      <3> DEFINE period == entity[p].period
                 used == Cardinality(logged \cap Month(period))
      <3>1. /\ pc'[p] = "insert"
            /\ bill' = [bill EXCEPT ![p] =
                  [state |-> "counted", plan |-> entity[p].plan, period |-> period,
                   used |-> used, total |-> ComputeBill(entity[p].plan, used), at |-> now]]
        BY <1>1, <2>3 DEF Count, Counted, Goto, TypeOK
      <3>2. \A q \in Calls \ {p} : BillOf(q)' /\ bill'[q] = bill[q]
        BY <1>1, <2>2, <3>1 DEF TypeOK
      <3>3. Until(period, now) = logged \cap Month(period)
        BY DEF Until, BillInv
      <3>4. Before(period, now) \subseteq logged \cap Month(period)
        BY DEF Before
      <3>5. Cardinality(Before(period, now)) <= used /\ used <= Cardinality(Until(period, now))
        BY <1>1, <3>3, <3>4, SomeLogged
      <3>6. \A t, r : Before(r, t)' = Before(r, t) /\ Until(r, t)' = Until(r, t)
        BY <2>1 DEF Before, Until
      <3> DEFINE b == [state |-> "counted", plan |-> entity[p].plan, period |-> period,
                       used |-> used, total |-> ComputeBill(entity[p].plan, used), at |-> now]
      <3>7. bill'[p] = b /\ b.state = "counted"
        BY <1>1, <3>1 DEF TypeOK
      <3>8. /\ b.at <= now /\ b.total = ComputeBill(b.plan, b.used)
            /\ Cardinality(Before(b.period, b.at)) <= b.used
            /\ b.used <= Cardinality(Until(b.period, b.at))
        BY <1>2, <3>5
      <3> HIDE DEF b
      <3>9. BillOf(p)'
        BY <2>1, <3>6, <3>7, <3>8 DEF BillOf
      <3> QED BY <2>1, <3>2, <3>7, <3>9 DEF BillInv
    <2>4. CASE InsertBill(p)
      <3>1. /\ pc[p] = "insert" /\ pc'[p] = "done"
            /\ bill' = [bill EXCEPT ![p] = [bill[p] EXCEPT !.state = "open"]]
        BY <1>1, <2>4 DEF InsertBill, Goto, TypeOK
      <3>2. bill[p].state = "counted"
        BY <3>1 DEF BillInv
      <3>3. \A q \in Calls \ {p} : bill'[q] = bill[q]
        BY <1>1, <3>1 DEF TypeOK
      <3>4. bill'[p] = [bill[p] EXCEPT !.state = "open"]
        BY <1>1, <3>1 DEF TypeOK
      <3>5. \A q \in Calls : BillOf(q)'
        BY <2>2, <3>2, <3>3, <3>4
      <3> QED BY <2>1, <3>1, <3>3, <3>5 DEF BillInv
    <2>5. CASE UNCHANGED bill /\ pc'[p] # "insert"
      <3>1. \A q \in Calls : BillOf(q)'
        BY <2>2, <2>5
      <3> QED BY <2>1, <2>5, <3>1 DEF BillInv
    <2>6. ASSUME ~Count(p), ~InsertBill(p) PROVE UNCHANGED bill /\ pc'[p] # "insert"
      <3> USE DEF TypeOK, Goto, meter
      <3>1. ASSUME NEW o, NEW step \in {"ensure", "find", "lookup", "patch"}, Begin(p, o, step)
            PROVE  pc'[p] # "insert"
        BY <1>1, <3>1 DEF Begin
      <3>2. CASE \/ \E kind \in RequestKinds, plan \in Plans : BeginRequest(p, kind, plan)
                 \/ \E plan \in Plans \cup {Null}, limit \in CustomLimits \cup {Null} : UpdateRateLimit(p, plan, limit)
                 \/ \E s \in Calls : Confirm(p, s)
                 \/ \E ev \in events : Deliver(p, ev)
        BY <3>1, <3>2 DEF BeginRequest, UpdateRateLimit, Confirm, Deliver
      <3>3. CASE Ensure(p) \/ Find(p) \/ Save(p) \/ LoadOrg(p) \/ Write(p) \/ Record(p) \/ Crash(p)
        BY <1>1, <3>3 DEF Ensure, Find, Save, LoadOrg, Write, Record, Crash
      <3>6. CASE LoadPatched(p) \/ SavePatched(p)
        BY <1>1, <3>6 DEF LoadPatched, SavePatched
      <3>4. CASE SaveOrg(p) \/ Branch(p) \/ Cancel(p) \/ LoadCustomer(p) \/ CreateCustomer(p)
        BY <1>1, <3>4 DEF SaveOrg, Branch, Cancel, LoadCustomer, CreateCustomer
      <3>5. CASE CreateSession(p) \/ CreateAccount(p) \/ Lookup(p) \/ Change(p)
        BY <1>1, <3>5 DEF CreateSession, CreateAccount, Lookup, Change
      <3> QED BY <1>4, <2>6, <3>2, <3>3, <3>4, <3>5, <3>6 DEF CallStep
    <2>7. CASE Count(p) /\ op[p].kind = "usage"
      BY <1>1, <2>5, <2>7 DEF Count, Goto, TypeOK
    <2> QED BY <2>3, <2>4, <2>5, <2>6, <2>7
  <1> QED BY <1>3, <1>4 DEF Next, Finished

\* Invoices of one month never disagree: the later one bills what the earlier one
\* did and more, and those counted after the month bill the same requests.
THEOREM InvoicesFollow == Spec => []InvoicesAgree
  <1>1. Init => BillInv
    BY DEF Init, BillInv, BillOf, NoBill
  <1>2. Inv /\ BillInv => InvoicesAgree
    BY BillsAgree DEF BillInv
  <1> QED BY <1>1, <1>2, InitInv, StepInv, StepBillInv, PTL DEF Spec

-----------------------------------------------------------------------------
(* Calls one by one.                                                       *)

\* Which calls are where.
Applying == {"find", "save", "loadOrg", "saveOrg"}

KindOf(p) ==
    /\ pc[p] \in Applying => op[p].kind \in (RequestKinds \ {"payouts", "patch"}) \cup {"activate", "downgrade"}
    /\ pc[p] = "cancel" => op[p].kind = "downgrade"
    /\ pc[p] \in {"ensure", "branch"} => op[p].kind \in RequestKinds \ {"subscribe", "payouts", "patch"}
    /\ pc[p] \in {"customer", "newCustomer", "session"} => op[p].kind = "checkout"
    /\ pc[p] = "account" => op[p].kind = "onboard"
    /\ pc[p] \in {"lookup", "change"} =>
          op[p].kind \in {"payouts", "account", "status", "invoice", "deleted"}

Alone == \A p, q \in Calls : Busy(p) /\ Busy(q) => p = q

\* Of a call that is alone: what it has read is what the row still is, but for
\* what it has changed to write it.
ReadOf(p) ==
    /\ pc[p] \in {"loadOrg", "saveOrg", "branch", "account", "change", "newCustomer", "session"} =>
          entity[p] = row
    /\ pc[p] = "save" =>
          /\ entity[p].exists = row.exists /\ entity[p].customer = row.customer
          /\ entity[p].subscription = row.subscription /\ entity[p].account = row.account
    /\ pc[p] \in Applying /\ op[p].kind \notin {"activate", "downgrade", "subscribe"} =>
          row.subscription = Null
    /\ pc[p] = "savePatch" => draft[p].plan = IF op[p].plan = Null THEN org.plan ELSE op[p].plan

WriteOf(p) ==
    pc[p] = "write" =>
        /\ entity[p].exists = row.exists /\ entity[p].plan = row.plan
        /\ entity[p].subscription = CASE op[p].kind = "activate" -> op[p].about
                                      [] op[p].kind = "downgrade" -> Null
                                      [] OTHER -> row.subscription
        /\ entity[p].customer = CASE op[p].kind = "activate" -> session[op[p].about].customer
                                  [] op[p].kind = "checkout" -> customers
                                  [] OTHER -> row.customer
        /\ entity[p].account = IF op[p].kind = "onboard" THEN accounts ELSE row.account
        /\ op[p].kind = "activate" =>
              /\ row.exists /\ row.plan = op[p].plan /\ org.plan = op[p].plan
              /\ op[p].plan = Enterprise \/ org.requestsPerMinute = PlanRateLimits[op[p].plan]

SerialInv ==
    /\ \A p \in Calls : KindOf(p)
    /\ OneByOne => /\ Alone
                   /\ row.subscription # Null => row.exists
                   /\ \A p \in Calls : ReadOf(p) /\ WriteOf(p)

LEMMA OneBeginsAlone ==
    ASSUME OneByOne, NEW p \in Calls, CallStep(p), pc[p] = "idle"
    PROVE  Cardinality({r \in Calls : Busy(r)}) < 1
  <1>1. ASSUME NEW o, NEW step, Begin(p, o, step) PROVE Cardinality({r \in Calls : Busy(r)}) < 1
    BY <1>1 DEF Begin, OneByOne
  <1>2. ~Crash(p)
    BY DEF Crash, Busy
  <1> QED
    BY <1>1, <1>2 DEF CallStep, BeginRequest, UpdateRateLimit, LoadPatched, SavePatched, Confirm, Deliver, Ensure, Find, Save, LoadOrg, SaveOrg, Write,
        Branch, Cancel, LoadCustomer, CreateCustomer, CreateSession, CreateAccount, Lookup, Change, Record,
        Count, InsertBill

LEMMA OthersRest ==
    ASSUME Inv, SerialInv, OneByOne, NEW p \in Calls, CallStep(p), NEW q \in Calls \ {p}
    PROVE  ~Busy(q) /\ ~Busy(q)' /\ pc'[q] \in {"idle"} \cup Ended
  <1>1. pc'[q] = pc[q] /\ pc[p] \notin Ended
    BY CallFrame DEF Inv
  <1>2. CASE pc[p] = "idle"
    <2> DEFINE busy == {r \in Calls : Busy(r)}
    <2>1. Cardinality(busy) < 1
      BY <1>2, OneBeginsAlone
    <2>2. IsFiniteSet(busy)
      BY FS_Subset
    <2>3. busy = {}
      <3> HIDE DEF busy
      <3>1. Cardinality(busy) \in Nat
        BY <2>2, FS_CardinalityType
      <3>2. Cardinality(busy) = 0
        BY <2>1, <3>1
      <3> QED BY <2>2, <3>2, FS_EmptySet
    <2> QED BY <1>1, <2>3 DEF Busy
  <1>3. CASE pc[p] # "idle"
    BY <1>1, <1>3 DEF SerialInv, Alone, Busy
  <1> QED BY <1>2, <1>3

\* What SerialInv says of one call.
SerialOf(p) ==
    /\ KindOf(p)
    /\ OneByOne => (row.subscription # Null => row.exists) /\ ReadOf(p) /\ WriteOf(p)

LEMMA SerialBegin ==
    ASSUME Inv, SerialInv, NEW p \in Calls,
           \/ \E kind \in RequestKinds, plan \in Plans : BeginRequest(p, kind, plan)
           \/ \E plan \in Plans \cup {Null}, limit \in CustomLimits \cup {Null} : UpdateRateLimit(p, plan, limit)
           \/ \E s \in Calls : Confirm(p, s)
           \/ \E ev \in events : Deliver(p, ev)
    PROVE  SerialOf(p)'
  <1> USE DEF Inv, TypeOK
  <1>1. ASSUME NEW o, NEW step \in {"ensure", "find", "lookup", "patch"}, Begin(p, o, step),
               step = "find" => o.kind \in {"subscribe", "activate"},
               step = "ensure" => o.kind \in RequestKinds \ {"subscribe", "payouts", "patch"},
               step = "lookup" => o.kind \in {"payouts", "account", "status", "invoice", "deleted"},
               UNCHANGED <<row, scenario>>
        PROVE  SerialOf(p)'
    <2>1. op'[p] = o /\ pc'[p] = step
      BY <1>1 DEF Begin, Goto
    <2>2. KindOf(p)'
      BY <1>1, <2>1 DEF KindOf, Applying, RequestKinds
    <2>3. OneByOne' => OneByOne /\ (row'.subscription # Null => row'.exists)
      BY <1>1 DEF OneByOne, SerialInv
    <2>4. ReadOf(p)' /\ WriteOf(p)'
      BY <1>1, <2>1 DEF ReadOf, WriteOf, Applying
    <2> QED BY <2>2, <2>3, <2>4 DEF SerialOf
  <1>2. ASSUME NEW kind \in RequestKinds, NEW plan \in Plans, BeginRequest(p, kind, plan)
        PROVE  SerialOf(p)'
    <2> DEFINE o == Op(kind, IF kind \in {"subscribe", "checkout"} THEN plan ELSE Null, Null, Null)
               step == CASE kind = "subscribe" -> "find" [] kind = "payouts" -> "lookup" [] OTHER -> "ensure"
    <2>1. /\ o.kind = kind /\ step \in {"ensure", "find", "lookup"}
          /\ step = "find" => kind = "subscribe"
          /\ step = "ensure" => kind \notin {"subscribe", "payouts", "patch"}
          /\ step = "lookup" => kind = "payouts"
      BY <1>2 DEF Op, BeginRequest
    <2>2. Begin(p, o, step) /\ UNCHANGED <<row, scenario>>
      BY <1>2 DEF BeginRequest, meter
    <2> HIDE DEF o, step
    <2> QED BY <1>1, <2>1, <2>2
  <1>3. ASSUME NEW s \in Calls, Confirm(p, s) PROVE SerialOf(p)'
    <2> DEFINE o == Op("activate", session[s].plan, s, Null)
    <2>1. o.kind = "activate"
      BY DEF Op
    <2>2. Begin(p, o, "find") /\ UNCHANGED <<row, scenario>>
      BY <1>3 DEF Confirm, meter
    <2> HIDE DEF o
    <2> QED BY <1>1, <2>1, <2>2
  <1>4. ASSUME NEW ev \in events, Deliver(p, ev) PROVE SerialOf(p)'
    <2>1. EventOf(ev)
      OBVIOUS
    <2>2. /\ Begin(p, ev, IF ev.kind = "activate" THEN "find" ELSE "lookup")
          /\ UNCHANGED <<row, scenario>>
      BY <1>4 DEF Deliver, meter
    <2>3. CASE ev.kind = "activate"
      BY <1>1, <2>2, <2>3
    <2>4. CASE ev.kind # "activate"
      BY <1>1, <2>1, <2>2, <2>4 DEF EventOf
    <2> QED BY <2>3, <2>4
  <1>5. ASSUME NEW plan, NEW limit, UpdateRateLimit(p, plan, limit) PROVE SerialOf(p)'
    <2>1. Begin(p, Op("patch", plan, limit, Null), "patch") /\ UNCHANGED <<row, scenario>>
      BY <1>5 DEF UpdateRateLimit, meter
    <2> QED BY <1>1, <2>1
  <1> QED BY <1>2, <1>3, <1>4, <1>5

LEMMA SerialRead ==
    ASSUME Inv, SerialInv, NEW p \in Calls,
           \/ Ensure(p) \/ Find(p) \/ LoadOrg(p) \/ LoadPatched(p) \/ Branch(p) \/ LoadCustomer(p) \/ Lookup(p)
    PROVE  SerialOf(p)'
  <1> USE DEF Inv, TypeOK, Goto, Set, meter, stripe
  <1>1. KindOf(p) /\ LocalOf(p) /\ entity[p] \in Rows /\ row \in Rows
    BY DEF SerialInv
  <1>2. OneByOne => (row.subscription # Null => row.exists) /\ ReadOf(p) /\ WriteOf(p)
    BY DEF SerialInv
  <1>3. ASSUME UNCHANGED <<row, scenario>> PROVE OneByOne' => OneByOne /\ (row'.subscription # Null => row'.exists)
    BY <1>2, <1>3 DEF OneByOne
  <1>4. CASE Ensure(p)
    BY <1>1, <1>2, <1>3, <1>4 DEF Ensure, SerialOf, KindOf, ReadOf, WriteOf, Applying, RequestKinds
  <1>5. CASE Find(p)
    <2>1. /\ pc'[p] = "save" /\ pc[p] = "find" /\ op'[p] = op[p] /\ row' = row
          /\ entity'[p].exists = row.exists /\ entity'[p].customer = row.customer
          /\ entity'[p].subscription = row.subscription /\ entity'[p].account = row.account
      BY <1>1, <1>5 DEF Find, Rows
    <2> QED BY <1>1, <1>2, <1>3, <1>5, <2>1 DEF Find, SerialOf, KindOf, ReadOf, WriteOf, Applying
  <1>6. CASE LoadOrg(p)
    BY <1>1, <1>2, <1>3, <1>6 DEF LoadOrg, SerialOf, KindOf, ReadOf, WriteOf, Applying
  <1>7. CASE Branch(p)
    <2>1. /\ pc[p] = "branch" /\ entity' = entity /\ row' = row
          /\ pc'[p] \in {"find", "cancel", "customer", "account", "count", "done"}
          /\ pc'[p] \in {"find", "cancel"} => op'[p].kind = "downgrade"
          /\ pc'[p] = "customer" => op'[p].kind = "checkout"
          /\ pc'[p] = "account" => op'[p].kind = "onboard"
      BY <1>1, <1>7 DEF Branch, Ops
    <2>2. KindOf(p)'
      BY <2>1 DEF KindOf, Applying
    <2>3. OneByOne => ReadOf(p)' /\ WriteOf(p)'
      BY <1>2, <2>1 DEF ReadOf, WriteOf, Applying
    <2> QED BY <1>3, <1>7, <2>2, <2>3 DEF Branch, SerialOf
  <1>8. CASE LoadCustomer(p)
    BY <1>1, <1>2, <1>3, <1>8 DEF LoadCustomer, SerialOf, KindOf, ReadOf, WriteOf, Applying
  <1>9. CASE Lookup(p)
    <2>1. /\ pc[p] = "lookup" /\ entity'[p] = row /\ row' = row
          /\ pc'[p] \in {"find", "record", "change", "done"}
          /\ pc'[p] = "find" => op'[p].kind = "downgrade"
          /\ pc'[p] = "change" => op'[p] = op[p]
      BY <1>1, <1>9 DEF Lookup, Ops
    <2>2. KindOf(p)'
      BY <1>1, <2>1 DEF KindOf, Applying
    <2>3. ReadOf(p)' /\ WriteOf(p)'
      BY <2>1 DEF ReadOf, WriteOf, Applying
    <2> QED BY <1>3, <1>9, <2>2, <2>3 DEF Lookup, SerialOf
  <1>10. CASE LoadPatched(p)
    <2>1. /\ pc[p] = "patch" /\ pc'[p] = "savePatch" /\ UNCHANGED <<row, org, op, entity, scenario>>
          /\ draft'[p] = Updated(op[p].plan, op[p].about)
      BY <1>10 DEF LoadPatched
    <2>2. draft'[p].plan = IF op[p].plan = Null THEN org.plan ELSE op[p].plan
      BY <2>1 DEF Updated
    <2> QED BY <1>3, <2>1, <2>2 DEF SerialOf, KindOf, ReadOf, WriteOf, Applying
  <1> QED BY <1>4, <1>5, <1>6, <1>7, <1>8, <1>9, <1>10

LEMMA SerialWrite ==
    ASSUME Inv, SerialInv, NEW p \in Calls,
           \/ Save(p) \/ SaveOrg(p) \/ SavePatched(p) \/ Write(p) \/ Change(p) \/ CreateCustomer(p) \/ CreateAccount(p)
           \/ CreateSession(p) \/ Cancel(p) \/ Record(p) \/ Count(p) \/ InsertBill(p) \/ Crash(p)
    PROVE  SerialOf(p)'
  <1> USE DEF Inv, TypeOK, Goto, Set, meter, stripe
  <1>1. KindOf(p) /\ LocalOf(p) /\ entity[p] \in Rows /\ row \in Rows /\ op[p] \in Ops
    BY DEF SerialInv
  <1>2. OneByOne => (row.subscription # Null => row.exists) /\ ReadOf(p) /\ WriteOf(p)
    BY DEF SerialInv
  <1>3. ASSUME UNCHANGED <<row, scenario>> PROVE OneByOne' => OneByOne /\ (row'.subscription # Null => row'.exists)
    BY <1>2, <1>3 DEF OneByOne
  <1>4. ASSUME UNCHANGED <<row, scenario>>, pc'[p] \in {"find", "done", "failed", "insert"},
               pc'[p] = "find" => op'[p] = op[p] /\ op[p].kind = "downgrade"
        PROVE  SerialOf(p)'
    BY <1>1, <1>2, <1>3, <1>4 DEF SerialOf, KindOf, ReadOf, WriteOf, Applying, Ended
  <1>5. CASE SavePatched(p) \/ CreateSession(p) \/ Record(p) \/ Count(p) \/ InsertBill(p) \/ Crash(p)
    BY <1>4, <1>5 DEF SavePatched, CreateSession, Record, Count, InsertBill, Crash
  <1>6. CASE Cancel(p)
    <2>1. /\ UNCHANGED <<row, scenario, op>> /\ pc'[p] = "find" /\ pc[p] = "cancel"
      BY <1>6 DEF Cancel
    <2>2. op[p].kind = "downgrade"
      BY <1>1, <2>1 DEF KindOf
    <2> QED BY <1>4, <2>1, <2>2
  <1>7. CASE Save(p)
    <2>1. CASE row.exists /\ ~entity[p].exists
      BY <1>4, <1>7, <2>1 DEF Save
    <2>2. CASE ~(row.exists /\ ~entity[p].exists)
      <3>1. /\ pc[p] = "save" /\ pc'[p] = "loadOrg" /\ UNCHANGED <<op, scenario>>
            /\ row' = [entity[p] EXCEPT !.exists = TRUE] /\ entity'[p] = row'
        BY <1>7, <2>2 DEF Save
      <3>2. row'.exists /\ row'.subscription = entity[p].subscription
        BY <1>1, <3>1 DEF Rows
      <3>3. KindOf(p)'
        BY <1>1, <3>1 DEF KindOf, Applying
      <3>4. OneByOne => ReadOf(p)' /\ WriteOf(p)'
        BY <1>2, <3>1, <3>2 DEF ReadOf, WriteOf, Applying
      <3> QED BY <3>1, <3>2, <3>3, <3>4 DEF SerialOf, OneByOne
    <2> QED BY <2>1, <2>2
  <1>8. CASE SaveOrg(p)
    <2>1. /\ pc[p] = "saveOrg" /\ org' = draft[p] /\ UNCHANGED <<row, op, scenario, session, customers, accounts>>
          /\ draft[p].plan = Applied(p)
          /\ Applied(p) = Enterprise \/ draft[p].requestsPerMinute = PlanRateLimits[Applied(p)]
          /\ entity[p].exists /\ entity[p].plan = Applied(p)
      BY <1>1, <1>8 DEF SaveOrg, LocalOf
    <2>2. CASE op[p].kind = "activate"
      <3>1. pc'[p] = "write" /\ entity'[p] = Linked(p) /\ Applied(p) = op[p].plan
        BY <1>8, <2>2 DEF SaveOrg, Applied
      <3>2. /\ Linked(p).exists = entity[p].exists /\ Linked(p).plan = entity[p].plan
            /\ Linked(p).subscription = op[p].about /\ Linked(p).account = entity[p].account
            /\ Linked(p).customer = session[op[p].about].customer
        BY <1>1 DEF Linked, Rows
      <3>3. KindOf(p)'
        BY <3>1 DEF KindOf, Applying
      <3>4. OneByOne => entity[p] = row
        BY <1>2, <2>1 DEF ReadOf
      <3>5. OneByOne => ReadOf(p)' /\ WriteOf(p)'
        BY <2>1, <2>2, <3>1, <3>2, <3>4 DEF ReadOf, WriteOf, Applying
      <3> QED BY <1>3, <2>1, <3>3, <3>5 DEF SerialOf
    <2>3. CASE op[p].kind = "downgrade"
      <3>1. pc'[p] = "write" /\ entity'[p] = Unlinked(p)
        BY <1>8, <2>3 DEF SaveOrg
      <3>2. /\ Unlinked(p).exists = entity[p].exists /\ Unlinked(p).plan = entity[p].plan
            /\ Unlinked(p).subscription = Null /\ Unlinked(p).account = entity[p].account
            /\ Unlinked(p).customer = entity[p].customer
        BY <1>1 DEF Unlinked, Rows
      <3>3. KindOf(p)'
        BY <3>1 DEF KindOf, Applying
      <3>4. OneByOne => entity[p] = row
        BY <1>2, <2>1 DEF ReadOf
      <3>5. OneByOne => ReadOf(p)' /\ WriteOf(p)'
        BY <2>1, <2>3, <3>1, <3>2, <3>4 DEF ReadOf, WriteOf, Applying
      <3> QED BY <1>3, <2>1, <3>3, <3>5 DEF SerialOf
    <2>4. CASE op[p].kind = "subscribe"
      BY <1>4, <1>8, <2>4 DEF SaveOrg
    <2>5. CASE op[p].kind \notin {"activate", "downgrade", "subscribe"}
      <3>1. pc'[p] = "branch" /\ UNCHANGED entity
        BY <1>8, <2>5 DEF SaveOrg
      <3>2. KindOf(p)'
        BY <1>1, <2>1, <2>5, <3>1 DEF KindOf, Applying
      <3>3. OneByOne => ReadOf(p)' /\ WriteOf(p)'
        BY <1>2, <2>1, <3>1 DEF ReadOf, WriteOf, Applying
      <3> QED BY <1>3, <2>1, <3>2, <3>3 DEF SerialOf
    <2> QED BY <2>2, <2>3, <2>4, <2>5
  <1>9. CASE Write(p)
    <2>1. /\ pc[p] = "write" /\ pc'[p] = (IF op[p].kind = "checkout" THEN "session" ELSE "done")
          /\ row' = entity[p] /\ UNCHANGED <<op, entity, scenario>>
      BY <1>9 DEF Write
    <2>2. KindOf(p)'
      BY <2>1 DEF KindOf, Applying
    <2>3. ReadOf(p)' /\ WriteOf(p)'
      BY <2>1 DEF ReadOf, WriteOf, Applying
    <2>4. OneByOne => (row'.subscription # Null => row'.exists)
      BY <1>2, <2>1 DEF WriteOf
    <2> QED BY <2>1, <2>2, <2>3, <2>4 DEF SerialOf, OneByOne
  <1>10. CASE Change(p)
    <2>1. /\ pc[p] = "change" /\ UNCHANGED <<row, op, scenario, session, customers, accounts>>
          /\ pc'[p] \in {"write", "done"}
          /\ entity'[p].exists = entity[p].exists /\ entity'[p].plan = entity[p].plan
          /\ entity'[p].subscription = entity[p].subscription
          /\ entity'[p].customer = entity[p].customer /\ entity'[p].account = entity[p].account
      BY <1>1, <1>10 DEF Change, Rows
    <2>2. op[p].kind \in {"payouts", "account", "status", "invoice", "deleted"}
      BY <1>1, <2>1 DEF KindOf
    <2>3. KindOf(p)'
      BY <2>1 DEF KindOf, Applying
    <2>4. OneByOne => ReadOf(p)' /\ WriteOf(p)'
      BY <1>2, <2>1, <2>2 DEF ReadOf, WriteOf, Applying
    <2> QED BY <1>3, <2>1, <2>3, <2>4 DEF SerialOf
  <1>11. CASE CreateCustomer(p)
    <2>1. /\ pc[p] = "newCustomer" /\ UNCHANGED <<row, op, scenario, session, accounts>>
          /\ pc'[p] = "write" /\ customers' = customers + 1
          /\ entity'[p].exists = entity[p].exists /\ entity'[p].plan = entity[p].plan
          /\ entity'[p].subscription = entity[p].subscription
          /\ entity'[p].customer = customers + 1 /\ entity'[p].account = entity[p].account
      BY <1>1, <1>11 DEF CreateCustomer, Rows
    <2>2. op[p].kind = "checkout"
      BY <1>1, <2>1 DEF KindOf
    <2>3. KindOf(p)'
      BY <2>1 DEF KindOf, Applying
    <2>4. OneByOne => ReadOf(p)' /\ WriteOf(p)'
      BY <1>2, <2>1, <2>2 DEF ReadOf, WriteOf, Applying
    <2> QED BY <1>3, <2>1, <2>3, <2>4 DEF SerialOf
  <1>12. CASE CreateAccount(p)
    <2>1. /\ pc[p] = "account" /\ UNCHANGED <<row, op, scenario, session, customers>>
          /\ pc'[p] = "write" /\ accounts' = accounts + 1
          /\ entity'[p].exists = entity[p].exists /\ entity'[p].plan = entity[p].plan
          /\ entity'[p].subscription = entity[p].subscription
          /\ entity'[p].customer = entity[p].customer /\ entity'[p].account = accounts + 1
      BY <1>1, <1>12 DEF CreateAccount, Rows
    <2>2. op[p].kind = "onboard"
      BY <1>1, <2>1 DEF KindOf
    <2>3. KindOf(p)'
      BY <2>1 DEF KindOf, Applying
    <2>4. OneByOne => ReadOf(p)' /\ WriteOf(p)'
      BY <1>2, <2>1, <2>2 DEF ReadOf, WriteOf, Applying
    <2> QED BY <1>3, <2>1, <2>3, <2>4 DEF SerialOf
  <1> QED BY <1>5, <1>6, <1>7, <1>8, <1>9, <1>10, <1>11, <1>12

\* Stripe, the gateway and the clock leave the calls, the row and the customers alone.
LEMMA OutsideFrame ==
    ASSUME TypeOK, StripeStep \/ Log \/ Tick \/ UNCHANGED vars
    PROVE  /\ UNCHANGED <<row, org, customers, accounts, call, scenario>>
           /\ \A s \in Calls :
                 /\ session'[s].customer = session[s].customer
                 /\ session'[s].plan = session[s].plan
                 /\ session'[s].state # "none" => session[s].state # "none"
                 /\ session[s].state = "complete" => session'[s] = session[s]
  <1> USE DEF TypeOK, vars, call, meter, stripe
  <1>1. ASSUME NEW s \in Calls, Pay(s)
        PROVE  /\ UNCHANGED <<row, org, customers, accounts, call, scenario>>
               /\ session[s].state = "open" /\ session' = [session EXCEPT ![s] = [session[s] EXCEPT !.state = "complete"]]
    BY <1>1 DEF Pay
  <1>2. CASE \E s \in Calls : Pay(s)
    <2>1. PICK s \in Calls : Pay(s)
      BY <1>2
    <2>2. /\ \A q \in Calls \ {s} : session'[q] = session[q]
          /\ session[s].state = "open"
          /\ session'[s].customer = session[s].customer /\ session'[s].plan = session[s].plan
      <3> DEFINE paid == [session[s] EXCEPT !.state = "complete"]
      <3>1. /\ paid.customer = session[s].customer /\ paid.plan = session[s].plan
            /\ session' = [session EXCEPT ![s] = paid] /\ session[s].state = "open"
        BY <1>1, <2>1
      <3> HIDE DEF paid
      <3> QED BY <3>1
    <2> QED BY <1>1, <2>1, <2>2
  <1>3. CASE ~(\E s \in Calls : Pay(s))
    <2>1. UNCHANGED <<row, org, customers, accounts, call, scenario, session>>
      BY <1>3 DEF StripeStep, EndSubscription, Renew, UpdateAccount, Log, Tick
    <2> QED BY <2>1
  <1> QED BY <1>2, <1>3

LEMMA StepSerialInv == Inv /\ SerialInv /\ [Next]_vars => SerialInv'
  <1> SUFFICES ASSUME Inv, SerialInv, [Next]_vars PROVE SerialInv'
    OBVIOUS
  <1>1. ASSUME NEW p \in Calls, CallStep(p) PROVE SerialInv'
    <2>1. SerialOf(p)'
      BY <1>1, SerialBegin, SerialRead, SerialWrite DEF CallStep
    <2>2. /\ \A q \in Calls \ {p} : op'[q] = op[q] /\ pc'[q] = pc[q]
          /\ UNCHANGED scenario
      BY <1>1, CallFrame DEF Inv
    <2>3. \A q \in Calls \ {p} : KindOf(q)'
      BY <2>2 DEF SerialInv, KindOf
    <2>4. ASSUME OneByOne, NEW q \in Calls \ {p}
          PROVE  ~Busy(q)' /\ ReadOf(q)' /\ WriteOf(q)'
      BY <1>1, <2>4, OthersRest DEF ReadOf, WriteOf, Applying, Ended
    <2>5. OneByOne => Alone'
      BY <2>4 DEF Alone
    <2>6. OneByOne' => OneByOne
      BY <2>2 DEF OneByOne
    <2> QED BY <2>1, <2>3, <2>4, <2>5, <2>6 DEF SerialInv, SerialOf
  <1>2. CASE StripeStep \/ Log \/ Tick \/ UNCHANGED vars
    <2>1. /\ UNCHANGED <<row, org, customers, accounts, op, pc, entity, draft, scenario>>
          /\ \A s \in Calls : session'[s].customer = session[s].customer
      <3>1. TypeOK
        BY DEF Inv
      <3> QED BY <1>2, <3>1, OutsideFrame DEF call
    <2>2. ASSUME NEW p \in Calls PROVE /\ KindOf(p) => KindOf(p)'
                                       /\ ReadOf(p) => ReadOf(p)'
                                       /\ Busy(p)' <=> Busy(p)
      BY <2>1 DEF KindOf, ReadOf, Busy
    <2>3. ASSUME NEW p \in Calls, WriteOf(p) PROVE WriteOf(p)'
      <3>1. op[p].kind = "activate" => op[p].about \in Calls
        BY DEF Inv, LocalOf
      <3> QED BY <2>1, <2>3, <3>1 DEF WriteOf
    <2> QED BY <2>1, <2>2, <2>3 DEF SerialInv, Alone, OneByOne
  <1> QED BY <1>1, <1>2 DEF Next, Finished

LEMMA InitSerialInv == Init => SerialInv
  <1> SUFFICES ASSUME Init PROVE SerialInv
    OBVIOUS
  <1>1. \A p \in Calls : pc[p] = "idle"
    BY DEF Init
  <1>2. row.subscription = Null
    BY DEF Init, NoRow
  <1> QED BY <1>1, <1>2 DEF SerialInv, KindOf, ReadOf, WriteOf, Alone, Busy, Applying

\* A confirmation or an event that activates a session and is alone repairs what
\* calls before it left: it ends with the plan on the row, the organization and its limit.
THEOREM Repairs == Spec => ActivationRepairs
  <1> DEFINE Repaired(p) ==
        OneByOne /\ op[p].kind = "activate" /\ pc[p] = "write" /\ pc'[p] = "done" =>
             LET s == op[p].about
             IN  /\ row'.plan = session[s].plan /\ row'.subscription = s
                 /\ org'.plan = row'.plan
                 /\ row'.plan = Enterprise \/ org'.requestsPerMinute = PlanRateLimits[row'.plan]
  <1>1. ASSUME Inv, SerialInv, Next, NEW p \in Calls,
               OneByOne, op[p].kind = "activate", pc[p] = "write", pc'[p] = "done"
        PROVE  Repaired(p)
    <2>1. WriteOf(p) /\ LocalOf(p) /\ TypeOK
      BY <1>1 DEF SerialInv, Inv
    <2>2. PICK q \in Calls : CallStep(q)
      <3>1. ~(StripeStep \/ Log \/ Tick \/ UNCHANGED vars)
        BY <1>1, <2>1, OutsideFrame DEF call
      <3> QED BY <1>1, <3>1 DEF Next, Finished
    <2>3. q = p
      BY <1>1, <2>1, <2>2, CallFrame
    <2>4. Write(p)
      <3> USE DEF TypeOK, Goto
      <3>1. ~Crash(p)
        BY <1>1, <2>1 DEF Crash
      <3>2. ASSUME NEW o, NEW step PROVE ~Begin(p, o, step)
        BY <1>1 DEF Begin
      <3> QED BY <1>1, <2>2, <2>3, <3>1, <3>2 DEF CallStep, BeginRequest, UpdateRateLimit, LoadPatched, SavePatched, Confirm, Deliver, Ensure, Find,
            Save, LoadOrg, SaveOrg, Branch, Cancel, LoadCustomer, CreateCustomer, CreateSession,
            CreateAccount, Lookup, Change, Record, Count, InsertBill
    <2>5. row' = entity[p] /\ org' = org
      BY <2>4 DEF Write
    <2>6. /\ entity[p].plan = op[p].plan /\ entity[p].subscription = op[p].about
          /\ org.plan = op[p].plan
          /\ op[p].plan = Enterprise \/ org.requestsPerMinute = PlanRateLimits[op[p].plan]
      BY <1>1, <2>1 DEF WriteOf
    <2>7. session[op[p].about].plan = op[p].plan
      BY <1>1, <2>1 DEF LocalOf, Paid
    <2> QED BY <2>5, <2>6, <2>7
  <1>2. Inv /\ SerialInv /\ [Next]_vars => [\A p \in Calls : Repaired(p)]_vars
    BY <1>1
  <1> QED BY <1>2, InitInv, StepInv, InitSerialInv, StepSerialInv, PTL DEF Spec, ActivationRepairs

\* What the steps that write nothing but the locals do for the ones that write.
LEMMA QuietStep ==
    ASSUME Inv, SerialInv, Faultless, NEW p \in Calls, CallStep(p)
    PROVE  \/ Save(p) \/ LoadOrg(p) \/ SaveOrg(p) \/ Write(p) \/ SavePatched(p)
           \/ CreateCustomer(p) \/ CreateAccount(p) \/ CreateSession(p)
           \/ /\ UNCHANGED <<row, org, customers, accounts, session>>
              /\ pc[p] \notin {"loadOrg", "saveOrg", "write", "newCustomer", "account", "session"}
              /\ pc'[p] \notin {"loadOrg", "saveOrg"}
              /\ pc'[p] = "write" => op'[p].kind \notin {"activate", "downgrade", "checkout", "onboard"}
              /\ pc'[p] = "newCustomer" => row.customer = 0
              /\ pc'[p] = "session" => row.customer # 0
              /\ pc'[p] = "account" => row.account = 0
  <1> USE DEF Inv, TypeOK, Goto, Set, stripe
  <1>1. LocalOf(p) /\ KindOf(p) /\ ReadOf(p) /\ op[p] \in Ops
    BY DEF SerialInv, Faultless
  <1> DEFINE Local(steps) ==
        /\ UNCHANGED <<row, org, customers, accounts, session>>
        /\ pc[p] \notin {"loadOrg", "saveOrg", "write", "newCustomer", "account", "session"}
        /\ pc'[p] \in steps
  <1>2. ASSUME NEW o, NEW step \in {"ensure", "find", "lookup", "patch"}, Begin(p, o, step)
        PROVE  pc[p] = "idle" /\ pc'[p] \in {"ensure", "find", "lookup", "patch"}
    BY <1>2 DEF Begin
  <1>3. CASE \/ \E kind \in RequestKinds, plan \in Plans : BeginRequest(p, kind, plan)
             \/ \E plan \in Plans \cup {Null}, limit \in CustomLimits \cup {Null} : UpdateRateLimit(p, plan, limit)
             \/ \E s \in Calls : Confirm(p, s)
             \/ \E ev \in events : Deliver(p, ev)
    <2>1. Local({"ensure", "find", "lookup", "patch"})
      BY <1>2, <1>3 DEF BeginRequest, UpdateRateLimit, Confirm, Deliver
    <2> QED BY <2>1
  <1>4. CASE Ensure(p) \/ Find(p) \/ Cancel(p) \/ Record(p) \/ Count(p) \/ InsertBill(p)
    <2>1. Local({"branch", "find", "save", "done", "insert"})
      BY <1>4 DEF Ensure, Find, Cancel, Record, Count, InsertBill
    <2> QED BY <2>1
  <1>5. CASE Branch(p)
    <2>1. /\ Local({"find", "cancel", "customer", "account", "count", "done"})
          /\ pc'[p] = "account" => entity[p].account = 0
      BY <1>5 DEF Branch
    <2>2. entity[p] = row
      BY <1>1, <1>5 DEF Branch, ReadOf
    <2> QED BY <2>1, <2>2
  <1>6. CASE LoadCustomer(p)
    <2>1. /\ Local({"newCustomer", "session"})
          /\ pc'[p] = "newCustomer" => row.customer = 0
          /\ pc'[p] = "session" => row.customer # 0
      BY <1>6 DEF LoadCustomer
    <2> QED BY <2>1
  <1>7. CASE Lookup(p)
    <2>1. Local({"find", "record", "change", "done"})
      BY <1>7 DEF Lookup
    <2> QED BY <2>1
  <1>8. CASE Change(p)
    <2>1. Local({"write", "done"}) /\ op' = op /\ pc[p] = "change"
      BY <1>8 DEF Change
    <2> QED BY <1>1, <2>1 DEF KindOf
  <1>9. ~Crash(p)
    BY DEF Crash, Faultless
  <1>10. CASE LoadPatched(p)
    <2>1. Local({"savePatch"})
      BY <1>10 DEF LoadPatched
    <2> QED BY <2>1
  <1> QED BY <1>3, <1>4, <1>5, <1>6, <1>7, <1>8, <1>9, <1>10 DEF CallStep

Changing(p) == op[p].kind \in {"activate", "downgrade"} /\ pc[p] \in {"loadOrg", "saveOrg", "write"}

SyncInv ==
    Faultless => (row.exists /\ (\A p \in Calls : pc[p] \notin {"loadOrg", "saveOrg"}) =>
                     org.plan = row.plan \/ Patched(org.plan))

PaidPlanInv ==
    Faultless /\ ~Subscribed /\ row.subscription # Null =>
        Paid(row.subscription, row.plan) \/ \E p \in Calls : Changing(p)

StripeInv ==
    Faultless =>
        /\ customers \in {0, 1} /\ accounts \in {0, 1}
        /\ \A s \in Calls : session[s].state # "none" => session[s].customer = 1 /\ customers = 1
        /\ row.customer = customers \/ \E p \in Calls : pc[p] = "write" /\ op[p].kind = "checkout"
        /\ row.account = accounts \/ \E p \in Calls : pc[p] = "write" /\ op[p].kind = "onboard"
        /\ \A p \in Calls :
              /\ pc[p] = "newCustomer" => row.customer = 0
              /\ pc[p] = "session" \/ (pc[p] = "write" /\ op[p].kind = "checkout") => customers = 1
              /\ pc[p] = "account" => row.account = 0

\* No step of a call takes back what it has from Stripe, and the others rest.
LEMMA FaultlessFrame ==
    ASSUME Inv, SerialInv, Faultless', NEW p \in Calls, CallStep(p)
    PROVE  /\ Faultless
           /\ ~Subscribed' => ~Subscribed
           /\ \A s \in Calls, plan \in Plans \cup {Null} : Paid(s, plan) => Paid(s, plan)'
           /\ \A plan \in Plans : Patched(plan) => Patched(plan)'
           /\ \A q \in Calls \ {p} :
                 pc[q] \in {"idle"} \cup Ended /\ pc'[q] \in {"idle"} \cup Ended
  <1>1. /\ \A q \in Calls \ {p} : op'[q] = op[q] /\ pc'[q] = pc[q]
        /\ UNCHANGED scenario
    BY CallFrame DEF Inv
  <1>2. Faultless
    BY <1>1 DEF Faultless, OneByOne
  <1>3. /\ op[p].kind = "subscribe" => op'[p].kind = "subscribe"
        /\ op[p].kind = "patch" => op'[p] = op[p]
        /\ \A s \in Calls : session'[s] = session[s] \/ session[s].state = "none"
    BY PlanMoves
  <1>4. ~Subscribed' => ~Subscribed
    BY <1>1, <1>3 DEF Subscribed
  <1>5. \A s \in Calls, plan \in Plans \cup {Null} : Paid(s, plan) => Paid(s, plan)'
    BY <1>3 DEF Paid
  <1>6. \A q \in Calls \ {p} : pc'[q] \in {"idle"} \cup Ended
    BY <1>2, OthersRest DEF Faultless
  <1>7. \A plan \in Plans : Patched(plan) => Patched(plan)'
    BY <1>1, <1>3 DEF Patched
  <1> QED BY <1>1, <1>2, <1>4, <1>5, <1>6, <1>7

LEMMA CallSync ==
    ASSUME Inv, SerialInv, SyncInv, NEW p \in Calls, CallStep(p) PROVE SyncInv'
  <1> SUFFICES ASSUME Faultless', row'.exists, \A q \in Calls : pc'[q] \notin {"loadOrg", "saveOrg"}
               PROVE  org'.plan = row'.plan \/ Patched(org.plan)'
    BY DEF SyncInv
  <1> USE DEF Inv, TypeOK, Goto, Set
  <1>1. /\ Faultless
        /\ \A q \in Calls \ {p} : pc[q] \in {"idle"} \cup Ended
        /\ \A plan \in Plans : Patched(plan) => Patched(plan)'
    BY FaultlessFrame
  <1>2. pc[p] \notin {"loadOrg", "saveOrg"} /\ row.exists => org.plan = row.plan \/ Patched(org.plan)
    BY <1>1 DEF SyncInv, Ended
  <1>3. LocalOf(p) /\ ReadOf(p) /\ WriteOf(p)
    BY <1>1 DEF SerialInv, Faultless
  <1>9. ASSUME pc[p] \notin {"loadOrg", "saveOrg"}, org'.plan = org.plan, row'.plan = row.plan,
               row'.exists => row.exists
        PROVE  org'.plan = row'.plan \/ Patched(org.plan)'
    <2>1. org.plan \in Plans
      BY DEF Orgs
    <2>2. ASSUME Patched(org.plan) PROVE Patched(org.plan)'
      <3>1. PICK plan \in Plans : plan = org.plan
        BY <2>1
      <3>2. Patched(plan)'
        BY <1>1, <2>2, <3>1
      <3> QED BY <1>9, <3>1, <3>2 DEF Patched
    <2> QED BY <1>2, <1>9, <2>2
  <1>4. CASE Save(p)
    <2>1. CASE row.exists /\ ~entity[p].exists
      BY <1>4, <1>9, <2>1 DEF Save
    <2>2. CASE ~(row.exists /\ ~entity[p].exists)
      BY <1>4, <2>2 DEF Save
    <2> QED BY <2>1, <2>2
  <1>5. CASE LoadOrg(p)
    BY <1>5 DEF LoadOrg
  <1>6. CASE SaveOrg(p)
    BY <1>3, <1>6 DEF SaveOrg, LocalOf, ReadOf
  <1>7. CASE Write(p)
    <2>1. pc[p] = "write" /\ row' = entity[p] /\ org' = org
      BY <1>7 DEF Write
    <2> QED BY <1>3, <1>9, <2>1 DEF WriteOf
  <1>10. CASE SavePatched(p)
    <2>1. pc[p] = "savePatch" /\ org' = draft[p] /\ UNCHANGED <<row, op>>
      BY <1>10 DEF SavePatched
    <2>2. CASE op[p].plan = Null
      BY <1>3, <1>9, <2>1, <2>2 DEF ReadOf
    <2>3. CASE op[p].plan # Null
      <3>1. op'[p].kind = "patch" /\ op'[p].plan = org'.plan
        BY <1>3, <2>1, <2>3 DEF LocalOf
      <3> QED BY <3>1 DEF Patched
    <2> QED BY <2>2, <2>3
  <1>8. CASE /\ ~Save(p) /\ ~LoadOrg(p) /\ ~SaveOrg(p) /\ ~Write(p) /\ ~SavePatched(p)
    <2>1. UNCHANGED <<row, org>> /\ pc[p] \notin {"loadOrg", "saveOrg"}
      BY <1>1, <1>8, QuietStep DEF CreateCustomer, CreateAccount, CreateSession
    <2> QED BY <1>9, <2>1
  <1> QED BY <1>4, <1>5, <1>6, <1>7, <1>8, <1>10

LEMMA CallPaidPlan ==
    ASSUME Inv, SerialInv, PaidPlanInv, NEW p \in Calls, CallStep(p) PROVE PaidPlanInv'
  <1> SUFFICES ASSUME Faultless', ~Subscribed', row'.subscription # Null
               PROVE  Paid(row.subscription, row.plan)' \/ Changing(p)'
    BY DEF PaidPlanInv
  <1> USE DEF Inv, TypeOK, Goto, Set
  <1>1. /\ Faultless /\ ~Subscribed
        /\ \A s \in Calls, plan \in Plans \cup {Null} : Paid(s, plan) => Paid(s, plan)'
        /\ \A q \in Calls \ {p} : pc[q] \in {"idle"} \cup Ended
    BY FaultlessFrame
  <1>2. row.subscription # Null => Paid(row.subscription, row.plan) \/ Changing(p)
    BY <1>1 DEF PaidPlanInv, Changing, Ended
  <1>3. LocalOf(p) /\ ReadOf(p) /\ WriteOf(p)
    BY <1>1 DEF SerialInv, Faultless
  <1>4. row \in Rows /\ entity[p] \in Rows /\ op[p].kind # "subscribe"
    BY <1>1 DEF Subscribed
  <1>5. ASSUME row'.subscription = row.subscription, row'.plan = row.plan, ~Changing(p)
        PROVE  Paid(row.subscription, row.plan)'
    <2>1. Paid(row.subscription, row.plan)
      BY <1>2, <1>5
    <2>2. row.subscription \in Calls /\ row.plan \in Plans \cup {Null}
      BY <1>4, <1>5 DEF Rows
    <2> HIDE DEF Inv, TypeOK
    <2>3. session'[row.subscription].state = "complete" /\ session'[row.subscription].plan = row.plan
      BY <1>1, <2>1, <2>2 DEF Paid
    <2> QED BY <1>5, <2>3 DEF Paid
  <1>6. CASE Save(p)
    <2>1. CASE row.exists /\ ~entity[p].exists
      BY <1>5, <1>6, <2>1 DEF Save, Changing
    <2>2. CASE ~(row.exists /\ ~entity[p].exists)
      <3>1. /\ pc[p] = "save" /\ pc'[p] = "loadOrg" /\ UNCHANGED op
            /\ row' = [entity[p] EXCEPT !.exists = TRUE]
        BY <1>6, <2>2 DEF Save
      <3>2. row'.subscription = row.subscription
        BY <1>3, <1>4, <3>1 DEF ReadOf, Rows
      <3>3. op[p].kind \in {"activate", "downgrade"}
        BY <1>3, <1>4, <3>1, <3>2 DEF ReadOf, Applying
      <3> QED BY <3>1, <3>3 DEF Changing
    <2> QED BY <2>1, <2>2
  <1>7. ASSUME pc[p] \in {"loadOrg", "saveOrg"}, pc'[p] \in {"saveOrg", "write", "branch", "done"},
               op[p].kind \in {"activate", "downgrade"} => pc'[p] \in {"saveOrg", "write"},
               UNCHANGED <<row, op>>
        PROVE  Changing(p)'
    <2>1. op[p].kind \in {"activate", "downgrade"}
      BY <1>3, <1>4, <1>7 DEF ReadOf, Applying
    <2> QED BY <1>7, <2>1 DEF Changing
  <1>8. CASE LoadOrg(p)
    BY <1>7, <1>8 DEF LoadOrg
  <1>9. CASE SaveOrg(p)
    <2>1. /\ pc[p] = "saveOrg" /\ UNCHANGED <<row, op>>
          /\ pc'[p] \in {"write", "branch", "done"}
          /\ op[p].kind \in {"activate", "downgrade"} => pc'[p] = "write"
      BY <1>9 DEF SaveOrg
    <2> QED BY <1>7, <2>1
  <1>10. CASE Write(p)
    <2>1. pc[p] = "write" /\ row' = entity[p] /\ UNCHANGED <<op, session>>
      BY <1>10 DEF Write, stripe
    <2>2. CASE op[p].kind = "activate"
      <3>1. row'.subscription = op[p].about /\ row'.plan = op[p].plan
        BY <1>3, <2>1, <2>2 DEF WriteOf
      <3>2. Paid(op[p].about, op[p].plan)
        BY <1>3, <2>2 DEF LocalOf
      <3> QED BY <2>1, <3>1, <3>2 DEF Paid
    <2>3. CASE op[p].kind = "downgrade"
      BY <1>3, <2>1, <2>3 DEF WriteOf
    <2>4. CASE op[p].kind \notin {"activate", "downgrade"}
      BY <1>3, <1>5, <2>1, <2>4 DEF WriteOf, Changing
    <2> QED BY <2>2, <2>3, <2>4
  <1>11. CASE /\ ~Save(p) /\ ~LoadOrg(p) /\ ~SaveOrg(p) /\ ~Write(p)
    <2>1. row' = row /\ pc[p] \notin {"loadOrg", "saveOrg", "write"}
      BY <1>1, <1>11, QuietStep DEF SavePatched, CreateCustomer, CreateAccount, CreateSession
    <2> QED BY <1>5, <2>1 DEF Changing
  <1> QED BY <1>6, <1>8, <1>9, <1>10, <1>11

\* What StripeInv says of one call, when the others rest.
StripeOf(p) ==
    /\ customers \in {0, 1} /\ accounts \in {0, 1}
    /\ \A s \in Calls : session[s].state # "none" => session[s].customer = 1 /\ customers = 1
    /\ row.customer = customers \/ (pc[p] = "write" /\ op[p].kind = "checkout")
    /\ row.account = accounts \/ (pc[p] = "write" /\ op[p].kind = "onboard")
    /\ pc[p] = "newCustomer" => row.customer = 0
    /\ pc[p] = "session" \/ (pc[p] = "write" /\ op[p].kind = "checkout") => customers = 1
    /\ pc[p] = "account" => row.account = 0

LEMMA CallStripe ==
    ASSUME Inv, SerialInv, StripeInv, NEW p \in Calls, CallStep(p) PROVE StripeInv'
  <1> SUFFICES ASSUME Faultless' PROVE StripeInv'
    BY DEF StripeInv
  <1> USE DEF Inv, TypeOK, Goto, Set
  <1>1. /\ Faultless
        /\ \A q \in Calls \ {p} : pc[q] \in {"idle"} \cup Ended /\ pc'[q] \in {"idle"} \cup Ended
    BY FaultlessFrame
  <1>2. StripeOf(p)
    BY <1>1 DEF StripeInv, StripeOf, Ended
  <1>3. LocalOf(p) /\ ReadOf(p) /\ WriteOf(p) /\ KindOf(p)
    BY <1>1 DEF SerialInv, Faultless
  <1>4. row \in Rows /\ entity[p] \in Rows
    OBVIOUS
  <1>5. StripeOf(p)'
    <2>1. CASE Save(p)
      <3>1. CASE row.exists /\ ~entity[p].exists
        BY <1>2, <2>1, <3>1 DEF Save, StripeOf, stripe
      <3>2. CASE ~(row.exists /\ ~entity[p].exists)
        <4>1. /\ pc[p] = "save" /\ pc'[p] = "loadOrg" /\ UNCHANGED <<op, customers, accounts, session>>
              /\ row'.customer = row.customer /\ row'.account = row.account
          BY <1>3, <1>4, <2>1, <3>2 DEF Save, stripe, ReadOf, Rows
        <4> QED BY <1>2, <4>1 DEF StripeOf
      <3> QED BY <3>1, <3>2
    <2>2. CASE LoadOrg(p)
      BY <1>2, <2>2 DEF LoadOrg, StripeOf, stripe
    <2>3. CASE SaveOrg(p)
      <3>1. /\ pc[p] = "saveOrg" /\ UNCHANGED <<row, op, customers, accounts, session>>
            /\ pc'[p] \in {"write", "branch", "done"}
            /\ pc'[p] = "write" => op[p].kind \in {"activate", "downgrade"}
        BY <2>3 DEF SaveOrg, stripe
      <3> QED BY <1>2, <3>1 DEF StripeOf
    <2>4. CASE Write(p)
      <3>1. /\ pc[p] = "write" /\ row' = entity[p] /\ UNCHANGED <<op, customers, accounts, session>>
            /\ pc'[p] = IF op[p].kind = "checkout" THEN "session" ELSE "done"
        BY <2>4 DEF Write, stripe
      <3>2. row'.customer = customers
        <4>1. CASE op[p].kind = "activate"
          <5>1. session[op[p].about].state = "complete" /\ op[p].about \in Calls
            BY <1>3, <4>1 DEF LocalOf, Paid
          <5> QED BY <1>2, <1>3, <3>1, <4>1, <5>1 DEF StripeOf, WriteOf
        <4>2. CASE op[p].kind # "activate"
          BY <1>2, <1>3, <3>1, <4>2 DEF StripeOf, WriteOf
        <4> QED BY <4>1, <4>2
      <3>3. row'.account = accounts
        BY <1>2, <1>3, <3>1 DEF StripeOf, WriteOf
      <3> QED BY <1>2, <3>1, <3>2, <3>3 DEF StripeOf
    <2>5. CASE CreateCustomer(p)
      <3>1. /\ pc[p] = "newCustomer" /\ pc'[p] = "write" /\ UNCHANGED <<row, op, accounts, session>>
            /\ customers' = customers + 1 /\ op[p].kind = "checkout"
        BY <1>3, <2>5 DEF CreateCustomer, KindOf
      <3>2. customers = 0
        BY <1>2, <3>1 DEF StripeOf
      <3> QED BY <1>2, <3>1, <3>2 DEF StripeOf
    <2>6. CASE CreateAccount(p)
      <3>1. /\ pc[p] = "account" /\ pc'[p] = "write" /\ UNCHANGED <<row, op, customers, session>>
            /\ accounts' = accounts + 1 /\ op[p].kind = "onboard"
        BY <1>3, <2>6 DEF CreateAccount, KindOf
      <3>2. accounts = 0
        BY <1>2, <3>1 DEF StripeOf
      <3> QED BY <1>2, <3>1, <3>2 DEF StripeOf
    <2>7. CASE CreateSession(p)
      <3>1. /\ pc[p] = "session" /\ pc'[p] = "done" /\ UNCHANGED <<row, customers, accounts>>
            /\ \A s \in Calls \ {p} : session'[s] = session[s]
            /\ session'[p].customer = entity[p].customer /\ entity[p] = row
        BY <1>3, <2>7 DEF CreateSession, ReadOf
      <3> QED BY <1>2, <3>1 DEF StripeOf
    <2>8. CASE /\ UNCHANGED <<row, org, customers, accounts, session>>
               /\ pc[p] \notin {"loadOrg", "saveOrg", "write", "newCustomer", "account", "session"}
               /\ pc'[p] \notin {"loadOrg", "saveOrg"}
               /\ pc'[p] = "write" => op'[p].kind \notin {"activate", "downgrade", "checkout", "onboard"}
               /\ pc'[p] = "newCustomer" => row.customer = 0
               /\ pc'[p] = "session" => row.customer # 0
               /\ pc'[p] = "account" => row.account = 0
      BY <1>2, <2>8 DEF StripeOf
    <2>9. CASE SavePatched(p)
      <3>1. /\ pc[p] = "savePatch" /\ pc'[p] = "done" /\ UNCHANGED <<row, op, customers, accounts, session>>
        BY <2>9 DEF SavePatched, stripe
      <3> QED BY <1>2, <3>1 DEF StripeOf
    <2> QED BY <1>1, <2>1, <2>2, <2>3, <2>4, <2>5, <2>6, <2>7, <2>8, <2>9, QuietStep
  <1> QED BY <1>1, <1>5 DEF StripeInv, StripeOf, Ended

LEMMA OutsideSerial ==
    ASSUME Inv, StripeStep \/ Log \/ Tick \/ UNCHANGED vars
    PROVE  (SyncInv => SyncInv') /\ (PaidPlanInv => PaidPlanInv') /\ (StripeInv => StripeInv')
  <1>1. UNCHANGED <<row, org, customers, accounts, call, scenario>>
    BY OutsideFrame DEF Inv
  <1>2. \A s \in Calls :
           /\ session'[s].customer = session[s].customer
           /\ session'[s].plan = session[s].plan
           /\ session'[s].state # "none" => session[s].state # "none"
           /\ session[s].state = "complete" => session'[s] = session[s]
    BY OutsideFrame DEF Inv
  <1>3. UNCHANGED <<row, org, customers, accounts, op, pc, scenario>>
    BY <1>1 DEF call
  <1>4. row.subscription \in Calls \cup {Null}
    BY DEF Inv, TypeOK, Rows
  <1>5. SyncInv => SyncInv'
    BY <1>3 DEF SyncInv, Faultless, OneByOne, Patched
  <1>6. PaidPlanInv => PaidPlanInv'
    BY <1>2, <1>3, <1>4 DEF PaidPlanInv, Faultless, OneByOne, Paid, Changing, Subscribed
  <1>7. StripeInv => StripeInv'
    BY <1>2, <1>3 DEF StripeInv, Faultless, OneByOne
  <1> QED BY <1>5, <1>6, <1>7

LEMMA InitFaultless == Init => SyncInv /\ PaidPlanInv /\ StripeInv
  <1> SUFFICES ASSUME Init PROVE SyncInv /\ PaidPlanInv /\ StripeInv
    OBVIOUS
  <1>1. scenario.onboarded \in BOOLEAN
    BY DEF Init, ScenarioSet
  <1>2. row.subscription = Null /\ row.customer = 0 /\ row.account \in {0, 1}
        /\ (row.exists => row.plan = Free)
    BY <1>1 DEF Init, NoRow
  <1> QED BY <1>2 DEF Init, SyncInv, PaidPlanInv, StripeInv, NoSession

\* The gateway's plan is the billed plan whenever no call is under way, or one its
\* OWNER has asked for, if calls come one by one and none dies.
THEOREM PlansInSync == Spec => []PlanSync
  <1>1. Inv /\ SerialInv /\ SyncInv /\ [Next]_vars => SyncInv'
    BY CallSync, OutsideSerial DEF Next, Finished
  <1>2. SyncInv => PlanSync
    BY DEF SyncInv, PlanSync, AllOver, Busy, Ended
  <1> QED BY <1>1, <1>2, InitFaultless, InitInv, StepInv, InitSerialInv, StepSerialInv, PTL DEF Spec

\* The Stripe subscription on the row is then for the plan on the row.
THEOREM PaidPlanOnRow == Spec => []SubscriptionMatchesPlan
  <1>1. Inv /\ SerialInv /\ PaidPlanInv /\ [Next]_vars => PaidPlanInv'
    BY CallPaidPlan, OutsideSerial DEF Next, Finished
  <1>2. PaidPlanInv => SubscriptionMatchesPlan
    BY DEF PaidPlanInv, SubscriptionMatchesPlan, AllOver, Busy, Ended, Changing, Paid
  <1> QED BY <1>1, <1>2, InitFaultless, InitInv, StepInv, InitSerialInv, StepSerialInv, PTL DEF Spec

\* No second Stripe customer and no second Connect account is then made.
THEOREM OneIdentity == Spec => []OneStripeIdentity
  <1>1. Inv /\ SerialInv /\ StripeInv /\ [Next]_vars => StripeInv'
    BY CallStripe, OutsideSerial DEF Next, Finished
  <1>2. StripeInv => OneStripeIdentity
    BY DEF StripeInv, OneStripeIdentity
  <1> QED BY <1>1, <1>2, InitFaultless, InitInv, StepInv, InitSerialInv, StepSerialInv, PTL DEF Spec

=============================================================================
