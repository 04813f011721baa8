---------------------------- MODULE OutboxProofs ----------------------------
(***************************************************************************)
(* What follows from the promise of the queues alone.                      *)
(***************************************************************************)
EXTENDS Outbox, TLAPS

Inv == TypeOK /\ ReportedIsExhausted

LEMMA InitInv == Init => Inv
  BY DEF Init, Inv, TypeOK, ReportedIsExhausted

LEMMA StepInv == Inv /\ [Next]_vars => Inv'
  <1> SUFFICES ASSUME Inv, [Next]_vars PROVE Inv'
    OBVIOUS
  <1> USE DEF Inv, TypeOK, ReportedIsExhausted
  <1>1. ASSUME NEW i \in Items, Enqueue(i) PROVE Inv'
    BY <1>1 DEF Enqueue
  <1>2. ASSUME NEW i \in Items, Resolve(i) PROVE Inv'
    <2>1. PICK outcome \in Outcomes : phase' = [phase EXCEPT ![i] = outcome]
      BY <1>2 DEF Resolve
    <2> QED BY <1>2, <2>1 DEF Resolve
  <1>3. ASSUME NEW i \in Items, Report(i) PROVE Inv'
    BY <1>3 DEF Report
  <1>4. CASE UNCHANGED vars
    BY <1>4 DEF vars
  <1> QED BY <1>1, <1>2, <1>3, <1>4 DEF Next

\* Only an item that was given up is reported, once (the onFailed listener of
\* webhooks.processor.ts, seen by the organization).
THEOREM Reported == Steps => [](TypeOK /\ ReportedIsExhausted)
  <1>1. Inv => TypeOK /\ ReportedIsExhausted
    BY DEF Inv
  <1> QED BY InitInv, StepInv, <1>1, PTL DEF Steps

\* An item that was delivered, dropped or given up stays so.
THEOREM Final == Steps => OutcomeIsFinal
  <1>1. Inv /\ [Next]_vars => [\A i \in Items : phase[i] \in Outcomes => phase'[i] = phase[i]]_vars
    <2> SUFFICES ASSUME Inv, Next, NEW i \in Items, phase[i] \in Outcomes PROVE phase'[i] = phase[i]
      OBVIOUS
    <2>1. \A j \in Items : Enqueue(j) => phase'[i] = phase[i]
      BY DEF Enqueue, Inv, TypeOK, Outcomes
    <2>2. \A j \in Items : Resolve(j) => phase'[i] = phase[i]
      BY DEF Resolve, Inv, TypeOK, Outcomes
    <2>3. \A j \in Items : Report(j) => phase'[i] = phase[i]
      BY DEF Report
    <2> QED BY <2>1, <2>2, <2>3 DEF Next
  <1> QED BY InitInv, StepInv, <1>1, PTL DEF Steps, OutcomeIsFinal
=============================================================================
