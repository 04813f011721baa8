------------------------------- MODULE Outbox -------------------------------
(***************************************************************************)
(* What the queues promise their producers: an item that is enqueued is    *)
(* delivered, or dropped because nobody wants it any more, or given up     *)
(* after its last attempt, or abandoned by a queue whose workers vanished  *)
(* over it; it ends in one way only and stays so, and that a watched item  *)
(* was given up after its last attempt is reported, once.  WebhookDelivery *)
(* and Notifications implement it, each with its own rows and retries.     *)
(***************************************************************************)
EXTENDS Integers

CONSTANTS Items,      \* what may be enqueued
          Watched     \* the items whose giving up is reported

VARIABLES phase,      \* where each item is
          reports     \* how often it was reported as given up

vars == <<phase, reports>>

Outcomes == {"delivered", "dropped", "exhausted", "abandoned"}

Init ==
    /\ phase = [i \in Items |-> "none"]
    /\ reports = [i \in Items |-> 0]

Enqueue(i) ==
    /\ phase[i] = "none"
    /\ phase' = [phase EXCEPT ![i] = "open"]
    /\ UNCHANGED reports

Resolve(i) ==
    /\ phase[i] = "open"
    /\ \E outcome \in Outcomes : phase' = [phase EXCEPT ![i] = outcome]
    /\ UNCHANGED reports

Report(i) ==
    /\ i \in Watched /\ phase[i] = "exhausted" /\ reports[i] = 0
    /\ reports' = [reports EXCEPT ![i] = 1]
    /\ UNCHANGED phase

Next == \E i \in Items : Enqueue(i) \/ Resolve(i) \/ Report(i)

\* What is owed: every item enqueued ends, every watched one given up is reported.
Owed ==
    /\ \A i \in Items : phase[i] = "open" ~> phase[i] \in Outcomes
    /\ \A i \in Watched : phase[i] = "exhausted" ~> reports[i] = 1

Steps == Init /\ [][Next]_vars

Spec == Steps /\ Owed

-----------------------------------------------------------------------------
(* What follows for the producers.                                         *)

\* The items and their reports.
TypeOK ==
    /\ phase \in [Items -> {"none", "open"} \cup Outcomes]
    /\ reports \in [Items -> 0 .. 1]

\* Only an item whose attempts are used up is reported, and a report is never followed
\* by a delivery.
ReportedIsExhausted == \A i \in Items : reports[i] # 0 => phase[i] = "exhausted"

\* An outcome is final.
OutcomeIsFinal == [][\A i \in Items : phase[i] \in Outcomes => phase'[i] = phase[i]]_vars
=============================================================================
