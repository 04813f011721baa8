--------------------------- MODULE Notifications ---------------------------
(***************************************************************************)
(* Notifications (notifications/notifications.service.ts): a call of       *)
(* notify() saves one row per channel and enqueues a job for it, and       *)
(* workers dispatch the jobs (notifications/notifications.processor.ts).   *)
(*                                                                         *)
(* A step is what happens between two awaits.  BullMQ is external, as in   *)
(* WebhookDelivery; the senders are simulated and cannot fail, so that a   *)
(* run of process() is only disturbed by the faults below.                 *)
(***************************************************************************)
EXTENDS Integers, FiniteSets

CONSTANTS
    Notices,           \* calls of notify()
    Slots,             \* the entries of input.channels; two may name one channel
    Workers,           \* one per app instance
    None,
    MaxAttempts,       \* attempts of a job
    MaxStalls,         \* BullMQ's maxStalledCount, which @Processor leaves at 1
    Faults,            \* the kinds of fault that may happen
    MaxFaults          \* bound: how many

Messages == Notices \X Slots
FaultKinds == {"producer",   \* notify() throws or dies between two awaits
               "worker",     \* the worker's instance dies and its job stalls
               "database"}   \* an await in process() throws

ASSUME AttemptsAssumption == MaxAttempts \in Nat \ {0} /\ {MaxStalls, MaxFaults} \subseteq Nat
ASSUME FaultsAssumption == Faults \subseteq FaultKinds /\ None \notin Slots \cup Workers

VARIABLES
    task,            \* where each call of notify() is
    channels,        \* the entries it was called with
    saved,           \* the entry whose row is saved and not yet enqueued
    row,             \* the status of each notifications row
    job,             \* the state of its BullMQ job
    attemptsMade,    \* how often that job has failed
    stalls,          \* how often its worker died
    holder,          \* the worker whose lock it is under
    pc,              \* where each worker is in process()
    entity,          \* the status of the row as it has loaded and changed it
    sent,            \* history: how often each message was sent
    faults           \* faults so far

producer == <<task, channels, saved>>
queue    == <<job, attemptsMade, stalls, holder>>
run      == <<pc, entity>>
vars     == <<producer, row, queue, run, sent, faults>>

Init ==
    /\ task = [n \in Notices |-> "idle"]
    /\ channels = [n \in Notices |-> {}]
    /\ saved = [n \in Notices |-> None]
    /\ row = [m \in Messages |-> "none"]
    /\ job = [m \in Messages |-> "none"]
    /\ attemptsMade = [m \in Messages |-> 0]
    /\ stalls = [m \in Messages |-> 0]
    /\ holder = [m \in Messages |-> None]
    /\ pc = [x \in Workers |-> "idle"]
    /\ entity = [x \in Workers |-> "none"]
    /\ sent = [m \in Messages |-> 0]
    /\ faults = 0

Fault(kind) == /\ kind \in Faults /\ faults < MaxFaults
               /\ faults' = faults + 1

-----------------------------------------------------------------------------
(* notify(), called by the listener and by POST .../notifications/test.    *)

Notify(n, slots) ==
    /\ task[n] = "idle" /\ slots # {}
    /\ task' = [task EXCEPT ![n] = "loop"]
    /\ channels' = [channels EXCEPT ![n] = slots]
    /\ UNCHANGED <<saved, row, queue, run, sent, faults>>

SaveRow(n, c) ==
    /\ task[n] = "loop"
    /\ c \in channels[n] /\ row[<<n, c>>] = "none"
    /\ task' = [task EXCEPT ![n] = "enqueue"]
    /\ saved' = [saved EXCEPT ![n] = c]
    /\ row' = [row EXCEPT ![<<n, c>>] = "pending"]
    /\ UNCHANGED <<channels, queue, run, sent, faults>>

\* Slip: the loop ends with the first channel.
AddJobReturn(n) ==
    /\ task[n] = "enqueue"
    /\ task' = [task EXCEPT ![n] = "done"]
    /\ saved' = [saved EXCEPT ![n] = None]
    /\ job' = [job EXCEPT ![<<n, saved[n]>>] = "waiting"]
    /\ UNCHANGED <<channels, row, attemptsMade, stalls, holder, run, sent, faults>>

\* queue.add
AddJob(n) ==
    /\ task[n] = "enqueue"
    /\ task' = [task EXCEPT ![n] = "loop"]
    /\ saved' = [saved EXCEPT ![n] = None]
    /\ job' = [job EXCEPT ![<<n, saved[n]>>] = "waiting"]
    /\ UNCHANGED <<channels, row, attemptsMade, stalls, holder, run, sent, faults>>

Return(n) ==
    /\ task[n] = "loop"
    /\ \A c \in channels[n] : row[<<n, c>>] # "none"
    /\ task' = [task EXCEPT ![n] = "done"]
    /\ UNCHANGED <<channels, saved, row, queue, run, sent, faults>>

ProducerFault(n) ==
    /\ Fault("producer")
    /\ task[n] \in {"loop", "enqueue"}
    /\ task' = [task EXCEPT ![n] = "lost"]
    /\ saved' = [saved EXCEPT ![n] = None]
    /\ UNCHANGED <<channels, row, queue, run, sent>>

-----------------------------------------------------------------------------
(* process() of worker x, which holds the job of m.                        *)

Holds(x, m) == holder[m] = x

TakeJob(x, m) ==
    /\ pc[x] = "idle" /\ job[m] = "waiting"
    /\ pc' = [pc EXCEPT ![x] = "load"]
    /\ job' = [job EXCEPT ![m] = "active"]
    /\ holder' = [holder EXCEPT ![m] = x]
    /\ UNCHANGED <<producer, row, attemptsMade, stalls, entity, sent, faults>>

Goto(x, step) == pc' = [pc EXCEPT ![x] = step]
Set(x, status) == entity' = [entity EXCEPT ![x] = status]

\* Slip: it is not asked whether the message was sent.
LoadAny(x, m) ==
    /\ Holds(x, m) /\ pc[x] = "load"
    /\ Goto(x, "dispatch")
    /\ Set(x, row[m])
    /\ UNCHANGED <<producer, row, queue, sent, faults>>

\* findOne: nothing is left to do for a message that was sent.
Load(x, m) ==
    /\ Holds(x, m) /\ pc[x] = "load"
    /\ Goto(x, IF row[m] = "sent" THEN "complete" ELSE "dispatch")
    /\ Set(x, row[m])
    /\ UNCHANGED <<producer, row, queue, sent, faults>>

\* dispatcher.dispatch
Dispatch(x, m) ==
    /\ Holds(x, m) /\ pc[x] = "dispatch"
    /\ Goto(x, "save")
    /\ Set(x, "sent")
    /\ sent' = [sent EXCEPT ![m] = @ + 1]
    /\ UNCHANGED <<producer, row, queue, faults>>

\* The save of SENT, or of FAILED in the catch block, which throws again.
Save(x, m) ==
    /\ Holds(x, m) /\ pc[x] \in {"save", "catch"}
    /\ Goto(x, IF pc[x] = "save" THEN "complete" ELSE "fail")
    /\ row' = [row EXCEPT ![m] = entity[x]]
    /\ UNCHANGED <<producer, queue, entity, sent, faults>>

\* Slip: the save is lost with the error it throws, and so is the error.
DatabaseFaultSwallow(x, m) ==
    /\ Fault("database")
    /\ Holds(x, m) /\ pc[x] \in {"load", "save", "catch"}
    /\ Goto(x, IF pc[x] = "load" THEN "fail" ELSE "complete")
    /\ UNCHANGED <<producer, row, queue, entity, sent>>

\* The finder throws, or a save, whose update may have been committed; an
\* error of the first save enters the catch block.
DatabaseFault(x, m) ==
    /\ Fault("database")
    /\ Holds(x, m) /\ pc[x] \in {"load", "save", "catch"}
    /\ Goto(x, IF pc[x] = "save" THEN "catch" ELSE "fail")
    /\ IF pc[x] = "save" THEN Set(x, "failed") ELSE UNCHANGED entity
    /\ row' = row \/ (pc[x] # "load" /\ row' = [row EXCEPT ![m] = entity[x]])
    /\ UNCHANGED <<producer, queue, sent>>

\* The worker is done with the job, which goes to another state.
Release(x, m, state) ==
    /\ Goto(x, "idle")
    /\ Set(x, "none")
    /\ job' = [job EXCEPT ![m] = state]
    /\ holder' = [holder EXCEPT ![m] = None]

Complete(x, m) ==
    /\ Holds(x, m) /\ pc[x] = "complete"
    /\ Release(x, m, "completed")
    /\ UNCHANGED <<producer, row, attemptsMade, stalls, sent, faults>>

\* Slip: a failed job is not retried.
FailAtOnce(x, m) ==
    /\ Holds(x, m) /\ pc[x] = "fail"
    /\ attemptsMade' = [attemptsMade EXCEPT ![m] = @ + 1]
    /\ Release(x, m, "failed")
    /\ UNCHANGED <<producer, row, stalls, sent, faults>>

\* Slip: one retry too many.
FailOneMore(x, m) ==
    /\ Holds(x, m) /\ pc[x] = "fail"
    /\ attemptsMade' = [attemptsMade EXCEPT ![m] = @ + 1]
    /\ Release(x, m, IF attemptsMade[m] < MaxAttempts THEN "delayed" ELSE "failed")
    /\ UNCHANGED <<producer, row, stalls, sent, faults>>

\* process() threw: it is retried after a backoff while attempts remain.
Fail(x, m) ==
    /\ Holds(x, m) /\ pc[x] = "fail"
    /\ attemptsMade' = [attemptsMade EXCEPT ![m] = @ + 1]
    /\ Release(x, m, IF attemptsMade[m] + 1 < MaxAttempts THEN "delayed" ELSE "failed")
    /\ UNCHANGED <<producer, row, stalls, sent, faults>>

\* The backoff is over.
Promote(m) ==
    /\ job[m] = "delayed"
    /\ job' = [job EXCEPT ![m] = "waiting"]
    /\ UNCHANGED <<producer, row, attemptsMade, stalls, holder, run, sent, faults>>

\* The instance dies; the stalled job is given back, or fails for good when
\* it has stalled too often, which BullMQ counts as an attempt or not.
WorkerDeath(x, m) ==
    /\ Fault("worker")
    /\ Holds(x, m)
    /\ stalls' = [stalls EXCEPT ![m] = @ + 1]
    /\ IF stalls[m] < MaxStalls
       THEN Release(x, m, "waiting") /\ UNCHANGED attemptsMade
       ELSE /\ Release(x, m, "failed")
            /\ \E made \in {attemptsMade[m], attemptsMade[m] + 1} :
                  attemptsMade' = [attemptsMade EXCEPT ![m] = made]
    /\ UNCHANGED <<producer, row, sent>>

-----------------------------------------------------------------------------
ProducerStep(n) == AddJob(n) \/ Return(n) \/ \E c \in Slots : SaveRow(n, c)

Process(x, m) == \/ Load(x, m) \/ Dispatch(x, m) \/ Save(x, m)
                 \/ Complete(x, m) \/ Fail(x, m)

WorkerStep(x) == \E m \in Messages : Process(x, m)
JobStep(m) == Promote(m) \/ \E x \in Workers : TakeJob(x, m)

FaultStep ==
    \/ \E n \in Notices : ProducerFault(n)
    \/ \E x \in Workers, m \in Messages : DatabaseFault(x, m) \/ WorkerDeath(x, m)

\* Nothing is left to do.
Quiescent ==
    /\ \A n \in Notices : task[n] \in {"done", "lost"}
    /\ \A m \in Messages : job[m] \in {"none", "completed", "failed"}
    /\ UNCHANGED vars

Next ==
    \/ \E n \in Notices : ProducerStep(n) \/ \E slots \in SUBSET Slots : Notify(n, slots)
    \/ \E x \in Workers : WorkerStep(x)
    \/ \E m \in Messages : JobStep(m)
    \/ FaultStep
    \/ Quiescent

Spec == Init /\ [][Next]_vars

\* Promises settle, and BullMQ promotes and hands out jobs.
FairSpec == /\ Spec
            /\ \A n \in Notices : WF_vars(ProducerStep(n))
            /\ \A x \in Workers : WF_vars(WorkerStep(x))
            /\ \A m \in Messages : WF_vars(JobStep(m))

-----------------------------------------------------------------------------
(* Properties.                                                             *)

Statuses == {"pending", "sent", "failed"}

\* The shapes of the calls, rows, jobs and runs.
TypeOK ==
    /\ task \in [Notices -> {"idle", "loop", "enqueue", "done", "lost"}]
    /\ channels \in [Notices -> SUBSET Slots]
    /\ saved \in [Notices -> Slots \cup {None}]
    /\ row \in [Messages -> Statuses \cup {"none"}]
    /\ job \in [Messages -> {"none", "waiting", "active", "delayed", "completed", "failed"}]
    /\ attemptsMade \in [Messages -> 0 .. MaxAttempts]
    /\ stalls \in [Messages -> Nat]
    /\ holder \in [Messages -> Workers \cup {None}]
    /\ pc \in [Workers -> {"idle", "load", "dispatch", "save", "catch", "complete", "fail"}]
    /\ entity \in [Workers -> Statuses \cup {"none"}]
    /\ sent \in [Messages -> Nat]
    /\ faults \in 0 .. MaxFaults

\* A call that returned has a row and a job for every channel it was asked
\* for, and nobody has any other (notifications.service.ts:29-33).
FanOutComplete ==
    \A n \in Notices, c \in Slots :
        /\ (task[n] = "done" /\ c \in channels[n]) => job[<<n, c>>] # "none"
        /\ job[<<n, c>>] # "none" => row[<<n, c>>] # "none" /\ c \in channels[n]

\* What the row shows as SENT is not sent again (notifications.processor.ts:32).
SentIsFinal == [][\A m \in Messages : row[m] = "sent" => sent'[m] = sent[m]]_vars

\* The messages that were given up: their workers died once more than BullMQ
\* allows, or each of their attempts failed.
StalledOut == {m \in Messages : job[m] = "failed" /\ stalls[m] > MaxStalls}
UsedUp     == {m \in Messages : job[m] = "failed" /\ stalls[m] <= MaxStalls}

\* A message is given up only after a fault of its own in each of its attempts,
\* or in each worker of those BullMQ lets it have: its transient failures are
\* retried (notifications.processor.ts:12-14).
GivenUpLast ==
    MaxAttempts * Cardinality(UsedUp) + (MaxStalls + 1) * Cardinality(StalledOut) <= faults

\* A message is one item of the outbox, enqueued with its job and delivered
\* when that completes, if it was sent and its row says so; nobody is told of
\* one that is given up or abandoned.
Phase(m) ==
    CASE job[m] = "none" -> "none"
      [] job[m] = "completed" -> IF row[m] = "sent" /\ sent[m] > 0 THEN "delivered" ELSE "forgotten"
      [] job[m] = "failed" -> (CASE attemptsMade[m] = MaxAttempts -> "exhausted"
                                 [] m \in StalledOut /\ attemptsMade[m] < MaxAttempts -> "abandoned"
                                 [] OTHER -> "forgotten")
      [] OTHER -> "open"

Queue == INSTANCE Outbox WITH Items <- Messages, Watched <- {},
                              phase <- [m \in Messages |-> Phase(m)],
                              reports <- [m \in Messages |-> 0]

\* Every message that was enqueued is sent and shown as SENT, or given up when
\* its attempts or its workers are used up, once and for all, whatever becomes
\* of the other channels
\* (notifications.processor.ts:12-14, 34-45).
ImplementsOutbox == Queue!Spec
=============================================================================
