-------------------------- MODULE WebhookDelivery --------------------------
(***************************************************************************)
(* Outgoing webhooks: an event is recorded and fanned out to the           *)
(* organization's webhooks (webhooks/webhooks.service.ts), each delivery   *)
(* is a row and a BullMQ job, and workers POST it with retries until it is *)
(* delivered or dead (webhooks/webhooks.processor.ts).                     *)
(*                                                                         *)
(* A step is what happens between two awaits.  The queue is external: a    *)
(* job is taken by one worker, retried while attempts remain, and given to *)
(* another worker when the one that held it died or lost its lock, unless  *)
(* that has happened to it too often.                                      *)
(***************************************************************************)
EXTENDS Integers, FiniteSets

CONSTANTS
    Webhooks,          \* webhook endpoints
    HookOrg, HookTypes,    \* their organization and the event types they want
    Events,            \* calls of dispatchEvent and testWebhook
    EventOrg, EventType,   \* their organization and event type
    TestTarget,        \* the webhook a testWebhook call names, None for dispatchEvent
    AllTypes,          \* the type '*'
    None,
    Workers,           \* one per app instance
    MaxAttempts,       \* DELIVERY_JOB_OPTS.attempts
    MaxStalls,         \* BullMQ's maxStalledCount, which @Processor leaves at 1
    Faults,            \* the kinds of fault that may happen
    MaxFaults          \* bound: how many

Deliveries == Events \X Webhooks
FaultKinds == {"producer",   \* dispatchEvent throws or dies between two awaits
               "worker",     \* the worker's instance dies and its job stalls
               "lock",       \* the worker goes on, but its job counts as stalled
               "database",   \* an await in process() throws
               "handler"}    \* onFailed throws or dies between two awaits

ASSUME AttemptsAssumption == MaxAttempts \in Nat \ {0} /\ {MaxStalls, MaxFaults} \subseteq Nat
ASSUME FaultsAssumption == Faults \subseteq FaultKinds
ASSUME TargetAssumption == /\ TestTarget \in [Events -> Webhooks \cup {None}]
                           /\ None \notin Webhooks \cup Workers

VARIABLES
    hooks,       \* whether each webhook's row exists yet, or was removed
    task,        \* where each call is in dispatchEvent() or testWebhook()
    matching,    \* the webhooks it found
    saved,       \* the webhook whose delivery is saved and not yet enqueued
    row,         \* the webhook_deliveries rows
    job,         \* the state of each delivery's BullMQ job
    attemptsMade,    \* how often that job has failed
    stalls,      \* how often its lock ran out
    holder,      \* the worker whose lock it is under
    pc,          \* where each worker is in process()
    current,     \* the delivery of the job it processes
    entity,      \* the row as it has loaded and changed it
    handler,     \* where onFailed is for each dead job
    posts,       \* history: POSTs made for each delivery
    acked,       \* history: the deliveries answered 2xx
    notified,    \* WEBHOOK_FAILED_EVENTs emitted for each delivery
    faults       \* faults so far

producer == <<hooks, task, matching, saved>>
queue    == <<job, attemptsMade, stalls, holder>>
run      == <<pc, current, entity>>
history  == <<posts, acked, notified>>
vars == <<producer, row, queue, run, handler, history, faults>>

NoRow  == [status |-> "none", attempts |-> 0, response |-> "null"]
NewRow == [status |-> "pending", attempts |-> 0, response |-> "null"]

Open     == {"pending", "failed"}
Terminal == {"success", "dead"}

Init ==
    /\ hooks = [w \in Webhooks |-> "new"]
    /\ task = [e \in Events |-> "idle"]
    /\ matching = [e \in Events |-> {}]
    /\ saved = [e \in Events |-> None]
    /\ row = [d \in Deliveries |-> NoRow]
    /\ job = [d \in Deliveries |-> "none"]
    /\ attemptsMade = [d \in Deliveries |-> 0]
    /\ stalls = [d \in Deliveries |-> 0]
    /\ holder = [d \in Deliveries |-> None]
    /\ pc = [x \in Workers |-> "idle"]
    /\ current = [x \in Workers |-> None]
    /\ entity = [x \in Workers |-> NoRow]
    /\ handler = [d \in Deliveries |-> "none"]
    /\ posts = [d \in Deliveries |-> 0]
    /\ acked = {}
    /\ notified = [d \in Deliveries |-> 0]
    /\ faults = 0

\* One more fault, of a kind that may happen.
Fault(kind) == kind \in Faults /\ faults < MaxFaults /\ faults' = faults + 1

-----------------------------------------------------------------------------
(* Management: create() and remove().                                      *)

CreateWebhook(w) ==
    /\ hooks[w] = "new"
    /\ hooks' = [hooks EXCEPT ![w] = "active"]
    /\ UNCHANGED <<task, matching, saved, row, queue, run, handler, history, faults>>

RemoveWebhook(w) ==
    /\ hooks[w] = "active"
    /\ hooks' = [hooks EXCEPT ![w] = "removed"]
    /\ UNCHANGED <<task, matching, saved, row, queue, run, handler, history, faults>>

-----------------------------------------------------------------------------
(* Eventing: dispatchEvent(), testWebhook(), createDeliveryAndEnqueue().   *)

\* Slip: the search is not restricted to the organization.
MatchesAnyOrg(e, w) == {AllTypes, EventType[e]} \cap HookTypes[w] # {}

Matches(e, w) == /\ HookOrg[w] = EventOrg[e]
                 /\ {AllTypes, EventType[e]} \cap HookTypes[w] # {}

\* dispatchEvent records the event ...
RecordEvent(e) ==
    /\ task[e] = "idle" /\ TestTarget[e] = None
    /\ task' = [task EXCEPT ![e] = "recorded"]
    /\ UNCHANGED <<hooks, matching, saved, row, queue, run, handler, history, faults>>

\* ... and reads the webhooks to deliver it to.
FindWebhooks(e) ==
    /\ task[e] = "recorded"
    /\ task' = [task EXCEPT ![e] = "fanout"]
    /\ matching' = [matching EXCEPT ![e] =
                       {w \in Webhooks : hooks[w] = "active" /\ Matches(e, w)}]
    /\ UNCHANGED <<hooks, saved, row, queue, run, handler, history, faults>>

\* testWebhook has one webhook to deliver to, if the caller's organization has it.
TestWebhook(e) ==
    /\ task[e] = "idle" /\ TestTarget[e] # None
    /\ LET w == TestTarget[e]
           found == hooks[w] = "active" /\ HookOrg[w] = EventOrg[e]
       IN  /\ task' = [task EXCEPT ![e] = IF found THEN "fanout" ELSE "failed"]
           /\ matching' = [matching EXCEPT ![e] = IF found THEN {w} ELSE {}]
    /\ UNCHANGED <<hooks, saved, row, queue, run, handler, history, faults>>

\* The webhooks the loop has still to visit.
Unvisited(e) == {w \in matching[e] : row[<<e, w>>].status = "none"}

SaveDelivery(e, w) ==
    /\ task[e] = "fanout" /\ w \in Unvisited(e)
    /\ task' = [task EXCEPT ![e] = "enqueue"]
    /\ saved' = [saved EXCEPT ![e] = w]
    /\ row' = [row EXCEPT ![<<e, w>>] = NewRow]
    /\ UNCHANGED <<hooks, matching, queue, run, handler, history, faults>>

\* queue.add
AddJob(e) ==
    /\ task[e] = "enqueue"
    /\ task' = [task EXCEPT ![e] = "fanout"]
    /\ saved' = [saved EXCEPT ![e] = None]
    /\ job' = [job EXCEPT ![<<e, saved[e]>>] = "waiting"]
    /\ UNCHANGED <<hooks, matching, row, attemptsMade, stalls, holder, run, handler, history, faults>>

FinishDispatch(e) ==
    /\ task[e] = "fanout" /\ Unvisited(e) = {}
    /\ task' = [task EXCEPT ![e] = "done"]
    /\ UNCHANGED <<hooks, matching, saved, row, queue, run, handler, history, faults>>

\* The call throws, or its instance dies; nothing resumes it.
ProducerFault(e) ==
    /\ Fault("producer")
    /\ task[e] \in {"recorded", "fanout", "enqueue"}
    /\ task' = [task EXCEPT ![e] = "failed"]
    /\ saved' = [saved EXCEPT ![e] = None]
    /\ UNCHANGED <<hooks, matching, row, queue, run, handler, history>>

-----------------------------------------------------------------------------
(* The worker: process().                                                  *)

Goto(x, step) == pc' = [pc EXCEPT ![x] = step]

\* BullMQ hands a waiting job to an idle worker.
TakeJob(x, d) ==
    /\ pc[x] = "idle" /\ job[d] = "waiting"
    /\ Goto(x, "load")
    /\ current' = [current EXCEPT ![x] = d]
    /\ job' = [job EXCEPT ![d] = "active"]
    /\ holder' = [holder EXCEPT ![d] = x]
    /\ UNCHANGED <<producer, row, attemptsMade, stalls, entity, handler, history, faults>>

\* Slip: a delivery that was delivered is processed again.
LoadDeliveryTwice(x) ==
    /\ pc[x] = "load"
    /\ LET loaded == row[current[x]]
       IN  /\ entity' = [entity EXCEPT ![x] = loaded]
           /\ Goto(x, IF loaded.status = "none" THEN "complete" ELSE "lookup")
    /\ UNCHANGED <<producer, row, queue, current, handler, history, faults>>

\* findOne of the delivery; one that is gone or delivered ends the job.
LoadDelivery(x) ==
    /\ pc[x] = "load"
    /\ LET loaded == row[current[x]]
       IN  /\ entity' = [entity EXCEPT ![x] = loaded]
           /\ Goto(x, IF loaded.status \in {"none", "success"} THEN "complete" ELSE "lookup")
    /\ UNCHANGED <<producer, row, queue, current, handler, history, faults>>

\* findOne of the webhook: without it the delivery is dead, else it has one
\* more attempt.  Events are never deleted.
LoadWebhook(x) ==
    /\ pc[x] = "lookup"
    /\ IF hooks[current[x][2]] = "active"
       THEN /\ Goto(x, "post")
            /\ entity' = [entity EXCEPT ![x].attempts = @ + 1]
       ELSE /\ Goto(x, "save")
            /\ entity' = [entity EXCEPT ![x].status = "dead"]
    /\ UNCHANGED <<producer, row, queue, current, handler, history, faults>>

\* Slip: any answer counts as delivered.
PostAnsweredUnchecked(x, ok) ==
    /\ pc[x] = "post"
    /\ Goto(x, "save")
    /\ entity' = [entity EXCEPT ![x].response = IF ok THEN "2xx" ELSE "error",
                                ![x].status = "success"]
    /\ posts' = [posts EXCEPT ![current[x]] = @ + 1]
    /\ acked' = IF ok THEN acked \cup {current[x]} ELSE acked
    /\ UNCHANGED <<producer, row, queue, current, handler, notified, faults>>

\* Slip: an error answer is taken for final.
PostAnsweredFatal(x, ok) ==
    /\ pc[x] = "post"
    /\ Goto(x, "save")
    /\ entity' = [entity EXCEPT ![x].response = IF ok THEN "2xx" ELSE "error",
                                ![x].status = IF ok THEN "success" ELSE "dead"]
    /\ posts' = [posts EXCEPT ![current[x]] = @ + 1]
    /\ acked' = IF ok THEN acked \cup {current[x]} ELSE acked
    /\ UNCHANGED <<producer, row, queue, current, handler, notified, faults>>

\* fetch: a response sets responseStatus and the status to save.
PostAnswered(x, ok) ==
    /\ pc[x] = "post"
    /\ Goto(x, "save")
    /\ entity' = [entity EXCEPT ![x].response = IF ok THEN "2xx" ELSE "error",
                                ![x].status = IF ok THEN "success" ELSE "failed"]
    /\ posts' = [posts EXCEPT ![current[x]] = @ + 1]
    /\ acked' = IF ok THEN acked \cup {current[x]} ELSE acked
    /\ UNCHANGED <<producer, row, queue, current, handler, notified, faults>>

\* fetch throws or times out: the catch block saves FAILED only if the entity
\* has no responseStatus, be it from this attempt or an earlier one.
PostLost(x) ==
    /\ pc[x] = "post"
    /\ IF entity[x].response = "null"
       THEN /\ Goto(x, "save")
            /\ entity' = [entity EXCEPT ![x].status = "failed"]
       ELSE /\ Goto(x, "fail")
            /\ UNCHANGED entity
    /\ posts' = [posts EXCEPT ![current[x]] = @ + 1]
    /\ UNCHANGED <<producer, row, queue, current, handler, acked, notified, faults>>

\* Slip: a failed attempt is saved and not thrown.
SaveEntitySwallow(x) ==
    /\ pc[x] = "save"
    /\ row' = [row EXCEPT ![current[x]] = entity[x]]
    /\ Goto(x, "complete")
    /\ UNCHANGED <<producer, queue, current, entity, handler, history, faults>>

\* deliveryRepo.save writes the whole entity; a failed one is then thrown.
SaveEntity(x) ==
    /\ pc[x] = "save"
    /\ row' = [row EXCEPT ![current[x]] = entity[x]]
    /\ Goto(x, IF entity[x].status = "failed" THEN "fail" ELSE "complete")
    /\ UNCHANGED <<producer, queue, current, entity, handler, history, faults>>

\* The finder or the save throws, and so does process(); what the save was to
\* write may have been committed before the connection was lost.
DatabaseFault(x) ==
    /\ Fault("database")
    /\ pc[x] \in {"load", "lookup", "save"}
    /\ Goto(x, "fail")
    /\ \/ row' = row
       \/ pc[x] = "save" /\ row' = [row EXCEPT ![current[x]] = entity[x]]
    /\ UNCHANGED <<producer, queue, current, entity, handler, history>>

Holds(x) == holder[current[x]] = x

\* The worker forgets what it did and waits for a job.
Idle(x) == /\ Goto(x, "idle")
           /\ current' = [current EXCEPT ![x] = None]
           /\ entity' = [entity EXCEPT ![x] = NoRow]

\* The job of d goes to another state and is nobody's.
Release(d, state) == /\ job' = [job EXCEPT ![d] = state]
                     /\ holder' = [holder EXCEPT ![d] = None]

\* process() returned; BullMQ accepts the result from the job's holder only.
Complete(x) ==
    /\ pc[x] = "complete"
    /\ Idle(x)
    /\ IF Holds(x) THEN Release(current[x], "completed") ELSE UNCHANGED <<job, holder>>
    /\ UNCHANGED <<producer, row, attemptsMade, stalls, handler, history, faults>>

\* Slip: one retry too many.
FailRetryOneMore(x) ==
    /\ pc[x] = "fail" /\ Holds(x)
    /\ attemptsMade[current[x]] + 1 <= MaxAttempts
    /\ Idle(x)
    /\ Release(current[x], "delayed")
    /\ attemptsMade' = [attemptsMade EXCEPT ![current[x]] = @ + 1]
    /\ UNCHANGED <<producer, row, stalls, handler, history, faults>>

\* process() threw and attempts remain: the job is retried after a backoff.
FailRetry(x) ==
    /\ pc[x] = "fail" /\ Holds(x)
    /\ attemptsMade[current[x]] + 1 < MaxAttempts
    /\ Idle(x)
    /\ Release(current[x], "delayed")
    /\ attemptsMade' = [attemptsMade EXCEPT ![current[x]] = @ + 1]
    /\ UNCHANGED <<producer, row, stalls, handler, history, faults>>

\* Slip: onFailed takes the last attempt for one more retry.
FailForGoodUnhandled(x) ==
    /\ pc[x] = "fail" /\ Holds(x)
    /\ attemptsMade[current[x]] + 1 >= MaxAttempts
    /\ Idle(x)
    /\ Release(current[x], "failed")
    /\ attemptsMade' = [attemptsMade EXCEPT ![current[x]] = @ + 1]
    /\ UNCHANGED <<producer, row, stalls, handler, history, faults>>

\* It threw on its last attempt: the job stays failed and onFailed is called.
FailForGood(x) ==
    /\ pc[x] = "fail" /\ Holds(x)
    /\ attemptsMade[current[x]] + 1 >= MaxAttempts
    /\ Idle(x)
    /\ Release(current[x], "failed")
    /\ attemptsMade' = [attemptsMade EXCEPT ![current[x]] = @ + 1]
    /\ handler' = [handler EXCEPT ![current[x]] = "update"]
    /\ UNCHANGED <<producer, row, stalls, history, faults>>

\* It threw in a worker that has lost the job.
FailUnheld(x) ==
    /\ pc[x] = "fail" /\ ~Holds(x)
    /\ Idle(x)
    /\ UNCHANGED <<producer, row, queue, handler, history, faults>>

\* The backoff is over.
Promote(d) ==
    /\ job[d] = "delayed"
    /\ job' = [job EXCEPT ![d] = "waiting"]
    /\ UNCHANGED <<producer, row, attemptsMade, stalls, holder, run, handler, history, faults>>

\* BullMQ gives a stalled job back; one that stalls once more than it allows
\* fails for good, with or without counting that as an attempt, and onFailed
\* only logs while the attempts are not used up.
Stall(d) ==
    /\ stalls' = [stalls EXCEPT ![d] = @ + 1]
    /\ IF stalls[d] < MaxStalls
       THEN Release(d, "waiting") /\ UNCHANGED <<attemptsMade, handler>>
       ELSE /\ Release(d, "failed")
            /\ \E made \in {attemptsMade[d], attemptsMade[d] + 1} :
                  /\ attemptsMade' = [attemptsMade EXCEPT ![d] = made]
                  /\ handler' = [handler EXCEPT ![d] =
                                    IF made >= MaxAttempts THEN "update" ELSE "logged"]

\* The instance dies, and the lock it held runs out.
WorkerDeath(x) ==
    /\ Fault("worker")
    /\ pc[x] # "idle"
    /\ IF Holds(x) THEN Stall(current[x]) ELSE UNCHANGED <<queue, handler>>
    /\ Idle(x)
    /\ UNCHANGED <<producer, row, history>>

\* The worker does not renew its lock in time; process() runs on.
LoseLock(x) ==
    /\ Fault("lock")
    /\ pc[x] # "idle" /\ Holds(x)
    /\ Stall(current[x])
    /\ UNCHANGED <<producer, row, run, history>>

-----------------------------------------------------------------------------
(* onFailed() goes on for a job without attempts left.                     *)

\* Slip: the delivery is declared dead and nobody is told.
MarkDeadSilently(d) ==
    /\ handler[d] = "update"
    /\ handler' = [handler EXCEPT ![d] = "done"]
    /\ row' = [row EXCEPT ![d].status = "dead"]
    /\ UNCHANGED <<producer, queue, run, history, faults>>

MarkDead(d) ==
    /\ handler[d] = "update"
    /\ handler' = [handler EXCEPT ![d] = "notify"]
    /\ row' = [row EXCEPT ![d].status = "dead"]
    /\ UNCHANGED <<producer, queue, run, history, faults>>

\* findOne, and WEBHOOK_FAILED_EVENT.
Notify(d) ==
    /\ handler[d] = "notify"
    /\ handler' = [handler EXCEPT ![d] = "done"]
    /\ notified' = [notified EXCEPT ![d] = @ + 1]
    /\ UNCHANGED <<producer, row, queue, run, posts, acked, faults>>

HandlerFault(d) ==
    /\ Fault("handler")
    /\ handler[d] \in {"update", "notify"}
    /\ handler' = [handler EXCEPT ![d] = "lost"]
    /\ UNCHANGED <<producer, row, queue, run, history>>

-----------------------------------------------------------------------------
ProducerStep(e) ==
    \/ FindWebhooks(e) \/ AddJob(e) \/ FinishDispatch(e)
    \/ \E w \in Webhooks : SaveDelivery(e, w)

WorkerStep(x) ==
    \/ LoadDelivery(x) \/ LoadWebhook(x)
    \/ \E ok \in BOOLEAN : PostAnswered(x, ok)
    \/ PostLost(x) \/ SaveEntity(x) \/ Complete(x)
    \/ FailRetry(x) \/ FailForGood(x) \/ FailUnheld(x)

JobStep(d) == Promote(d) \/ \E x \in Workers : TakeJob(x, d)

HandlerStep(d) == MarkDead(d) \/ Notify(d)

UserStep ==
    \/ \E w \in Webhooks : CreateWebhook(w) \/ RemoveWebhook(w)
    \/ \E e \in Events : RecordEvent(e) \/ TestWebhook(e)

FaultStep ==
    \/ \E e \in Events : ProducerFault(e)
    \/ \E x \in Workers : DatabaseFault(x) \/ WorkerDeath(x) \/ LoseLock(x)
    \/ \E d \in Deliveries : HandlerFault(d)

\* Nothing is left to do: every call, job, run and handler is over.
Quiescent ==
    /\ \A w \in Webhooks : hooks[w] = "removed"
    /\ \A e \in Events : task[e] \in {"done", "failed"}
    /\ \A d \in Deliveries : /\ job[d] \in {"none", "completed", "failed"}
                             /\ handler[d] \in {"none", "logged", "done", "lost"}
    /\ \A x \in Workers : pc[x] = "idle"
    /\ UNCHANGED vars

Next ==
    \/ UserStep
    \/ \E e \in Events : ProducerStep(e)
    \/ \E d \in Deliveries : JobStep(d) \/ HandlerStep(d)
    \/ \E x \in Workers : WorkerStep(x)
    \/ FaultStep
    \/ Quiescent

Spec == Init /\ [][Next]_vars

\* The event loop goes on with what it has started and BullMQ hands out what
\* it has; users and faults owe nothing.
Fairness ==
    /\ \A e \in Events : WF_vars(ProducerStep(e))
    /\ \A d \in Deliveries : WF_vars(JobStep(d)) /\ WF_vars(HandlerStep(d))
    /\ \A x \in Workers : WF_vars(WorkerStep(x))

FairSpec == Spec /\ Fairness

-----------------------------------------------------------------------------
(* Properties.                                                             *)

Statuses == {"none"} \cup Open \cup Terminal
Rows == [status : Statuses, attempts : Nat, response : {"null", "2xx", "error"}]

\* The shapes of the rows, the jobs, the workers' locals and the histories.
TypeOK ==
    /\ hooks \in [Webhooks -> {"new", "active", "removed"}]
    /\ task \in [Events -> {"idle", "recorded", "fanout", "enqueue", "done", "failed"}]
    /\ matching \in [Events -> SUBSET Webhooks]
    /\ saved \in [Events -> Webhooks \cup {None}]
    /\ row \in [Deliveries -> Rows]
    /\ job \in [Deliveries ->
                  {"none", "waiting", "active", "delayed", "completed", "failed"}]
    /\ attemptsMade \in [Deliveries -> 0 .. MaxAttempts]
    /\ stalls \in [Deliveries -> Nat]
    /\ holder \in [Deliveries -> Workers \cup {None}]
    /\ pc \in [Workers ->
                  {"idle", "load", "lookup", "post", "save", "complete", "fail"}]
    /\ current \in [Workers -> Deliveries \cup {None}]
    /\ entity \in [Workers -> Rows]
    /\ handler \in [Deliveries -> {"none", "update", "logged", "notify", "done", "lost"}]
    /\ posts \in [Deliveries -> Nat]
    /\ acked \subseteq Deliveries
    /\ notified \in [Deliveries -> Nat]
    /\ faults \in 0 .. MaxFaults

\* Whoever will act on a delivery that is not finished: the call that will
\* enqueue it, a queued or running job, or the handler that will bury it.
Driven(d) ==
    \/ task[d[1]] = "enqueue" /\ saved[d[1]] = d[2]
    \/ job[d] \in {"waiting", "active", "delayed"}
    \/ handler[d] = "update"

\* BullMQ has given the job of d up for its stalls, and attempts were left.
Abandoned(d) == stalls[d] > MaxStalls /\ attemptsMade[d] < MaxAttempts

\* A delivery said to wait for the worker, or to have retries left, is in
\* somebody's hands, unless BullMQ abandoned its job (delivery-status.enum.ts:3,5).
OpenDeliveriesAreDriven ==
    \A d \in Deliveries : row[d].status \in Open => Driven(d) \/ Abandoned(d)

\* SUCCESS is only ever recorded for a delivery the receiver answered 2xx
\* (delivery-status.enum.ts:4).
SuccessIsAcknowledged ==
    \A d \in Deliveries : row[d].status = "success" => d \in acked

\* DEAD means that the attempts are used up or that the webhook was removed
\* (webhooks.processor.ts:60-65 and 126-135).
DeadIsJustified ==
    \A d \in Deliveries : row[d].status = "dead" =>
        attemptsMade[d] = MaxAttempts \/ hooks[d[2]] = "removed"

\* A receiver is POSTed to once per attempt of the job, plus once for every
\* worker that died or lost its lock after its POST (webhooks.service.ts:17-22);
\* the attempts and the answer the row shows were made and received.
PostsBounded ==
    \A d \in Deliveries :
        /\ posts[d] <= MaxAttempts + faults
        /\ row[d].attempts <= posts[d]
        /\ row[d].response = "2xx" => d \in acked

\* A call that returns has put one delivery in the queue for every webhook it
\* found and for no other, and it never finds another organization's webhook
\* (webhooks.service.ts:97-106).
FanOutComplete ==
    \A e \in Events, w \in Webhooks :
        /\ w \in matching[e] => HookOrg[w] = EventOrg[e]
        /\ task[e] = "done" => (job[<<e, w>>] # "none" <=> w \in matching[e])

\* A delivery whose webhook exists is only declared dead, and reported as
\* failing, if the receiver never answered 2xx (webhooks.processor.ts:24-27).
DeadIsUndelivered ==
    \A d \in Deliveries :
        row[d].status = "dead" /\ hooks[d[2]] = "active" => d \notin acked

\* What is recorded as delivered is never POSTed again and stays recorded, but
\* for a job that failed every attempt after it; what is dead stays dead.  So
\* for every worker that dies and every database call that throws, committed
\* or not (webhooks.processor.ts:52 and 126-135).
TerminalIsFinal ==
    [][\A d \in Deliveries :
         /\ row[d].status = "success" =>
                /\ posts'[d] = posts[d]
                /\ row'[d] = row[d] \/ attemptsMade[d] = MaxAttempts
         /\ row[d].status = "dead" => row'[d].status = "dead"]_vars

\* Every delivery is delivered or declared dead (webhooks.processor.ts:24-27),
\* but for one whose job BullMQ abandoned.
DeliveriesResolve ==
    \A d \in Deliveries :
        row[d].status \in Open ~> row[d].status \in Terminal \/ Abandoned(d)

\* A delivery is one item of the outbox: enqueued with its job, and ended with
\* it; SUCCESS is delivered, DEAD without its webhook dropped, and a job out of
\* attempts is reported.  A job that ended with an open row and without having
\* stalled too often would be none of these.
Phase(d) ==
    CASE job[d] = "none" -> "none"
      [] job[d] = "failed" -> (CASE attemptsMade[d] = MaxAttempts -> "exhausted"
                                 [] Abandoned(d) -> "abandoned"
                                 [] OTHER -> "forgotten")
      [] job[d] = "completed" -> (CASE row[d].status = "success" -> "delivered"
                                    [] row[d].status = "dead" -> "dropped"
                                    [] OTHER -> "forgotten")
      [] OTHER -> "open"

Queue == INSTANCE Outbox WITH Items <- Deliveries, Watched <- Deliveries,
                              phase <- [d \in Deliveries |-> Phase(d)], reports <- notified

\* Each delivery ends once and for all, and the organization hears once of one
\* whose attempts are used up and of no other, although workers die and
\* database calls throw; of one that is abandoned it never hears (webhooks.processor.ts:24-27, 52 and 126-151).
ImplementsOutbox == Queue!Spec
=============================================================================
