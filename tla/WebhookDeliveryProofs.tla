----------------------- MODULE WebhookDeliveryProofs -----------------------
(***************************************************************************)
(* What holds of WebhookDelivery for any events, webhooks, workers and     *)
(* number of attempts and faults.                                          *)
(***************************************************************************)
EXTENDS WebhookDelivery, FiniteSetTheorems, TLAPS

\* A worker's job is the one BullMQ says it holds, and a job that can still
\* run has attempts left.
JobInv ==
    \A d \in Deliveries :
        /\ job[d] = "active" <=> holder[d] # None
        /\ holder[d] # None => pc[holder[d]] # "idle" /\ current[holder[d]] = d
        /\ job[d] \in {"none", "waiting", "active", "delayed"} =>
             attemptsMade[d] < MaxAttempts

\* A worker that found a row holds it.
Loaded(x) == pc[x] \in {"lookup", "post", "save"}

\* A busy worker has a delivery; a call about to enqueue has saved one; what
\* has no row has no job.
LocalInv ==
    /\ \A x \in Workers : pc[x] # "idle" => current[x] \in Deliveries
    /\ \A x \in Workers : Loaded(x) => entity[x].status # "none"
    /\ \A e \in Events : task[e] = "enqueue" =>
          /\ saved[e] \in Webhooks
          /\ row[<<e, saved[e]>>].status # "none"
          /\ job[<<e, saved[e]>>] = "none"
    /\ \A d \in Deliveries : row[d].status = "none" => job[d] = "none"

TypeInv == TypeOK /\ JobInv /\ LocalInv

USE AttemptsAssumption, FaultsAssumption, TargetAssumption DEF Loaded

LEMMA InitTypeInv == Init => TypeInv
  BY DEF Init, TypeInv, TypeOK, JobInv, LocalInv, NoRow, Rows, Statuses,
         Open, Terminal

\* A step that leaves rows, jobs and workers alone and begins no enqueueing.
LEMMA QuietStep ==
    ASSUME JobInv, LocalInv, UNCHANGED <<row, queue, run>>,
           \A e \in Events : task'[e] = "enqueue" =>
               task[e] = "enqueue" /\ saved'[e] = saved[e]
    PROVE  JobInv' /\ LocalInv'
  <1>1. JobInv'
    BY DEF JobInv, queue, run
  <1>2. LocalInv'
    BY DEF LocalInv, queue, run
  <1> QED BY <1>1, <1>2

LEMMA UserTypeInv == ASSUME TypeInv, UserStep PROVE TypeInv'
  <1> USE DEF TypeInv, history, queue, run
  <1>1. ASSUME NEW w \in Webhooks, CreateWebhook(w) \/ RemoveWebhook(w) PROVE TypeInv'
    <2>1. TypeOK'
      BY <1>1 DEF CreateWebhook, RemoveWebhook, TypeOK
    <2> QED BY <1>1, <2>1, QuietStep DEF CreateWebhook, RemoveWebhook
  <1>2. ASSUME NEW e \in Events, RecordEvent(e) PROVE TypeInv'
    <2>1. TypeOK'
      BY <1>2 DEF RecordEvent, TypeOK
    <2> QED BY <1>2, <2>1, QuietStep DEF RecordEvent, TypeOK
  <1>3. ASSUME NEW e \in Events, TestWebhook(e) PROVE TypeInv'
    <2>1. TypeOK'
      BY <1>3 DEF TestWebhook, TypeOK
    <2> QED BY <1>3, <2>1, QuietStep DEF TestWebhook, TypeOK
  <1> QED BY <1>1, <1>2, <1>3 DEF UserStep

LEMMA ProducerTypeInv ==
    ASSUME TypeInv, NEW e \in Events, ProducerStep(e) \/ ProducerFault(e) PROVE TypeInv'
  <1> USE DEF TypeInv, history, queue, run
  <1>1. CASE FindWebhooks(e)
    <2>1. TypeOK'
      BY <1>1 DEF FindWebhooks, TypeOK
    <2> QED BY <1>1, <2>1, QuietStep DEF FindWebhooks, TypeOK
  <1>2. CASE FinishDispatch(e)
    <2>1. TypeOK'
      BY <1>2 DEF FinishDispatch, TypeOK
    <2> QED BY <1>2, <2>1, QuietStep DEF FinishDispatch, TypeOK
  <1>3. CASE ProducerFault(e)
    <2>1. TypeOK'
      BY <1>3 DEF ProducerFault, Fault, TypeOK
    <2> QED BY <1>3, <2>1, QuietStep DEF ProducerFault, TypeOK
  <1>4. ASSUME NEW w \in Webhooks, SaveDelivery(e, w) PROVE TypeInv'
    <2>1. /\ <<e, w>> \in Deliveries /\ job[<<e, w>>] = "none"
          /\ NewRow \in Rows /\ NewRow.status # "none"
      BY <1>4 DEF SaveDelivery, Unvisited, LocalInv, Deliveries, NewRow, Rows, Statuses, Open
    <2>2. TypeOK'
      BY <1>4, <2>1 DEF SaveDelivery, TypeOK
    <2>3. JobInv'
      BY <1>4 DEF SaveDelivery, JobInv
    <2>4. row' = [row EXCEPT ![<<e, w>>] = NewRow] /\ job' = job /\ pc' = pc /\ current' = current
      BY <1>4 DEF SaveDelivery
    <2>5. \A x \in Workers : pc'[x] # "idle" => current'[x] \in Deliveries
      BY <2>4 DEF LocalInv
    <2>8. \A x \in Workers : Loaded(x)' => entity'[x].status # "none"
      BY <1>4 DEF LocalInv, SaveDelivery
    <2>6. \A d \in Deliveries : row'[d].status = "none" => job'[d] = "none"
      BY <2>1, <2>4 DEF LocalInv, TypeOK
    <2>7. ASSUME NEW g \in Events, task'[g] = "enqueue"
          PROVE  /\ saved'[g] \in Webhooks
                 /\ row'[<<g, saved'[g]>>].status # "none"
                 /\ job'[<<g, saved'[g]>>] = "none"
      <3>1. CASE g = e
        BY <1>4, <2>1, <2>4, <3>1 DEF SaveDelivery, TypeOK
      <3>2. CASE g # e
        <4>1. task[g] = "enqueue" /\ saved'[g] = saved[g]
          BY <1>4, <2>7, <3>2 DEF SaveDelivery, TypeOK
        <4>2. <<g, saved[g]>> \in Deliveries /\ <<g, saved[g]>> # <<e, w>>
          BY <3>2, <4>1 DEF LocalInv, Deliveries
        <4> QED BY <2>4, <4>1, <4>2 DEF LocalInv, TypeOK
      <3> QED BY <3>1, <3>2
    <2> QED BY <2>2, <2>3, <2>5, <2>6, <2>7, <2>8 DEF LocalInv
  <1>5. CASE AddJob(e)
    <2> DEFINE d == <<e, saved[e]>>
    <2>1. d \in Deliveries /\ job[d] = "none" /\ row[d].status # "none"
      BY <1>5 DEF AddJob, LocalInv, Deliveries
    <2>2. /\ job'[d] = "waiting"
          /\ holder' = holder /\ attemptsMade' = attemptsMade
          /\ \A c \in Deliveries \ {d} : job'[c] = job[c]
          /\ row' = row /\ pc' = pc /\ current' = current
      BY <1>5, <2>1 DEF AddJob, TypeOK
    <2>3. TypeOK'
      BY <1>5, <2>1 DEF AddJob, TypeOK
    <2>4. JobInv'
      BY <2>1, <2>2 DEF JobInv, TypeOK
    <2>5. ASSUME NEW g \in Events, task'[g] = "enqueue"
          PROVE  /\ saved'[g] \in Webhooks
                 /\ row'[<<g, saved'[g]>>].status # "none"
                 /\ job'[<<g, saved'[g]>>] = "none"
      <3>1. g # e /\ task[g] = "enqueue" /\ saved'[g] = saved[g]
        BY <1>5, <2>5 DEF AddJob, TypeOK
      <3>2. <<g, saved[g]>> \in Deliveries /\ <<g, saved[g]>> # d
        BY <3>1 DEF LocalInv, Deliveries
      <3> QED BY <2>2, <3>1, <3>2 DEF LocalInv
    <2>6. LocalInv'
      BY <1>5, <2>1, <2>2, <2>5 DEF LocalInv, AddJob
    <2> QED BY <2>3, <2>4, <2>6
  <1> QED BY <1>1, <1>2, <1>3, <1>4, <1>5 DEF ProducerStep

\* A step of a busy worker that leaves the queue alone and loses no row.
LEMMA LocalStep ==
    ASSUME TypeInv, NEW x \in Workers, pc[x] # "idle",
           UNCHANGED <<task, saved, queue, current>>,
           pc'[x] # "idle",
           Loaded(x)' => entity'[x].status # "none",
           \A y \in Workers \ {x} : pc'[y] = pc[y] /\ entity'[y] = entity[y],
           \A d \in Deliveries : row'[d].status = "none" => row[d].status = "none"
    PROVE  JobInv' /\ LocalInv'
  <1> USE DEF TypeInv, queue
  <1>1. JobInv'
    BY DEF JobInv, TypeOK
  <1>3. \A e \in Events : task'[e] = "enqueue" => <<e, saved[e]>> \in Deliveries
    BY DEF LocalInv, Deliveries
  <1>4. LocalInv'
    BY <1>3 DEF LocalInv
  <1> QED BY <1>1, <1>4

\* process() between the taking of a job and its end.
LEMMA ProcessTypeInv ==
    ASSUME TypeInv, NEW x \in Workers, pc[x] # "idle",
           \/ LoadDelivery(x) \/ LoadWebhook(x) \/ PostLost(x) \/ SaveEntity(x)
           \/ \E ok \in BOOLEAN : PostAnswered(x, ok)
           \/ DatabaseFault(x)
    PROVE  TypeInv'
  <1> USE DEF TypeInv, history, producer, Goto
  <1>0. current[x] \in Deliveries
    BY DEF LocalInv
  <1>r. entity[x] \in Rows /\ row[current[x]] \in Rows
    BY <1>0 DEF TypeOK
  <1>1. CASE LoadDelivery(x)
    <2>1. TypeOK'
      BY <1>0, <1>1, <1>r DEF LoadDelivery, TypeOK, queue
    <2> QED BY <1>1, <2>1, LocalStep DEF LoadDelivery, TypeOK
  <1>2. CASE LoadWebhook(x)
    <2>1. PICK r \in Rows : r.status # "none" /\ entity' = [entity EXCEPT ![x] = r]
      <3>1. CASE hooks[current[x][2]] = "active"
        <4> DEFINE r == [entity[x] EXCEPT !.attempts = @ + 1]
        <4>1. r \in Rows /\ r.status = entity[x].status
          BY <1>r DEF Rows
        <4> QED BY <1>2, <3>1, <4>1 DEF LoadWebhook, LocalInv
      <3>2. CASE hooks[current[x][2]] # "active"
        <4> DEFINE r == [entity[x] EXCEPT !.status = "dead"]
        <4>1. r \in Rows /\ r.status = "dead"
          BY <1>r DEF Rows, Statuses, Terminal
        <4> QED BY <1>2, <3>2, <4>1 DEF LoadWebhook
      <3> QED BY <3>1, <3>2
    <2>2. TypeOK'
      BY <1>0, <1>2, <2>1 DEF LoadWebhook, TypeOK, queue
    <2>3. /\ pc[x] # "idle" /\ pc'[x] # "idle" /\ entity'[x].status # "none"
          /\ UNCHANGED <<task, saved, queue, current, row>>
      BY <1>2, <2>1 DEF LoadWebhook, TypeOK
    <2>4. \A y \in Workers \ {x} : pc'[y] = pc[y] /\ entity'[y] = entity[y]
      BY <1>2, <2>1 DEF LoadWebhook, TypeOK
    <2> QED BY <2>2, <2>3, <2>4, LocalStep
  <1>3. ASSUME NEW ok \in BOOLEAN, PostAnswered(x, ok) PROVE TypeInv'
    <2> DEFINE r == [entity[x] EXCEPT !.response = IF ok THEN "2xx" ELSE "error",
                                      !.status = IF ok THEN "success" ELSE "failed"]
    <2>1. r \in Rows /\ r.status # "none"
      BY <1>r DEF Rows, Statuses, Terminal, Open
    <2>2. entity' = [entity EXCEPT ![x] = r]
      BY <1>3 DEF PostAnswered
    <2>3. /\ pc' = [pc EXCEPT ![x] = "save"]
          /\ posts' = [posts EXCEPT ![current[x]] = @ + 1]
          /\ UNCHANGED <<producer, row, queue, current, handler, notified, faults>>
      BY <1>3 DEF PostAnswered
    <2> HIDE DEF r
    <2>5. acked' \subseteq Deliveries
      BY <1>0, <1>3 DEF PostAnswered, TypeOK
    <2>6. entity' \in [Workers -> Rows]
      BY <2>1, <2>2 DEF TypeOK
    <2>7. posts' \in [Deliveries -> Nat]
      BY <1>0, <2>3 DEF TypeOK
    <2>8. pc' \in [Workers -> {"idle", "load", "lookup", "post", "save", "complete", "fail"}]
      BY <2>3 DEF TypeOK
    <2>4. TypeOK'
      BY <2>3, <2>5, <2>6, <2>7, <2>8 DEF TypeOK, queue
    <2> QED BY <2>1, <2>2, <2>3, <2>4, LocalStep DEF TypeOK
  <1>4. CASE PostLost(x)
    <2>1. PICK r \in Rows : r.status # "none" /\ entity' = [entity EXCEPT ![x] = r]
      <3>1. CASE entity[x].response = "null"
        <4> DEFINE r == [entity[x] EXCEPT !.status = "failed"]
        <4>1. r \in Rows /\ r.status = "failed"
          BY <1>r DEF Rows, Statuses, Open
        <4> QED BY <1>4, <3>1, <4>1 DEF PostLost
      <3>2. CASE entity[x].response # "null"
        <4>1. entity' = [entity EXCEPT ![x] = entity[x]] /\ entity[x].status # "none"
          BY <1>4, <3>2 DEF PostLost, LocalInv, TypeOK
        <4> QED BY <1>r, <4>1
      <3> QED BY <3>1, <3>2
    <2>2. TypeOK'
      BY <1>0, <1>4, <2>1 DEF PostLost, TypeOK, queue
    <2>3. /\ pc[x] # "idle" /\ pc'[x] # "idle" /\ entity'[x].status # "none"
          /\ UNCHANGED <<task, saved, queue, current, row>>
      BY <1>4, <2>1 DEF PostLost, Goto, TypeOK, producer
    <2>4. \A y \in Workers \ {x} : pc'[y] = pc[y] /\ entity'[y] = entity[y]
      BY <1>4, <2>1 DEF PostLost, Goto, TypeOK
    <2> QED BY <2>2, <2>3, <2>4, LocalStep
  <1>5. CASE SaveEntity(x)
    <2>1. TypeOK'
      BY <1>0, <1>5, <1>r DEF SaveEntity, TypeOK, queue
    <2>2. entity[x].status # "none"
      BY <1>5 DEF SaveEntity, LocalInv
    <2>3. /\ pc[x] # "idle" /\ pc'[x] # "idle" /\ ~Loaded(x)'
          /\ UNCHANGED <<task, saved, queue, current, entity>>
      BY <1>5 DEF SaveEntity, TypeOK, Loaded
    <2>4. \A y \in Workers \ {x} : pc'[y] = pc[y]
      BY <1>5 DEF SaveEntity, TypeOK
    <2>5. \A d \in Deliveries : row'[d].status = "none" => row[d].status = "none"
      BY <1>0, <1>5, <2>2 DEF SaveEntity, TypeOK
    <2> QED BY <2>1, <2>3, <2>4, <2>5, LocalStep
  <1>6. CASE DatabaseFault(x)
    <2>1. TypeOK'
      BY <1>0, <1>6, <1>r DEF DatabaseFault, Fault, TypeOK, queue
    <2>2. row' # row => entity[x].status # "none"
      BY <1>6 DEF DatabaseFault, LocalInv
    <2>3. /\ pc[x] # "idle" /\ pc'[x] # "idle" /\ ~Loaded(x)'
          /\ UNCHANGED <<task, saved, queue, current, entity>>
      BY <1>6 DEF DatabaseFault, Goto, TypeOK, producer, Loaded
    <2>4. \A y \in Workers \ {x} : pc'[y] = pc[y]
      BY <1>6 DEF DatabaseFault, Goto, TypeOK
    <2>5. \A d \in Deliveries : row'[d].status = "none" => row[d].status = "none"
      BY <1>0, <1>6, <2>2 DEF DatabaseFault, TypeOK
    <2> QED BY <2>1, <2>3, <2>4, <2>5, LocalStep
  <1> QED BY <1>1, <1>2, <1>3, <1>4, <1>5, <1>6

\* A step that ends the run of a worker, and the hold it has on its job.
LEMMA IdleStep ==
    ASSUME TypeInv, NEW x \in Workers, pc[x] # "idle", Idle(x),
           UNCHANGED <<task, saved, row>>,
           \/ /\ ~Holds(x)
              /\ UNCHANGED queue
           \/ /\ Holds(x)
              /\ \E state \in {"waiting", "delayed", "completed", "failed"} :
                    /\ Release(current[x], state)
                    /\ state \in {"waiting", "delayed"} =>
                         attemptsMade'[current[x]] < MaxAttempts
              /\ \A d \in Deliveries \ {current[x]} : attemptsMade'[d] = attemptsMade[d]
    PROVE  JobInv' /\ LocalInv'
  <1> USE DEF TypeInv, Idle, Goto, queue, NoRow
  <1>0. current[x] \in Deliveries
    BY DEF LocalInv
  <1>1. \A y \in Workers : /\ pc'[y] = IF y = x THEN "idle" ELSE pc[y]
                           /\ current'[y] = IF y = x THEN None ELSE current[y]
                           /\ y # x => entity'[y] = entity[y]
    BY DEF TypeOK
  <1>2. CASE ~Holds(x) /\ UNCHANGED queue
    <2>1. \A d \in Deliveries : holder[d] # x
      BY <1>2 DEF Holds, JobInv
    <2>2. JobInv'
      BY <1>1, <1>2, <2>1 DEF JobInv, TypeOK
    <2>3. LocalInv'
      BY <1>1, <1>2 DEF LocalInv
    <2> QED BY <2>2, <2>3
  <1>3. ASSUME Holds(x), NEW state \in {"waiting", "delayed", "completed", "failed"},
               Release(current[x], state),
               state \in {"waiting", "delayed"} => attemptsMade'[current[x]] < MaxAttempts,
               \A d \in Deliveries \ {current[x]} : attemptsMade'[d] = attemptsMade[d]
        PROVE  JobInv' /\ LocalInv'
    <2>1. \A d \in Deliveries : /\ job'[d] = IF d = current[x] THEN state ELSE job[d]
                                /\ holder'[d] = IF d = current[x] THEN None ELSE holder[d]
      BY <1>3 DEF Release, TypeOK
    <2>2. \A d \in Deliveries : holder[d] = x => d = current[x]
      BY DEF JobInv
    <2>3. JobInv'
      BY <1>0, <1>1, <1>3, <2>1, <2>2 DEF JobInv, TypeOK
    <2>4. job[current[x]] = "active"
      BY <1>0, <1>3 DEF Holds, JobInv
    <2>5. \A e \in Events : task[e] = "enqueue" =>
             <<e, saved[e]>> \in Deliveries /\ <<e, saved[e]>> # current[x]
      BY <2>4 DEF LocalInv, Deliveries
    <2>6. LocalInv'
      BY <1>0, <1>1, <2>1, <2>4, <2>5 DEF LocalInv
    <2> QED BY <2>3, <2>6
  <1> QED BY <1>2, <1>3

\* A stalled job is given back, or fails with its attempts used up or not.
LEMMA StallFrame ==
    ASSUME TypeOK, NEW d \in Deliveries, attemptsMade[d] < MaxAttempts, Stall(d)
    PROVE  \/ Release(d, "waiting") /\ UNCHANGED <<attemptsMade, handler>>
           \/ /\ Release(d, "failed") /\ stalls[d] >= MaxStalls
              /\ \E made \in {attemptsMade[d], attemptsMade[d] + 1} :
                    /\ attemptsMade' = [attemptsMade EXCEPT ![d] = made]
                    /\ \/ made = MaxAttempts /\ handler' = [handler EXCEPT ![d] = "update"]
                       \/ made < MaxAttempts /\ handler' = [handler EXCEPT ![d] = "logged"]
  <1>1. /\ attemptsMade[d] \in Nat /\ MaxAttempts \in Nat
        /\ stalls[d] \in Nat /\ MaxStalls \in Nat
    BY DEF TypeOK
  <1>2. CASE stalls[d] < MaxStalls
    BY <1>2 DEF Stall
  <1>3. CASE ~ (stalls[d] < MaxStalls)
    <2>1. PICK made \in {attemptsMade[d], attemptsMade[d] + 1} :
             /\ attemptsMade' = [attemptsMade EXCEPT ![d] = made]
             /\ handler' = [handler EXCEPT ![d] = IF made >= MaxAttempts THEN "update" ELSE "logged"]
      BY <1>3 DEF Stall
    <2>2. Release(d, "failed") /\ stalls[d] >= MaxStalls
      BY <1>1, <1>3 DEF Stall
    <2>3. \/ made = MaxAttempts /\ made >= MaxAttempts
          \/ made < MaxAttempts /\ ~ (made >= MaxAttempts)
      BY <1>1
    <2>4. \/ made = MaxAttempts /\ handler' = [handler EXCEPT ![d] = "update"]
          \/ made < MaxAttempts /\ handler' = [handler EXCEPT ![d] = "logged"]
      BY <2>1, <2>3
    <2> QED BY <2>1, <2>2, <2>4
  <1> QED BY <1>2, <1>3

LEMMA StallTouches ==
    ASSUME TypeOK, NEW d \in Deliveries, attemptsMade[d] < MaxAttempts, Stall(d)
    PROVE  /\ stalls'[d] = stalls[d] + 1 /\ holder'[d] = None
           /\ \/ /\ job'[d] = "waiting"
                 /\ attemptsMade'[d] = attemptsMade[d] /\ handler'[d] = handler[d]
              \/ /\ job'[d] = "failed" /\ stalls'[d] > MaxStalls
                 /\ attemptsMade'[d] \in {attemptsMade[d], attemptsMade[d] + 1}
                 /\ \/ attemptsMade'[d] = MaxAttempts /\ handler'[d] = "update"
                    \/ attemptsMade'[d] < MaxAttempts /\ handler'[d] = "logged"
           /\ \A c \in Deliveries \ {d} :
                 /\ job'[c] = job[c] /\ attemptsMade'[c] = attemptsMade[c]
                 /\ stalls'[c] = stalls[c] /\ holder'[c] = holder[c] /\ handler'[c] = handler[c]
  <1>1. stalls' = [stalls EXCEPT ![d] = @ + 1] /\ stalls[d] \in Nat /\ MaxStalls \in Nat
    BY DEF Stall, TypeOK
  <1>2. stalls'[d] = stalls[d] + 1 /\ \A c \in Deliveries \ {d} : stalls'[c] = stalls[c]
    BY <1>1 DEF TypeOK
  <1>3. ASSUME NEW s, Release(d, s)
        PROVE  /\ job'[d] = s /\ holder'[d] = None
               /\ \A c \in Deliveries \ {d} : job'[c] = job[c] /\ holder'[c] = holder[c]
    BY <1>3 DEF Release, TypeOK
  <1>4. CASE Release(d, "waiting") /\ UNCHANGED <<attemptsMade, handler>>
    BY <1>2, <1>3, <1>4
  <1>5. ASSUME Release(d, "failed"), stalls[d] >= MaxStalls,
               NEW made \in {attemptsMade[d], attemptsMade[d] + 1},
               attemptsMade' = [attemptsMade EXCEPT ![d] = made],
               \/ made = MaxAttempts /\ handler' = [handler EXCEPT ![d] = "update"]
               \/ made < MaxAttempts /\ handler' = [handler EXCEPT ![d] = "logged"]
        PROVE  /\ job'[d] = "failed" /\ stalls'[d] > MaxStalls
               /\ attemptsMade'[d] \in {attemptsMade[d], attemptsMade[d] + 1}
               /\ \/ attemptsMade'[d] = MaxAttempts /\ handler'[d] = "update"
                  \/ attemptsMade'[d] < MaxAttempts /\ handler'[d] = "logged"
               /\ \A c \in Deliveries \ {d} :
                     attemptsMade'[c] = attemptsMade[c] /\ handler'[c] = handler[c]
    BY <1>1, <1>2, <1>3, <1>5 DEF TypeOK
  <1> QED BY <1>2, <1>3, <1>4, <1>5, StallFrame

LEMMA StallTypes ==
    ASSUME TypeOK, NEW d \in Deliveries, attemptsMade[d] < MaxAttempts, Stall(d)
    PROVE  /\ job' \in [Deliveries ->
                          {"none", "waiting", "active", "delayed", "completed", "failed"}]
           /\ attemptsMade' \in [Deliveries -> 0 .. MaxAttempts]
           /\ stalls' \in [Deliveries -> Nat]
           /\ holder' \in [Deliveries -> Workers \cup {None}]
           /\ handler' \in [Deliveries -> {"none", "update", "logged", "notify", "done", "lost"}]
  <1>1. stalls' \in [Deliveries -> Nat]
    BY DEF Stall, TypeOK
  <1>2. ASSUME NEW s \in {"waiting", "failed"}, Release(d, s)
        PROVE  /\ job' \in [Deliveries ->
                             {"none", "waiting", "active", "delayed", "completed", "failed"}]
               /\ holder' \in [Deliveries -> Workers \cup {None}]
    BY <1>2 DEF Release, TypeOK
  <1>3. ASSUME NEW made \in {attemptsMade[d], attemptsMade[d] + 1}
        PROVE  made \in 0 .. MaxAttempts
    BY DEF TypeOK
  <1> QED BY <1>1, <1>2, <1>3, StallFrame DEF TypeOK

\* The ends of process(), and its loss.
LEMMA EndTypeInv ==
    ASSUME TypeInv, NEW x \in Workers, pc[x] # "idle",
           \/ Complete(x) \/ FailRetry(x) \/ FailForGood(x) \/ FailUnheld(x)
           \/ WorkerDeath(x) \/ LoseLock(x)
    PROVE  TypeInv'
  <1> USE DEF TypeInv, history, producer
  <1>0. current[x] \in Deliveries /\ NoRow \in Rows
    BY DEF LocalInv, NoRow, Rows, Statuses
  <1>h. Holds(x) => job[current[x]] = "active" /\ attemptsMade[current[x]] < MaxAttempts
    BY <1>0 DEF Holds, JobInv
  <1>m. attemptsMade[current[x]] \in Nat /\ MaxAttempts \in Nat
    BY <1>0 DEF TypeOK
  <1>1. CASE Complete(x)
    <2>1. TypeOK'
      BY <1>0, <1>1 DEF Complete, Idle, Goto, Release, TypeOK
    <2>2. JobInv' /\ LocalInv'
      BY <1>1, IdleStep DEF Complete, queue
    <2> QED BY <2>1, <2>2
  <1>2. CASE FailRetry(x)
    <2>1. attemptsMade' \in [Deliveries -> 0 .. MaxAttempts]
      BY <1>0, <1>2, <1>m DEF FailRetry, TypeOK
    <2>2. TypeOK'
      BY <1>0, <1>2, <2>1 DEF FailRetry, Idle, Goto, Release, TypeOK
    <2>3. attemptsMade'[current[x]] < MaxAttempts
      BY <1>0, <1>2 DEF FailRetry, TypeOK
    <2>4. JobInv' /\ LocalInv'
      BY <1>2, <2>3, IdleStep DEF FailRetry
    <2> QED BY <2>2, <2>4
  <1>3. CASE FailForGood(x)
    <2>1. attemptsMade' \in [Deliveries -> 0 .. MaxAttempts]
      BY <1>0, <1>3, <1>m, <1>h DEF FailForGood, TypeOK
    <2>2. TypeOK'
      BY <1>0, <1>3, <2>1 DEF FailForGood, Idle, Goto, Release, TypeOK
    <2>3. JobInv' /\ LocalInv'
      BY <1>3, IdleStep DEF FailForGood
    <2> QED BY <2>2, <2>3
  <1>4. CASE FailUnheld(x)
    <2>1. TypeOK'
      BY <1>0, <1>4 DEF FailUnheld, Idle, Goto, TypeOK, queue
    <2>2. JobInv' /\ LocalInv'
      BY <1>4, IdleStep DEF FailUnheld
    <2> QED BY <2>1, <2>2
  <1>5. CASE WorkerDeath(x)
    <2>1. /\ Idle(x) /\ UNCHANGED <<task, saved, row>>
          /\ Holds(x) => Stall(current[x])
          /\ ~ Holds(x) => UNCHANGED <<queue, handler>>
      BY <1>5 DEF WorkerDeath
    <2>2. TypeOK'
      <3>1. CASE Holds(x)
        BY <1>0, <1>5, <1>h, <2>1, <3>1, StallTypes DEF WorkerDeath, Fault, Idle, Goto, TypeOK
      <3>2. CASE ~ Holds(x)
        BY <1>0, <1>5, <2>1, <3>2 DEF WorkerDeath, Fault, Idle, Goto, TypeOK, queue
      <3> QED BY <3>1, <3>2
    <2>3. CASE Holds(x)
      <3>1. /\ Release(current[x], "waiting") \/ Release(current[x], "failed")
            /\ Release(current[x], "waiting") => attemptsMade'[current[x]] < MaxAttempts
            /\ \A d \in Deliveries \ {current[x]} : attemptsMade'[d] = attemptsMade[d]
        <4>1. /\ Release(current[x], "waiting") \/ Release(current[x], "failed")
              /\ job'[current[x]] = "waiting" =>
                    attemptsMade'[current[x]] = attemptsMade[current[x]]
              /\ \A d \in Deliveries \ {current[x]} : attemptsMade'[d] = attemptsMade[d]
          BY <1>0, <1>h, <2>1, <2>3, StallFrame, StallTouches
        <4>2. Release(current[x], "waiting") => job'[current[x]] = "waiting"
          BY <1>0 DEF Release, TypeOK
        <4> QED BY <1>h, <2>3, <4>1, <4>2
      <3> QED BY <2>1, <2>2, <2>3, <3>1, IdleStep
    <2>4. CASE ~ Holds(x)
      BY <2>1, <2>2, <2>4, IdleStep
    <2> QED BY <2>3, <2>4
  <1>6. CASE LoseLock(x)
    <2>0. /\ Stall(current[x]) /\ Holds(x) /\ job[current[x]] = "active"
          /\ attemptsMade[current[x]] < MaxAttempts
          /\ UNCHANGED <<producer, row, run, history>>
      BY <1>6, <1>h DEF LoseLock
    <2>1. TypeOK'
      BY <1>0, <1>6, <2>0, StallTypes DEF LoseLock, Fault, TypeOK, run
    <2>5. /\ holder'[current[x]] = None
          /\ \/ job'[current[x]] = "failed"
             \/ job'[current[x]] = "waiting" /\ attemptsMade'[current[x]] < MaxAttempts
          /\ \A d \in Deliveries \ {current[x]} : /\ holder'[d] = holder[d] /\ job'[d] = job[d]
                                                  /\ attemptsMade'[d] = attemptsMade[d]
      BY <1>0, <2>0, StallTouches
    <2>2. JobInv'
      BY <1>0, <2>0, <2>5 DEF JobInv, run
    <2>3. \A e \in Events : task[e] = "enqueue" =>
             <<e, saved[e]>> \in Deliveries /\ <<e, saved[e]>> # current[x]
      BY <1>6, <1>h DEF LoseLock, LocalInv, Deliveries
    <2>4. LocalInv'
      BY <1>0, <2>0, <2>3, <2>5 DEF LocalInv, run
    <2> QED BY <2>1, <2>2, <2>4
  <1> QED BY <1>1, <1>2, <1>3, <1>4, <1>5, <1>6

\* The queue and onFailed.
LEMMA QueueTypeInv ==
    ASSUME TypeInv, NEW d \in Deliveries,
           JobStep(d) \/ HandlerStep(d) \/ HandlerFault(d)
    PROVE  TypeInv'
  <1> USE DEF TypeInv, history, producer
  <1>1. CASE Promote(d)
    <2>1. TypeOK'
      BY <1>1 DEF Promote, TypeOK, run
    <2>2. JobInv'
      BY <1>1 DEF Promote, TypeOK, JobInv, run
    <2>3. \A e \in Events : task[e] = "enqueue" =>
             <<e, saved[e]>> \in Deliveries /\ <<e, saved[e]>> # d
      BY <1>1 DEF Promote, LocalInv, Deliveries
    <2>4. LocalInv'
      BY <1>1, <2>3 DEF Promote, TypeOK, LocalInv, run
    <2> QED BY <2>1, <2>2, <2>4
  <1>2. ASSUME NEW x \in Workers, TakeJob(x, d) PROVE TypeInv'
    <2>1. TypeOK'
      BY <1>2 DEF TakeJob, Goto, TypeOK
    <2>2. \A c \in Deliveries : holder[c] # x
      BY <1>2 DEF TakeJob, JobInv
    <2>3. JobInv'
      BY <1>2, <2>2 DEF TakeJob, Goto, TypeOK, JobInv
    <2>4. \A e \in Events : task[e] = "enqueue" =>
             <<e, saved[e]>> \in Deliveries /\ <<e, saved[e]>> # d
      BY <1>2 DEF TakeJob, LocalInv, Deliveries
    <2>5. LocalInv'
      BY <1>2, <2>4 DEF TakeJob, Goto, TypeOK, LocalInv
    <2> QED BY <2>1, <2>3, <2>5
  <1>3. CASE MarkDead(d)
    <2> DEFINE r == [row[d] EXCEPT !.status = "dead"]
    <2>1. r \in Rows /\ r.status = "dead" /\ row' = [row EXCEPT ![d] = r]
      <3>1. row[d] \in Rows
        BY DEF TypeInv, TypeOK
      <3>2. r \in Rows /\ r.status = "dead"
        BY <3>1 DEF Rows, Statuses, Terminal
      <3>3. row' = [row EXCEPT ![d] = r]
        BY <1>3 DEF MarkDead
      <3> QED BY <3>2, <3>3
    <2> HIDE DEF r
    <2>2. TypeOK'
      <3>1. row' \in [Deliveries -> Rows]
        BY <2>1 DEF TypeInv, TypeOK
      <3>2. handler' \in [Deliveries -> {"none", "update", "logged", "notify", "done", "lost"}]
        BY <1>3 DEF MarkDead, TypeInv, TypeOK
      <3> QED BY <1>3, <3>1, <3>2 DEF MarkDead, TypeInv, TypeOK, queue, run
    <2>3. JobInv'
      BY <1>3 DEF MarkDead, JobInv, queue, run
    <2>4. \A c \in Deliveries : row'[c].status = "none" => row[c].status = "none"
      BY <2>1 DEF TypeOK
    <2>5. \A e \in Events : task[e] = "enqueue" => <<e, saved[e]>> \in Deliveries
      BY DEF LocalInv, Deliveries
    <2>6. LocalInv'
      BY <1>3, <2>4, <2>5 DEF MarkDead, LocalInv, queue, run
    <2> QED BY <2>2, <2>3, <2>6
  <1>4. CASE Notify(d) \/ HandlerFault(d)
    <2>1. TypeOK'
      BY <1>4 DEF Notify, HandlerFault, Fault, TypeOK, queue, run
    <2> QED BY <1>4, <2>1, QuietStep DEF Notify, HandlerFault
  <1> QED BY <1>1, <1>2, <1>3, <1>4 DEF JobStep, HandlerStep

LEMMA StepTypeInv == TypeInv /\ [Next]_vars => TypeInv'
  <1> SUFFICES ASSUME TypeInv, [Next]_vars PROVE TypeInv'
    OBVIOUS
  <1>1. CASE UNCHANGED vars
    <2>1. TypeOK'
      BY <1>1 DEF vars, producer, queue, run, history, TypeInv, TypeOK
    <2> QED BY <1>1, <2>1, QuietStep DEF vars, producer, TypeInv
  <1>2. ASSUME NEW x \in Workers,
               WorkerStep(x) \/ DatabaseFault(x) \/ WorkerDeath(x) \/ LoseLock(x)
        PROVE  TypeInv'
    <2>1. pc[x] # "idle"
      BY <1>2 DEF WorkerStep, LoadDelivery, LoadWebhook, PostAnswered, PostLost, SaveEntity,
           Complete, FailRetry, FailForGood, FailUnheld, DatabaseFault, WorkerDeath, LoseLock
    <2> QED BY <1>2, <2>1, ProcessTypeInv, EndTypeInv DEF WorkerStep
  <1>3. CASE FaultStep
    BY <1>2, <1>3, ProducerTypeInv, QueueTypeInv DEF FaultStep
  <1> QED BY <1>1, <1>2, <1>3, UserTypeInv, ProducerTypeInv, QueueTypeInv DEF Next, Quiescent

\* Rows, jobs, locals and histories keep their shapes, whatever the faults.
THEOREM TypeCorrect == Spec => []TypeOK
  <1>1. TypeInv => TypeOK
    BY DEF TypeInv
  <1> QED BY <1>1, InitTypeInv, StepTypeInv, PTL DEF Spec

-----------------------------------------------------------------------------
(* SUCCESS is what the receiver said, whatever the faults.                 *)

AckInv ==
    /\ SuccessIsAcknowledged
    /\ \A x \in Workers : entity[x].status = "success" =>
                              pc[x] # "idle" /\ current[x] \in acked

LEMMA StepAckInv == TypeInv /\ AckInv /\ [Next]_vars => AckInv'
  <1> SUFFICES ASSUME TypeInv, AckInv, [Next]_vars PROVE AckInv'
    OBVIOUS
  <1> USE DEF TypeInv, AckInv, SuccessIsAcknowledged, producer, history, queue, run, Goto
  <1>1. CASE row' = row /\ run' = run /\ acked' = acked
    BY <1>1
  <1>2. ASSUME NEW e \in Events, NEW w \in Webhooks, SaveDelivery(e, w) PROVE AckInv'
    <2>1. \A d \in Deliveries : row'[d] = row[d] \/ row'[d].status = "pending"
      BY <1>2 DEF SaveDelivery, NewRow, TypeOK
    <2> QED BY <1>2, <2>1 DEF SaveDelivery
  <1>3. ASSUME NEW d \in Deliveries, MarkDead(d) PROVE AckInv'
    <2>1. row[d] \in Rows
      BY DEF TypeOK
    <2>2. \A c \in Deliveries : row'[c] = row[c] \/ row'[c].status = "dead"
      BY <1>3, <2>1 DEF MarkDead, TypeOK, Rows
    <2> QED BY <1>3, <2>2 DEF MarkDead
  <1>4. ASSUME NEW x \in Workers, NEW d \in Deliveries, TakeJob(x, d) PROVE AckInv'
    BY <1>4 DEF TakeJob, TypeOK
  <1>5. ASSUME NEW x \in Workers, pc[x] # "idle", Idle(x), row' = row, acked' = acked
        PROVE  AckInv'
    BY <1>5 DEF Idle, NoRow, TypeOK
  <1>6. ASSUME NEW x \in Workers, WorkerStep(x) \/ DatabaseFault(x) PROVE AckInv'
    <2>0. pc[x] # "idle" /\ current[x] \in Deliveries /\ entity[x] \in Rows
      BY <1>6 DEF LocalInv, TypeOK, WorkerStep, LoadDelivery, LoadWebhook, PostAnswered, PostLost,
           SaveEntity, Complete, FailRetry, FailForGood, FailUnheld, DatabaseFault
    <2>1. CASE LoadDelivery(x)
      BY <2>0, <2>1 DEF LoadDelivery, TypeOK
    <2>2. CASE LoadWebhook(x)
      <3>1. entity'[x].status \in {entity[x].status, "dead"}
        BY <2>0, <2>2 DEF LoadWebhook, TypeOK, Rows
      <3>2. \A y \in Workers \ {x} : pc'[y] = pc[y] /\ entity'[y] = entity[y]
        BY <2>2 DEF LoadWebhook, TypeOK
      <3>3. UNCHANGED <<row, current, acked>>
        BY <2>2 DEF LoadWebhook
      <3>4. pc'[x] # "idle"
        BY <2>2 DEF LoadWebhook, TypeOK
      <3> QED BY <2>0, <3>1, <3>2, <3>3, <3>4
    <2>3. ASSUME NEW ok \in BOOLEAN, PostAnswered(x, ok) PROVE AckInv'
      <3>1. entity'[x].status = IF ok THEN "success" ELSE "failed"
        BY <2>0, <2>3 DEF PostAnswered, TypeOK, Rows
      <3>2. acked \subseteq acked' /\ (ok => current[x] \in acked')
        BY <2>3 DEF PostAnswered
      <3> QED BY <2>0, <2>3, <3>1, <3>2 DEF PostAnswered, TypeOK
    <2>4. CASE PostLost(x)
      <3>1. entity'[x].status \in {entity[x].status, "failed"}
        BY <2>0, <2>4 DEF PostLost, TypeOK, Rows
      <3> QED BY <2>0, <2>4, <3>1 DEF PostLost, TypeOK
    <2>5. CASE SaveEntity(x)
      BY <2>0, <2>5 DEF SaveEntity, TypeOK
    <2>6. CASE DatabaseFault(x)
      BY <2>0, <2>6 DEF DatabaseFault, TypeOK
    <2>7. CASE Complete(x) \/ FailRetry(x) \/ FailForGood(x) \/ FailUnheld(x)
      BY <1>5, <2>0, <2>7 DEF Complete, FailRetry, FailForGood, FailUnheld
    <2> QED BY <1>6, <2>1, <2>2, <2>3, <2>4, <2>5, <2>6, <2>7 DEF WorkerStep
  <1>7. CASE FaultStep
    <2>1. ASSUME NEW x \in Workers, WorkerDeath(x) PROVE AckInv'
      BY <1>5, <2>1 DEF WorkerDeath
    <2>2. ASSUME NEW x \in Workers, LoseLock(x) PROVE AckInv'
      BY <1>1, <2>2 DEF LoseLock
    <2>3. ASSUME NEW e \in Events, ProducerFault(e) PROVE AckInv'
      BY <1>1, <2>3 DEF ProducerFault
    <2>4. ASSUME NEW d \in Deliveries, HandlerFault(d) PROVE AckInv'
      BY <1>1, <2>4 DEF HandlerFault
    <2> QED BY <1>6, <1>7, <2>1, <2>2, <2>3, <2>4 DEF FaultStep
  <1>8. CASE UserStep \/ UNCHANGED vars \/ Quiescent
    BY <1>1, <1>8 DEF UserStep, CreateWebhook, RemoveWebhook, RecordEvent, TestWebhook,
         Quiescent, vars
  <1>9. ASSUME NEW e \in Events, ProducerStep(e) PROVE AckInv'
    BY <1>1, <1>2, <1>9 DEF ProducerStep, FindWebhooks, AddJob, FinishDispatch
  <1>10. ASSUME NEW d \in Deliveries, JobStep(d) \/ HandlerStep(d) PROVE AckInv'
    BY <1>1, <1>3, <1>4, <1>10 DEF JobStep, HandlerStep, Promote, Notify
  <1> QED BY <1>6, <1>7, <1>8, <1>9, <1>10 DEF Next

\* SUCCESS is only ever recorded for a delivery the receiver answered 2xx,
\* however many workers, lost locks, deaths and failed saves there are.
THEOREM Acknowledged == Spec => []SuccessIsAcknowledged
  <1>1. Init => AckInv
    BY DEF Init, AckInv, SuccessIsAcknowledged, NoRow
  <1>2. AckInv => SuccessIsAcknowledged
    BY DEF AckInv
  <1> QED BY <1>1, <1>2, InitTypeInv, StepTypeInv, StepAckInv, PTL DEF Spec

-----------------------------------------------------------------------------
(* While no producer and no onFailed dies and no lock is lost, a delivery  *)
(* that is not finished is in somebody's hands.                            *)

SafeFaults == Faults \cap {"producer", "handler", "lock"} = {}

\* A row without a job is about to get one.
EnqueueInv == \A d \in Deliveries :
    row[d].status # "none" /\ job[d] = "none" => task[d[1]] = "enqueue" /\ saved[d[1]] = d[2]

\* A busy worker holds its job, and ends it only when the row is final.
HoldInv == \A x \in Workers :
    /\ pc[x] # "idle" => Holds(x)
    /\ pc[x] = "save" => entity[x].status # "pending"
    /\ pc[x] = "complete" => row[current[x]].status \notin Open

\* A job that is over left a final row, or a handler that will make it so, or
\* BullMQ abandoned it.
OverInv == \A d \in Deliveries :
    /\ job[d] = "completed" => row[d].status \notin Open
    /\ job[d] = "failed" =>
          handler[d] = "update" \/ row[d].status \notin Open \/ Abandoned(d)
    /\ handler[d] = "update" => job[d] = "failed"

DrivenInv == EnqueueInv /\ HoldInv /\ OverInv

LEMMA DrivenInvImplies == TypeInv /\ DrivenInv => OpenDeliveriesAreDriven
  BY DEF TypeInv, TypeOK, DrivenInv, EnqueueInv, OverInv, OpenDeliveriesAreDriven, Driven, Open

\* Two workers are never busy with the same delivery.
LEMMA Exclusive ==
    ASSUME HoldInv, NEW x \in Workers, NEW y \in Workers, pc[x] # "idle", pc[y] # "idle",
           current[x] = current[y]
    PROVE  x = y
  BY DEF HoldInv, Holds

LEMMA ProducerDrivenInv ==
    ASSUME SafeFaults, TypeInv, DrivenInv, NEW e \in Events, ProducerStep(e) PROVE DrivenInv'
  <1> USE DEF TypeInv, DrivenInv, Abandoned, queue, run
  <1>d. \A d \in Deliveries : d = <<d[1], d[2]>> /\ d[1] \in Events /\ d[2] \in Webhooks
    BY DEF Deliveries
  <1>1. CASE FindWebhooks(e) \/ FinishDispatch(e)
    <2>1. EnqueueInv'
      BY <1>1, <1>d DEF FindWebhooks, FinishDispatch, EnqueueInv, TypeOK
    <2>2. HoldInv' /\ OverInv'
      BY <1>1 DEF FindWebhooks, FinishDispatch, HoldInv, OverInv, Holds
    <2> QED BY <2>1, <2>2
  <1>2. ASSUME NEW w \in Webhooks, SaveDelivery(e, w) PROVE DrivenInv'
    <2>1. /\ <<e, w>> \in Deliveries /\ row[<<e, w>>].status = "none" /\ job[<<e, w>>] = "none"
      BY <1>2 DEF SaveDelivery, Unvisited, LocalInv, Deliveries
    <2>2. EnqueueInv'
      BY <1>2, <1>d, <2>1 DEF SaveDelivery, EnqueueInv, TypeOK
    <2>3. \A x \in Workers : pc[x] # "idle" => current[x] # <<e, w>>
      BY <2>1 DEF HoldInv, Holds, JobInv, LocalInv
    <2>4. HoldInv'
      BY <1>2, <2>1, <2>3 DEF SaveDelivery, HoldInv, Holds, TypeOK
    <2>5. OverInv'
      BY <1>2, <2>1 DEF SaveDelivery, OverInv, TypeOK
    <2> QED BY <2>2, <2>4, <2>5
  <1>3. CASE AddJob(e)
    <2>1. <<e, saved[e]>> \in Deliveries /\ job[<<e, saved[e]>>] = "none"
      BY <1>3 DEF AddJob, LocalInv, Deliveries
    <2>2. EnqueueInv'
      BY <1>3, <1>d, <2>1 DEF AddJob, EnqueueInv, TypeOK
    <2>3. HoldInv'
      BY <1>3 DEF AddJob, HoldInv, Holds
    <2>4. OverInv'
      BY <1>3, <2>1 DEF AddJob, OverInv, TypeOK
    <2> QED BY <2>2, <2>3, <2>4
  <1> QED BY <1>1, <1>2, <1>3 DEF ProducerStep

LEMMA ProcessDrivenInv ==
    ASSUME SafeFaults, TypeInv, DrivenInv, NEW x \in Workers, pc[x] # "idle",
           \/ LoadDelivery(x) \/ LoadWebhook(x) \/ PostLost(x) \/ SaveEntity(x)
           \/ \E ok \in BOOLEAN : PostAnswered(x, ok)
           \/ DatabaseFault(x)
    PROVE  DrivenInv'
  <1> USE DEF TypeInv, DrivenInv, Abandoned, queue, producer, history
  <1>0. /\ current[x] \in Deliveries /\ entity[x] \in Rows
        /\ job[current[x]] = "active"
    BY DEF LocalInv, TypeOK, HoldInv, Holds, JobInv
  <1>t. ASSUME NEW step, Goto(x, step)
        PROVE  pc'[x] = step /\ \A y \in Workers \ {x} : pc'[y] = pc[y]
    BY <1>t DEF Goto, TypeOK
  <1>e. ASSUME NEW e, entity' = [entity EXCEPT ![x] = e]
        PROVE  entity'[x] = e /\ \A y \in Workers \ {x} : entity'[y] = entity[y]
    BY <1>e DEF TypeOK
  <1>1. ASSUME row' = row, queue' = queue, current' = current, handler' = handler,
               task' = task, saved' = saved,
               \A y \in Workers \ {x} : pc'[y] = pc[y] /\ entity'[y] = entity[y],
               pc'[x] = "save" => entity'[x].status # "pending",
               pc'[x] = "complete" => row[current[x]].status \notin Open
        PROVE  DrivenInv'
    <2>1. EnqueueInv' /\ OverInv'
      BY <1>1 DEF EnqueueInv, OverInv
    <2>2. HoldInv'
      BY <1>1 DEF HoldInv, Holds
    <2> QED BY <2>1, <2>2
  <1>2. CASE LoadDelivery(x)
    <2>1. /\ pc'[x] = IF row[current[x]].status \in {"none", "success"} THEN "complete" ELSE "lookup"
          /\ \A y \in Workers \ {x} : pc'[y] = pc[y] /\ entity'[y] = entity[y]
      BY <1>t, <1>e, <1>2 DEF LoadDelivery
    <2> QED BY <1>1, <1>2, <2>1 DEF LoadDelivery, Open
  <1>3. CASE LoadWebhook(x)
    <2> DEFINE r == [entity[x] EXCEPT !.attempts = @ + 1]
               s == [entity[x] EXCEPT !.status = "dead"]
    <2>1. \/ Goto(x, "post") /\ entity' = [entity EXCEPT ![x] = r]
          \/ Goto(x, "save") /\ entity' = [entity EXCEPT ![x] = s]
      BY <1>3 DEF LoadWebhook
    <2>2. s.status = "dead"
      BY <1>0 DEF Rows
    <2> HIDE DEF r, s
    <2>3. /\ (pc'[x] = "post" \/ (pc'[x] = "save" /\ entity'[x].status = "dead"))
          /\ \A y \in Workers \ {x} : pc'[y] = pc[y] /\ entity'[y] = entity[y]
      BY <1>t, <1>e, <2>1, <2>2
    <2> QED BY <1>1, <1>3, <2>3 DEF LoadWebhook
  <1>4. ASSUME NEW ok \in BOOLEAN, PostAnswered(x, ok) PROVE DrivenInv'
    <2> DEFINE r == [entity[x] EXCEPT !.response = IF ok THEN "2xx" ELSE "error",
                                      !.status = IF ok THEN "success" ELSE "failed"]
    <2>1. Goto(x, "save") /\ entity' = [entity EXCEPT ![x] = r]
      BY <1>4 DEF PostAnswered
    <2>2. r.status # "pending"
      BY <1>0 DEF Rows
    <2> HIDE DEF r
    <2>3. /\ pc'[x] = "save" /\ entity'[x].status # "pending"
          /\ \A y \in Workers \ {x} : pc'[y] = pc[y] /\ entity'[y] = entity[y]
      BY <1>t, <1>e, <2>1, <2>2
    <2> QED BY <1>1, <1>4, <2>3 DEF PostAnswered
  <1>5. CASE PostLost(x)
    <2> DEFINE r == [entity[x] EXCEPT !.status = "failed"]
    <2>1. \/ Goto(x, "fail") /\ entity' = entity
          \/ Goto(x, "save") /\ entity' = [entity EXCEPT ![x] = r]
      BY <1>5 DEF PostLost
    <2>2. r.status = "failed"
      BY <1>0 DEF Rows
    <2> HIDE DEF r
    <2>3. /\ (pc'[x] = "fail" \/ (pc'[x] = "save" /\ entity'[x].status = "failed"))
          /\ \A y \in Workers \ {x} : pc'[y] = pc[y] /\ entity'[y] = entity[y]
      BY <1>t, <1>e, <2>1, <2>2
    <2> QED BY <1>1, <1>5, <2>3 DEF PostLost
  <1>6. ASSUME row' = [row EXCEPT ![current[x]] = entity[x]], pc[x] = "save",
               UNCHANGED <<task, saved, handler, queue, current, entity>>,
               \A y \in Workers \ {x} : pc'[y] = pc[y],
               (pc'[x] = "fail" \/ (pc'[x] = "complete" /\ entity[x].status # "failed"))
        PROVE  DrivenInv'
    <2>1. \A d \in Deliveries : row'[d] = IF d = current[x] THEN entity[x] ELSE row[d]
      BY <1>0, <1>6 DEF TypeOK
    <2>2. EnqueueInv' /\ OverInv'
      BY <1>0, <1>6, <2>1 DEF EnqueueInv, OverInv
    <2>3. \A y \in Workers \ {x} : pc[y] # "idle" => current[y] # current[x]
      BY Exclusive
    <2>4. entity[x].status # "pending"
      BY <1>6 DEF HoldInv
    <2>5. \A y \in Workers : pc'[y] # "idle" => holder'[current'[y]] = y
      BY <1>6 DEF HoldInv, Holds
    <2>6. \A y \in Workers : pc'[y] = "save" => entity'[y].status # "pending"
      BY <1>6 DEF HoldInv
    <2>7. pc'[x] = "complete" => row'[current[x]].status \notin Open
      BY <1>0, <1>6, <2>1, <2>4 DEF Open
    <2>8. \A y \in Workers \ {x} : pc'[y] = "complete" => row'[current[y]].status \notin Open
      BY <1>6, <2>1, <2>3 DEF HoldInv, LocalInv
    <2>9. HoldInv'
      BY <1>6, <2>5, <2>6, <2>7, <2>8 DEF HoldInv, Holds
    <2> QED BY <2>2, <2>9
  <1>7. CASE SaveEntity(x)
    <2>1. /\ \A y \in Workers \ {x} : pc'[y] = pc[y]
          /\ (pc'[x] = "fail" \/ (pc'[x] = "complete" /\ entity[x].status # "failed"))
      BY <1>t, <1>7 DEF SaveEntity
    <2> QED BY <1>6, <1>7, <2>1 DEF SaveEntity
  <1>8. CASE DatabaseFault(x)
    <2>1. pc'[x] = "fail" /\ \A y \in Workers \ {x} : pc'[y] = pc[y]
      BY <1>t, <1>8 DEF DatabaseFault
    <2>2. CASE row' = row
      BY <1>1, <1>8, <2>1, <2>2 DEF DatabaseFault
    <2>3. CASE row' # row
      <3>1. pc[x] = "save" /\ row' = [row EXCEPT ![current[x]] = entity[x]]
        BY <1>8, <2>3 DEF DatabaseFault
      <3>2. UNCHANGED <<task, saved, handler, queue, current, entity>>
        BY <1>8 DEF DatabaseFault
      <3> QED BY <1>6, <2>1, <3>1, <3>2
    <2> QED BY <2>2, <2>3
  <1> QED BY <1>2, <1>3, <1>4, <1>5, <1>7, <1>8

\* A worker that ends its run gives the job away, to state s.
LEMMA EndHoldInv ==
    ASSUME TypeOK, HoldInv, NEW x \in Workers, pc[x] # "idle", current[x] \in Deliveries,
           NEW s, Idle(x), Release(current[x], s), row' = row
    PROVE  /\ HoldInv'
           /\ \A d \in Deliveries : job'[d] = IF d = current[x] THEN s ELSE job[d]
  <1>1. \A y \in Workers \ {x} : pc'[y] = pc[y] /\ current'[y] = current[y] /\ entity'[y] = entity[y]
    BY DEF Idle, Goto, TypeOK
  <1>2. pc'[x] = "idle"
    BY DEF Idle, Goto, TypeOK
  <1>3. \A y \in Workers \ {x} : pc[y] # "idle" => current[y] # current[x]
    BY Exclusive
  <1>4. \A d \in Deliveries : d # current[x] => holder'[d] = holder[d]
    BY DEF Release, TypeOK
  <1>5. \A y \in Workers : pc[y] # "idle" => current[y] \in Deliveries \cup {None}
    BY DEF TypeOK
  <1>6. \A y \in Workers \ {x} : pc[y] # "idle" => holder'[current[y]] = holder[current[y]]
    BY <1>3 DEF Release
  <1>7. HoldInv'
    BY <1>1, <1>2, <1>6 DEF HoldInv, Holds
  <1>8. \A d \in Deliveries : job'[d] = IF d = current[x] THEN s ELSE job[d]
    BY DEF Release, TypeOK
  <1> QED BY <1>7, <1>8

LEMMA EndDrivenInv ==
    ASSUME SafeFaults, TypeInv, DrivenInv, NEW x \in Workers, pc[x] # "idle",
           \/ Complete(x) \/ FailRetry(x) \/ FailForGood(x) \/ FailUnheld(x)
           \/ WorkerDeath(x) \/ LoseLock(x)
    PROVE  DrivenInv'
  <1> USE DEF TypeInv, DrivenInv, Abandoned, queue, producer, history
  <1>0. current[x] \in Deliveries /\ Holds(x) /\ job[current[x]] = "active"
    BY DEF LocalInv, HoldInv, Holds, JobInv
  <1>1. CASE Complete(x)
    <2>1. HoldInv' /\ \A d \in Deliveries : job'[d] = IF d = current[x] THEN "completed" ELSE job[d]
      BY <1>0, <1>1, EndHoldInv DEF Complete
    <2>2. row[current[x]].status \notin Open
      BY <1>1 DEF Complete, HoldInv
    <2>3. EnqueueInv' /\ OverInv'
      BY <1>0, <1>1, <2>1, <2>2 DEF Complete, EnqueueInv, OverInv
    <2> QED BY <2>1, <2>3
  <1>2. CASE FailRetry(x)
    <2>1. HoldInv' /\ \A d \in Deliveries : job'[d] = IF d = current[x] THEN "delayed" ELSE job[d]
      BY <1>0, <1>2, EndHoldInv DEF FailRetry
    <2>2. \A d \in Deliveries \ {current[x]} : attemptsMade'[d] = attemptsMade[d]
      BY <1>0, <1>2 DEF FailRetry, TypeOK
    <2>3. UNCHANGED <<row, task, saved, handler, stalls>>
      BY <1>2 DEF FailRetry
    <2>4. EnqueueInv' /\ OverInv'
      BY <1>0, <2>1, <2>2, <2>3 DEF EnqueueInv, OverInv
    <2> QED BY <2>1, <2>4
  <1>5. CASE WorkerDeath(x)
    <2>1. /\ Idle(x) /\ Stall(current[x]) /\ attemptsMade[current[x]] < MaxAttempts
          /\ UNCHANGED <<row, task, saved>>
      BY <1>0, <1>5 DEF WorkerDeath, JobInv
    <2>2. PICK s \in {"waiting", "failed"} : Release(current[x], s)
      BY <1>0, <2>1, StallFrame
    <2>3. HoldInv' /\ \A d \in Deliveries : job'[d] = IF d = current[x] THEN s ELSE job[d]
      BY <1>0, <2>1, <2>2, EndHoldInv
    <2>4. /\ \A c \in Deliveries \ {current[x]} :
                /\ handler'[c] = handler[c] /\ stalls'[c] = stalls[c]
                /\ attemptsMade'[c] = attemptsMade[c] /\ job'[c] = job[c]
          /\ \/ /\ job'[current[x]] = "waiting" /\ handler'[current[x]] = handler[current[x]]
             \/ /\ job'[current[x]] = "failed" /\ stalls'[current[x]] > MaxStalls
                /\ \/ handler'[current[x]] = "update"
                   \/ attemptsMade'[current[x]] < MaxAttempts /\ handler'[current[x]] = "logged"
      BY <1>0, <2>1, StallTouches
    <2>5. EnqueueInv'
      BY <1>0, <2>1, <2>3, <2>4 DEF EnqueueInv
    <2>6. OverInv'
      BY <1>0, <2>1, <2>4 DEF OverInv
    <2> QED BY <2>3, <2>5, <2>6
  <1>3. CASE FailForGood(x)
    <2>1. HoldInv' /\ \A d \in Deliveries : job'[d] = IF d = current[x] THEN "failed" ELSE job[d]
      BY <1>0, <1>3, EndHoldInv DEF FailForGood
    <2>2. \A d \in Deliveries : handler'[d] = IF d = current[x] THEN "update" ELSE handler[d]
      BY <1>0, <1>3 DEF FailForGood, TypeOK
    <2>4. \A d \in Deliveries \ {current[x]} : attemptsMade'[d] = attemptsMade[d]
      BY <1>0, <1>3 DEF FailForGood, TypeOK
    <2>3. EnqueueInv' /\ OverInv'
      BY <1>0, <1>3, <2>1, <2>2, <2>4 DEF FailForGood, EnqueueInv, OverInv
    <2> QED BY <2>1, <2>3
  <1>4. ~ FailUnheld(x) /\ ~ LoseLock(x)
    BY <1>0 DEF FailUnheld, LoseLock, Fault, SafeFaults
  <1> QED BY <1>1, <1>2, <1>3, <1>4, <1>5

LEMMA QueueDrivenInv ==
    ASSUME SafeFaults, TypeInv, DrivenInv, NEW d \in Deliveries, JobStep(d) \/ HandlerStep(d)
    PROVE  DrivenInv'
  <1> USE DEF TypeInv, DrivenInv, Abandoned, producer, history, run, queue
  <1>1. CASE Promote(d)
    <2>1. EnqueueInv' /\ OverInv'
      BY <1>1 DEF Promote, EnqueueInv, OverInv, TypeOK
    <2>2. HoldInv'
      BY <1>1 DEF Promote, HoldInv, Holds
    <2> QED BY <2>1, <2>2
  <1>2. ASSUME NEW x \in Workers, TakeJob(x, d) PROVE DrivenInv'
    <2>1. EnqueueInv' /\ OverInv'
      BY <1>2 DEF TakeJob, EnqueueInv, OverInv, TypeOK
    <2>2. \A y \in Workers : pc[y] # "idle" => current[y] # d
      BY <1>2 DEF TakeJob, HoldInv, Holds, JobInv, TypeOK
    <2>3. /\ pc'[x] = "load" /\ current'[x] = d
          /\ \A y \in Workers \ {x} : pc'[y] = pc[y] /\ current'[y] = current[y]
      BY <1>2 DEF TakeJob, Goto, TypeOK
    <2>4. holder'[d] = x
      BY <1>2 DEF TakeJob, TypeOK
    <2>5. \A y \in Workers : pc[y] # "idle" => holder'[current[y]] = holder[current[y]]
      BY <1>2, <2>2 DEF TakeJob
    <2>6. HoldInv'
      BY <1>2, <2>3, <2>4, <2>5 DEF TakeJob, HoldInv, Holds
    <2> QED BY <2>1, <2>6
  <1>3. CASE MarkDead(d)
    <2>1. \A c \in Deliveries : /\ row'[c].status = IF c = d THEN "dead" ELSE row[c].status
                                /\ handler'[c] = IF c = d THEN "notify" ELSE handler[c]
      BY <1>3 DEF MarkDead, TypeOK, Rows
    <2>2. EnqueueInv' /\ OverInv'
      BY <1>3, <2>1 DEF MarkDead, EnqueueInv, OverInv, Open
    <2>3. \A x \in Workers : pc[x] # "idle" => current[x] \in Deliveries
      BY DEF LocalInv
    <2>4. HoldInv'
      BY <1>3, <2>1, <2>3 DEF MarkDead, HoldInv, Holds, Open
    <2> QED BY <2>2, <2>4
  <1>4. CASE Notify(d)
    <2>1. \A c \in Deliveries : handler'[c] = "update" <=> handler[c] = "update"
      BY <1>4 DEF Notify, TypeOK
    <2> QED BY <1>4, <2>1 DEF Notify, EnqueueInv, OverInv, HoldInv, Holds
  <1> QED BY <1>1, <1>2, <1>3, <1>4 DEF JobStep, HandlerStep

LEMMA UserDrivenInv ==
    ASSUME TypeInv, DrivenInv, UserStep \/ UNCHANGED vars PROVE DrivenInv'
  <1> USE DEF TypeInv, DrivenInv, Abandoned, producer, history, run, queue
  <1>1. UNCHANGED <<row, job, attemptsMade, stalls, holder, pc, current, entity, handler, saved>>
    BY DEF UserStep, CreateWebhook, RemoveWebhook, RecordEvent, TestWebhook, vars
  <1>2. \A e \in Events : task[e] = "enqueue" => task'[e] = "enqueue"
    BY DEF UserStep, CreateWebhook, RemoveWebhook, RecordEvent, TestWebhook, vars, TypeOK
  <1>3. EnqueueInv'
    BY <1>1, <1>2 DEF EnqueueInv, Deliveries
  <1>4. HoldInv' /\ OverInv'
    BY <1>1 DEF HoldInv, OverInv, Holds
  <1> QED BY <1>3, <1>4

LEMMA StepDrivenInv ==
    ASSUME SafeFaults, TypeInv, DrivenInv, [Next]_vars PROVE DrivenInv'
  <1>1. ASSUME NEW x \in Workers,
               WorkerStep(x) \/ DatabaseFault(x) \/ WorkerDeath(x) \/ LoseLock(x)
        PROVE  DrivenInv'
    <2>1. pc[x] # "idle"
      BY <1>1 DEF WorkerStep, LoadDelivery, LoadWebhook, PostAnswered, PostLost, SaveEntity,
           Complete, FailRetry, FailForGood, FailUnheld, DatabaseFault, WorkerDeath, LoseLock
    <2> QED BY <1>1, <2>1, ProcessDrivenInv, EndDrivenInv DEF WorkerStep
  <1>2. CASE FaultStep
    <2>1. \A e \in Events : ~ ProducerFault(e)
      BY DEF ProducerFault, Fault, SafeFaults
    <2>2. \A d \in Deliveries : ~ HandlerFault(d)
      BY DEF HandlerFault, Fault, SafeFaults
    <2> QED BY <1>1, <1>2, <2>1, <2>2 DEF FaultStep
  <1> QED BY <1>1, <1>2, ProducerDrivenInv, QueueDrivenInv, UserDrivenInv DEF Next, Quiescent

\* If dispatchEvent and onFailed run to their ends and no worker loses its
\* lock, every delivery said to be pending or to have retries left is in
\* somebody's hands, whichever awaits in process() throw and whichever workers
\* die, until more of them have died over its job than BullMQ allows.
THEOREM OpenDriven == SafeFaults /\ Spec => []OpenDeliveriesAreDriven
  <1>1. Init => DrivenInv
    BY DEF Init, DrivenInv, EnqueueInv, HoldInv, OverInv, NoRow
  <1>2. Faults \cap {"producer", "handler", "lock"} = {} =>
            (Init /\ [][Next]_vars => []OpenDeliveriesAreDriven)
    <2> SUFFICES ASSUME Faults \cap {"producer", "handler", "lock"} = {}
                 PROVE  Init /\ [][Next]_vars => []OpenDeliveriesAreDriven
      OBVIOUS
    <2>1. TypeInv /\ DrivenInv /\ [Next]_vars => DrivenInv'
      BY StepDrivenInv DEF SafeFaults
    <2> QED BY <1>1, <2>1, InitTypeInv, StepTypeInv, DrivenInvImplies, PTL
  <1> QED BY <1>2, PTL DEF SafeFaults, Spec

-----------------------------------------------------------------------------
(* What the steps of one worker leave alone.                               *)

WorkerMoves(x) == WorkerStep(x) \/ DatabaseFault(x) \/ WorkerDeath(x) \/ LoseLock(x)

\* It goes on with its delivery, or it is done with it.
Walks(x) == \/ LoadDelivery(x) \/ LoadWebhook(x) \/ PostLost(x) \/ SaveEntity(x) \/ DatabaseFault(x)
            \/ \E ok \in BOOLEAN : PostAnswered(x, ok)
Ends(x) == Complete(x) \/ FailRetry(x) \/ FailForGood(x) \/ FailUnheld(x) \/ WorkerDeath(x)

\* It loses its hold on the job, which stalls.
Stalls(x) == (WorkerDeath(x) \/ LoseLock(x)) /\ Holds(x)

LEMMA WorkerKinds ==
    ASSUME NEW x \in Workers, WorkerMoves(x)
    PROVE  Walks(x) \/ (Ends(x) /\ ~ Stalls(x)) \/ Stalls(x)
  BY DEF WorkerMoves, WorkerStep, Walks, Ends, Stalls, LoseLock

LEMMA WalkFrame ==
    ASSUME TypeInv, NEW x \in Workers, Walks(x)
    PROVE  /\ pc[x] # "idle" /\ UNCHANGED <<producer, queue, current, handler, notified>>
           /\ \A y \in Workers \ {x} : pc'[y] = pc[y] /\ entity'[y] = entity[y]
           /\ row' = row \/ (pc[x] = "save" /\ row' = [row EXCEPT ![current[x]] = entity[x]])
           /\ posts' = posts \/ (pc[x] = "post" /\ posts' = [posts EXCEPT ![current[x]] = @ + 1])
           /\ acked \subseteq acked' /\ faults' \in {faults, faults + 1}
  <1> USE DEF TypeInv, TypeOK, Goto, history
  <1>1. CASE LoadDelivery(x)
    BY <1>1 DEF LoadDelivery
  <1>2. CASE LoadWebhook(x)
    BY <1>2 DEF LoadWebhook
  <1>3. CASE PostLost(x)
    BY <1>3 DEF PostLost
  <1>4. CASE SaveEntity(x)
    BY <1>4 DEF SaveEntity
  <1>5. CASE DatabaseFault(x)
    BY <1>5 DEF DatabaseFault, Fault
  <1>6. ASSUME NEW ok \in BOOLEAN, PostAnswered(x, ok)
        PROVE  /\ pc[x] = "post" /\ UNCHANGED <<producer, row, queue, current, handler, notified, faults>>
               /\ \A y \in Workers \ {x} : pc'[y] = pc[y] /\ entity'[y] = entity[y]
               /\ posts' = [posts EXCEPT ![current[x]] = @ + 1] /\ acked \subseteq acked'
    BY <1>6 DEF PostAnswered
  <1> QED BY <1>1, <1>2, <1>3, <1>4, <1>5, <1>6 DEF Walks

LEMMA EndFrame ==
    ASSUME NEW x \in Workers, Ends(x), ~ Stalls(x)
    PROVE  /\ pc[x] # "idle" /\ Idle(x) /\ UNCHANGED <<producer, row, history>>
           /\ \/ UNCHANGED <<job, holder>>
              \/ /\ Holds(x)
                 /\ \E s \in {"completed", "delayed", "failed", "waiting"} : Release(current[x], s)
           /\ \/ UNCHANGED <<attemptsMade, handler>>
              \/ /\ Holds(x)
                 /\ attemptsMade' = [attemptsMade EXCEPT ![current[x]] = @ + 1]
                 /\ \/ UNCHANGED handler
                    \/ /\ attemptsMade[current[x]] + 1 >= MaxAttempts
                       /\ handler' = [handler EXCEPT ![current[x]] = "update"]
           /\ UNCHANGED stalls
           /\ faults' \in {faults, faults + 1}
  <1>1. CASE Complete(x)
    BY <1>1 DEF Complete
  <1>2. CASE FailRetry(x)
    BY <1>2 DEF FailRetry
  <1>3. CASE FailForGood(x)
    BY <1>3 DEF FailForGood
  <1>4. CASE FailUnheld(x)
    BY <1>4 DEF FailUnheld, queue
  <1>5. CASE WorkerDeath(x)
    BY <1>5 DEF WorkerDeath, Fault, Stalls, queue
  <1> QED BY <1>1, <1>2, <1>3, <1>4, <1>5 DEF Ends

LEMMA StallsFrame ==
    ASSUME TypeInv, NEW x \in Workers, Stalls(x)
    PROVE  /\ pc[x] # "idle" /\ current[x] \in Deliveries
           /\ job[current[x]] = "active" /\ attemptsMade[current[x]] < MaxAttempts
           /\ Stall(current[x]) /\ UNCHANGED <<producer, row, history>>
           /\ Idle(x) \/ UNCHANGED run
           /\ faults' = faults + 1
  BY DEF TypeInv, LocalInv, JobInv, Holds, Stalls, WorkerDeath, LoseLock, Fault

\* The other workers and the other deliveries.
LEMMA WorkerFrame ==
    ASSUME TypeInv, NEW x \in Workers, WorkerMoves(x)
    PROVE  /\ pc[x] # "idle" /\ current[x] \in Deliveries /\ entity[x] \in Rows
           /\ UNCHANGED <<producer, notified>>
           /\ \A y \in Workers \ {x} : pc'[y] = pc[y] /\ current'[y] = current[y] /\ entity'[y] = entity[y]
           /\ pc'[x] = "idle" \/ current'[x] = current[x]
           /\ \A d \in Deliveries \ {current[x]} :
                 /\ row'[d] = row[d] /\ posts'[d] = posts[d] /\ handler'[d] = handler[d]
                 /\ job'[d] = job[d] /\ attemptsMade'[d] = attemptsMade[d]
                 /\ stalls'[d] = stalls[d] /\ holder'[d] = holder[d]
           /\ acked \subseteq acked' /\ faults' \in {faults, faults + 1}
  <1> USE DEF TypeInv, TypeOK, LocalInv, queue, history
  <1>1. CASE Walks(x)
    BY <1>1, WalkFrame
  <1>2. CASE Ends(x) /\ ~ Stalls(x)
    BY <1>2, EndFrame DEF Idle, Goto, Release
  <1>3. CASE Stalls(x)
    BY <1>3, StallsFrame, StallTouches DEF Idle, Goto, run
  <1> QED BY <1>1, <1>2, <1>3, WorkerKinds

\* The delivery itself.
LEMMA WorkerTouches ==
    ASSUME TypeInv, NEW x \in Workers, NEW d \in Deliveries, current[x] = d, WorkerMoves(x)
    PROVE  /\ row'[d] = row[d] \/ (pc[x] = "save" /\ row'[d] = entity[x])
           /\ job'[d] = job[d] \/ (job[d] = "active" /\ job'[d] # "none")
           /\ attemptsMade'[d] \in {attemptsMade[d], attemptsMade[d] + 1}
           /\ \/ handler'[d] = handler[d]
              \/ handler'[d] = "update" /\ attemptsMade'[d] = MaxAttempts
              \/ handler'[d] = "logged" /\ job'[d] = "failed" /\ Abandoned(d)'
           /\ posts'[d] = posts[d] \/ (pc[x] = "post" /\ posts'[d] = posts[d] + 1)
  <1>0. /\ holder[d] = x => job[d] = "active" /\ attemptsMade[d] < MaxAttempts
        /\ attemptsMade[d] \in Nat
    BY DEF TypeInv, JobInv, TypeOK
  <1> USE DEF TypeInv, TypeOK, queue, history
  <1>1. CASE Walks(x)
    BY <1>1, WalkFrame
  <1>2. CASE Ends(x) /\ ~ Stalls(x)
    <2>1. row'[d] = row[d] /\ posts'[d] = posts[d]
      BY <1>2, EndFrame
    <2>2. job'[d] = job[d] \/ (job[d] = "active" /\ job'[d] # "none")
      BY <1>0, <1>2, EndFrame DEF Release, Holds
    <2>3. CASE UNCHANGED <<attemptsMade, handler>>
      BY <1>0, <2>1, <2>2, <2>3
    <2>4. CASE ~ UNCHANGED <<attemptsMade, handler>>
      <3>1. /\ holder[d] = x /\ attemptsMade' = [attemptsMade EXCEPT ![d] = @ + 1]
            /\ \/ UNCHANGED handler
               \/ attemptsMade[d] + 1 >= MaxAttempts /\ handler' = [handler EXCEPT ![d] = "update"]
        BY <1>2, <2>4, EndFrame DEF Holds
      <3>2. attemptsMade'[d] = attemptsMade[d] + 1 /\ attemptsMade[d] < MaxAttempts
        BY <1>0, <3>1
      <3>3. handler'[d] = handler[d] \/ (handler'[d] = "update" /\ attemptsMade'[d] = MaxAttempts)
        <4>1. attemptsMade[d] + 1 >= MaxAttempts => attemptsMade'[d] = MaxAttempts
          BY <1>0, <3>2
        <4>2. handler'[d] = handler[d] \/ (handler'[d] = "update" /\ attemptsMade[d] + 1 >= MaxAttempts)
          BY <3>1
        <4> QED BY <4>1, <4>2
      <3> QED BY <2>1, <2>2, <3>2, <3>3
    <2> QED BY <2>3, <2>4
  <1>3. CASE Stalls(x)
    <2>1. Stall(d) /\ job[d] = "active" /\ attemptsMade[d] < MaxAttempts
      BY <1>3, StallsFrame
    <2>2. row'[d] = row[d] /\ posts'[d] = posts[d]
      BY <1>3, StallsFrame
    <2> QED BY <1>0, <2>1, <2>2, StallTouches DEF Abandoned
  <1> QED BY <1>1, <1>2, <1>3, WorkerKinds

\* What a worker has of the row: it loads it, changes it, or keeps it.
LEMMA WorkerEntity ==
    ASSUME TypeInv, NEW x \in Workers, WorkerMoves(x), pc'[x] # "idle"
    PROVE  \/ entity'[x] = entity[x] /\ (Loaded(x)' => Loaded(x))
           \/ pc[x] = "load" /\ entity'[x] = row[current[x]]
           \/ pc[x] = "lookup" /\ entity'[x].status = entity[x].status
           \/ /\ pc[x] = "lookup" /\ entity'[x].status = "dead"
              /\ hooks[current[x][2]] # "active"
           \/ pc[x] = "post" /\ entity'[x].status \in {"success", "failed"}
  <1> USE DEF TypeInv, WorkerMoves, WorkerStep
  <1>0. entity[x] \in Rows
    BY DEF TypeOK
  <1>1. CASE LoadDelivery(x)
    BY <1>1 DEF LoadDelivery, TypeOK
  <1>2. CASE LoadWebhook(x)
    BY <1>0, <1>2 DEF LoadWebhook, TypeOK, Rows
  <1>3. ASSUME NEW ok \in BOOLEAN, PostAnswered(x, ok)
        PROVE  pc[x] = "post" /\ entity'[x].status \in {"success", "failed"}
    BY <1>0, <1>3 DEF PostAnswered, TypeOK, Rows
  <1>4. CASE PostLost(x)
    BY <1>0, <1>4 DEF PostLost, Goto, TypeOK, Rows
  <1>5. CASE SaveEntity(x) \/ DatabaseFault(x) \/ LoseLock(x)
    BY <1>5 DEF SaveEntity, DatabaseFault, LoseLock, Goto, TypeOK, run
  <1>6. CASE Idle(x)
    BY <1>6 DEF Idle, Goto, TypeOK
  <1> QED BY <1>1, <1>2, <1>3, <1>4, <1>5, <1>6
       DEF Complete, FailRetry, FailForGood, FailUnheld, WorkerDeath

-----------------------------------------------------------------------------
(* The loop of dispatchEvent, whatever the faults.                         *)

\* A call has the webhooks of its organization, and rows for these only.
FanOf(e) ==
    /\ task[e] \in {"idle", "recorded"} => matching[e] = {}
    /\ \A w \in Webhooks :
          /\ w \in matching[e] => HookOrg[w] = EventOrg[e] /\ hooks[w] # "new"
          /\ row[<<e, w>>].status # "none" => w \in matching[e]
          /\ row[<<e, w>>].status # "none" /\ job[<<e, w>>] = "none" =>
                (task[e] = "enqueue" /\ saved[e] = w) \/ task[e] = "failed"
          /\ w \in matching[e] /\ task[e] = "done" => row[<<e, w>>].status # "none"

\* Who works on a delivery works on one that has a row.
BusyInv ==
    /\ \A x \in Workers : pc[x] # "idle" => row[current[x]].status # "none"
    /\ \A d \in Deliveries : handler[d] = "update" => row[d].status # "none"

FanInv == BusyInv /\ \A e \in Events : FanOf(e)

LEMMA FanInvImplies == TypeInv /\ FanInv => FanOutComplete
  <1> SUFFICES ASSUME TypeInv, FanInv, NEW e \in Events, NEW w \in Webhooks
               PROVE  /\ w \in matching[e] => HookOrg[w] = EventOrg[e]
                      /\ task[e] = "done" => (job[<<e, w>>] # "none" <=> w \in matching[e])
    BY DEF FanOutComplete
  <1>1. FanOf(e) /\ <<e, w>> \in Deliveries
    BY DEF FanInv, Deliveries
  <1>2. row[<<e, w>>].status = "none" => job[<<e, w>>] = "none"
    BY <1>1 DEF TypeInv, LocalInv
  <1> QED BY <1>1, <1>2 DEF FanOf

\* A step that leaves the calls alone, takes no row away and makes no job.
LEMMA FanFrame ==
    ASSUME FanInv, UNCHANGED producer,
           \A d \in Deliveries : /\ row'[d].status = "none" <=> row[d].status = "none"
                                 /\ job'[d] = "none" <=> job[d] = "none"
    PROVE  \A e \in Events : FanOf(e)'
  <1> SUFFICES ASSUME NEW e \in Events PROVE FanOf(e)'
    OBVIOUS
  <1>1. FanOf(e)
    BY DEF FanInv
  <1>2. \A w \in Webhooks : <<e, w>> \in Deliveries
    BY DEF Deliveries
  <1> QED BY <1>1, <1>2 DEF FanOf, producer

LEMMA WorkerFanInv ==
    ASSUME TypeInv, FanInv, NEW x \in Workers, WorkerMoves(x) PROVE FanInv'
  <1> DEFINE d == current[x]
  <1>1. /\ pc[x] # "idle" /\ d \in Deliveries /\ UNCHANGED producer
        /\ \A y \in Workers \ {x} : pc'[y] = pc[y] /\ current'[y] = current[y]
        /\ pc'[x] = "idle" \/ current'[x] = d
        /\ \A c \in Deliveries \ {d} : row'[c] = row[c] /\ job'[c] = job[c] /\ handler'[c] = handler[c]
    BY WorkerFrame
  <1>2. /\ row'[d] = row[d] \/ (pc[x] = "save" /\ row'[d] = entity[x])
        /\ job'[d] = job[d] \/ (job[d] = "active" /\ job'[d] # "none")
    BY <1>1, WorkerTouches
  <1>3. row[d].status # "none" /\ row'[d].status # "none"
    BY <1>1, <1>2 DEF FanInv, BusyInv, TypeInv, LocalInv
  <1> HIDE DEF d
  <1>4. \A c \in Deliveries : /\ row'[c].status = "none" <=> row[c].status = "none"
                              /\ job'[c] = "none" <=> job[c] = "none"
    BY <1>1, <1>2, <1>3
  <1>5. \A e \in Events : FanOf(e)'
    BY <1>1, <1>4, FanFrame
  <1>6. \A y \in Workers : pc'[y] # "idle" => row'[current'[y]].status # "none"
    BY <1>1, <1>3, <1>4 DEF FanInv, BusyInv, TypeInv, LocalInv, d
  <1>7. \A c \in Deliveries : handler'[c] = "update" => row'[c].status # "none"
    BY <1>1, <1>3, <1>4 DEF FanInv, BusyInv
  <1> QED BY <1>5, <1>6, <1>7 DEF FanInv, BusyInv

LEMMA QueueFanInv ==
    ASSUME TypeInv, FanInv, NEW d \in Deliveries, JobStep(d) \/ HandlerStep(d) \/ HandlerFault(d)
    PROVE  FanInv'
  <1> USE DEF TypeInv, run, queue, history
  <1>1. UNCHANGED producer
    BY DEF JobStep, HandlerStep, Promote, TakeJob, MarkDead, Notify, HandlerFault
  <1>2. \A c \in Deliveries : row'[c].status = "none" <=> row[c].status = "none"
    <2>1. CASE MarkDead(d)
      <3>1. row[d] \in Rows /\ row[d].status # "none"
        BY <2>1 DEF MarkDead, TypeOK, FanInv, BusyInv
      <3> QED BY <2>1, <3>1 DEF MarkDead, TypeOK, Rows
    <2> QED BY <2>1 DEF JobStep, HandlerStep, Promote, TakeJob, Notify, HandlerFault
  <1>3. \A c \in Deliveries : job'[c] = "none" <=> job[c] = "none"
    BY DEF JobStep, HandlerStep, Promote, TakeJob, MarkDead, Notify, HandlerFault, TypeOK
  <1>4. \A e \in Events : FanOf(e)'
    BY <1>1, <1>2, <1>3, FanFrame
  <1>5. \A c \in Deliveries : handler'[c] = "update" => handler[c] = "update"
    BY DEF JobStep, HandlerStep, Promote, TakeJob, MarkDead, Notify, HandlerFault, TypeOK
  <1>6. ASSUME NEW y \in Workers, pc'[y] # "idle" PROVE row'[current'[y]].status # "none"
    <2>1. CASE UNCHANGED <<pc, current>>
      <3>1. pc[y] # "idle" /\ current'[y] = current[y] /\ current[y] \in Deliveries
        BY <1>6, <2>1 DEF LocalInv
      <3> QED BY <1>2, <3>1 DEF FanInv, BusyInv
    <2>2. ASSUME NEW x \in Workers, TakeJob(x, d) PROVE row'[current'[y]].status # "none"
      <3>1. row[d].status # "none"
        BY <2>2 DEF TakeJob, LocalInv
      <3>2. CASE y = x
        BY <1>2, <2>2, <3>1, <3>2 DEF TakeJob, TypeOK
      <3>3. CASE y # x
        <4>1. pc[y] # "idle" /\ current'[y] = current[y] /\ current[y] \in Deliveries
          BY <1>6, <2>2, <3>3 DEF TakeJob, Goto, LocalInv, TypeOK
        <4> QED BY <1>2, <4>1 DEF FanInv, BusyInv
      <3> QED BY <3>2, <3>3
    <2> QED BY <2>1, <2>2 DEF JobStep, HandlerStep, Promote, MarkDead, Notify, HandlerFault
  <1> QED BY <1>2, <1>4, <1>5, <1>6 DEF FanInv, BusyInv

LEMMA CallFanInv ==
    ASSUME TypeInv, FanInv, UserStep \/ \E e \in Events : ProducerStep(e) \/ ProducerFault(e)
    PROVE  FanInv'
  <1> USE DEF TypeInv, run, queue, history
  <1>1. ASSUME UNCHANGED <<row, run, handler>> PROVE BusyInv'
    BY <1>1 DEF FanInv, BusyInv
  <1>2. ASSUME NEW e \in Events, UNCHANGED <<row, job, run, handler>>,
               \A w \in Webhooks : hooks'[w] = "new" => hooks[w] = "new",
               \A f \in Events \ {e} :
                  task'[f] = task[f] /\ saved'[f] = saved[f] /\ matching'[f] = matching[f],
               FanOf(e)'
        PROVE  FanInv'
    <2>1. \A f \in Events \ {e} : FanOf(f)'
      BY <1>2 DEF FanInv, FanOf
    <2> QED BY <1>1, <1>2, <2>1 DEF FanInv
  <1>3. ASSUME NEW w \in Webhooks, CreateWebhook(w) \/ RemoveWebhook(w) PROVE FanInv'
    <2>1. \A v \in Webhooks : hooks'[v] = "new" => hooks[v] = "new"
      BY <1>3 DEF CreateWebhook, RemoveWebhook, TypeOK
    <2>2. \A e \in Events : FanOf(e)'
      BY <1>3, <2>1 DEF CreateWebhook, RemoveWebhook, FanInv, FanOf
    <2> QED BY <1>1, <1>3, <2>2 DEF CreateWebhook, RemoveWebhook, FanInv
  <1>4. ASSUME NEW e \in Events, RecordEvent(e) PROVE FanInv'
    <2>1. FanOf(e)
      BY DEF FanInv
    <2>2. FanOf(e)'
      BY <1>4, <2>1 DEF RecordEvent, FanOf, TypeOK
    <2> QED BY <1>2, <1>4, <2>2 DEF RecordEvent, TypeOK
  <1>5. ASSUME NEW e \in Events, TestWebhook(e) \/ FindWebhooks(e) PROVE FanInv'
    <2>1. FanOf(e) /\ task[e] \in {"idle", "recorded"}
      BY <1>5 DEF FanInv, TestWebhook, FindWebhooks
    <2>2. task'[e] \in {"fanout", "failed"} /\ UNCHANGED <<hooks, row, job>>
      BY <1>5 DEF TestWebhook, FindWebhooks, TypeOK
    <2>3. \A w \in Webhooks : w \in matching'[e] => HookOrg[w] = EventOrg[e] /\ hooks[w] # "new"
      BY <1>5 DEF TestWebhook, FindWebhooks, TypeOK, Matches
    <2>4. \A w \in Webhooks : row[<<e, w>>].status = "none"
      BY <2>1 DEF FanOf
    <2>5. FanOf(e)'
      BY <2>2, <2>3, <2>4 DEF FanOf
    <2> QED BY <1>2, <1>5, <2>5 DEF TestWebhook, FindWebhooks, TypeOK
  <1>6. ASSUME NEW e \in Events, FinishDispatch(e) PROVE FanInv'
    <2>1. FanOf(e) /\ task[e] = "fanout" /\ task'[e] = "done"
      BY <1>6 DEF FanInv, FinishDispatch, TypeOK
    <2>2. \A w \in Webhooks : w \in matching[e] => row[<<e, w>>].status # "none"
      BY <1>6 DEF FinishDispatch, Unvisited
    <2>3. UNCHANGED <<hooks, matching, saved, row, job>>
      BY <1>6 DEF FinishDispatch
    <2>4. FanOf(e)'
      BY <2>1, <2>2, <2>3 DEF FanOf
    <2> QED BY <1>2, <1>6, <2>4 DEF FinishDispatch, TypeOK
  <1>7. ASSUME NEW e \in Events, ProducerFault(e) PROVE FanInv'
    <2>1. FanOf(e) /\ task'[e] = "failed" /\ UNCHANGED <<hooks, matching, row, job>>
      BY <1>7 DEF FanInv, ProducerFault, TypeOK
    <2>2. FanOf(e)'
      BY <2>1 DEF FanOf
    <2> QED BY <1>2, <1>7, <2>2 DEF ProducerFault, TypeOK
  <1>8. ASSUME NEW e \in Events, AddJob(e) PROVE FanInv'
    <2> DEFINE d == <<e, saved[e]>>
    <2>1. FanOf(e) /\ task[e] = "enqueue" /\ task'[e] = "fanout" /\ d \in Deliveries
      BY <1>8 DEF FanInv, AddJob, TypeOK, LocalInv, Deliveries
    <2>2. \A f \in Events, w \in Webhooks :
             job'[<<f, w>>] = IF f = e /\ w = saved[e] THEN "waiting" ELSE job[<<f, w>>]
      BY <1>8, <2>1 DEF AddJob, TypeOK, Deliveries
    <2>3. UNCHANGED <<hooks, matching, row, run, handler>>
      BY <1>8 DEF AddJob
    <2>4. FanOf(e)'
      BY <2>1, <2>2, <2>3 DEF FanOf
    <2>5. ASSUME NEW f \in Events \ {e} PROVE FanOf(f)'
      <3>1. FanOf(f) /\ task'[f] = task[f] /\ saved'[f] = saved[f]
        BY <1>8 DEF FanInv, AddJob, TypeOK
      <3>2. \A w \in Webhooks : job'[<<f, w>>] = job[<<f, w>>]
        BY <2>2
      <3> QED BY <2>3, <3>1, <3>2 DEF FanOf
    <2> QED BY <1>1, <2>3, <2>4, <2>5 DEF FanInv
  <1>9. ASSUME NEW e \in Events, NEW w \in Webhooks, SaveDelivery(e, w) PROVE FanInv'
    <2>1. /\ FanOf(e) /\ task[e] = "fanout" /\ w \in matching[e] /\ <<e, w>> \in Deliveries
          /\ task'[e] = "enqueue" /\ saved'[e] = w
      BY <1>9 DEF FanInv, SaveDelivery, Unvisited, TypeOK, Deliveries
    <2>2. \A f \in Events, v \in Webhooks :
             row'[<<f, v>>] = IF f = e /\ v = w THEN NewRow ELSE row[<<f, v>>]
      BY <1>9, <2>1 DEF SaveDelivery, TypeOK, Deliveries
    <2>3. UNCHANGED <<hooks, matching, job, run, handler>> /\ NewRow.status # "none"
      BY <1>9 DEF SaveDelivery, NewRow
    <2>4. FanOf(e)'
      BY <2>1, <2>2, <2>3 DEF FanOf
    <2>5. ASSUME NEW f \in Events \ {e} PROVE FanOf(f)'
      <3>1. FanOf(f) /\ task'[f] = task[f] /\ saved'[f] = saved[f]
        BY <1>9 DEF FanInv, SaveDelivery, TypeOK
      <3>2. \A v \in Webhooks : row'[<<f, v>>] = row[<<f, v>>]
        BY <2>2
      <3> QED BY <2>3, <3>1, <3>2 DEF FanOf
    <2>6. \A d \in Deliveries : row'[d].status = "none" => row[d].status = "none"
      BY <1>9, <2>1, <2>3 DEF SaveDelivery, TypeOK
    <2>7. BusyInv'
      BY <2>3, <2>6 DEF FanInv, BusyInv, LocalInv
    <2> QED BY <2>4, <2>5, <2>7 DEF FanInv
  <1> QED BY <1>3, <1>4, <1>5, <1>6, <1>7, <1>8, <1>9 DEF UserStep, ProducerStep

LEMMA StepFanInv == TypeInv /\ FanInv /\ [Next]_vars => FanInv'
  <1> SUFFICES ASSUME TypeInv, FanInv, [Next]_vars PROVE FanInv'
    OBVIOUS
  <1>1. CASE UNCHANGED vars
    BY <1>1 DEF vars, producer, queue, run, FanInv, BusyInv, FanOf
  <1> QED BY <1>1, WorkerFanInv, QueueFanInv, CallFanInv DEF Next, Quiescent, FaultStep, WorkerMoves

LEMMA InitFanInv == Init => FanInv
  BY DEF Init, FanInv, BusyInv, FanOf, NoRow, Deliveries

\* A call that returned put one delivery in the queue for each webhook of its
\* organization that it found and for no other, whatever else went wrong.
THEOREM FannedOut == Spec => []FanOutComplete
  <1> QED BY InitTypeInv, StepTypeInv, InitFanInv, StepFanInv, FanInvImplies, PTL DEF Spec

-----------------------------------------------------------------------------
(* DEAD has its reasons, whatever the faults.                              *)

Justified(d) == attemptsMade[d] = MaxAttempts \/ hooks[d[2]] = "removed"

\* So does what a worker or onFailed is about to save.
DeadInv ==
    /\ DeadIsJustified
    /\ \A x \in Workers : Loaded(x) /\ entity[x].status = "dead" => Justified(current[x])
    /\ \A d \in Deliveries : handler[d] = "update" => attemptsMade[d] = MaxAttempts

LEMMA StepDeadInv == TypeInv /\ FanInv /\ DeadInv /\ TypeInv' /\ [Next]_vars => DeadInv'
  <1> SUFFICES ASSUME TypeInv, FanInv, DeadInv, TypeInv', [Next]_vars PROVE DeadInv'
    OBVIOUS
  <1> USE DEF TypeInv, run, queue, history, producer
  <1>1. ASSUME NEW d \in Deliveries
        PROVE  /\ row[d].status = "dead" => Justified(d)
               /\ handler[d] = "update" => attemptsMade[d] = MaxAttempts
    BY DEF DeadInv, DeadIsJustified, Justified
  <1>2. ASSUME UNCHANGED attemptsMade, NEW d \in Deliveries,
               \A w \in Webhooks : hooks[w] = "removed" => hooks'[w] = "removed", Justified(d)
        PROVE  Justified(d)'
    BY <1>2 DEF Justified, Deliveries
  \* The calls, users and the queue.
  <1>3. ASSUME UNCHANGED <<attemptsMade, handler>>,
               \A w \in Webhooks : hooks[w] = "removed" => hooks'[w] = "removed",
               \A d \in Deliveries : row'[d].status = "dead" => row[d].status = "dead",
               \A x \in Workers : Loaded(x)' /\ entity'[x].status = "dead" =>
                   Loaded(x) /\ entity[x].status = "dead" /\ current'[x] = current[x]
        PROVE  DeadInv'
    <2>1. \A x \in Workers : pc[x] # "idle" => current[x] \in Deliveries
      BY DEF LocalInv
    <2> QED BY <1>1, <1>2, <1>3, <2>1 DEF DeadInv, DeadIsJustified, Justified
  <1>4. CASE UserStep \/ \E e \in Events : ProducerStep(e) \/ ProducerFault(e)
    <2>1. \A w \in Webhooks : hooks[w] = "removed" => hooks'[w] = "removed"
      <3>1. ASSUME NEW w \in Webhooks, CreateWebhook(w) \/ RemoveWebhook(w)
            PROVE  \A v \in Webhooks : hooks[v] = "removed" => hooks'[v] = "removed"
        BY <3>1 DEF CreateWebhook, RemoveWebhook, TypeOK
      <3> QED BY <1>4, <3>1 DEF UserStep, RecordEvent, TestWebhook, ProducerStep,
             FindWebhooks, AddJob, FinishDispatch, SaveDelivery, ProducerFault
    <2>2. \A d \in Deliveries : row'[d].status = "dead" => row[d].status = "dead"
      <3>1. ASSUME NEW e \in Events, NEW w \in Webhooks, SaveDelivery(e, w)
            PROVE  \A d \in Deliveries : row'[d].status = "dead" => row[d].status = "dead"
        BY <3>1 DEF SaveDelivery, TypeOK, NewRow
      <3> QED BY <1>4, <3>1 DEF UserStep, CreateWebhook, RemoveWebhook, RecordEvent, TestWebhook,
             ProducerStep, FindWebhooks, AddJob, FinishDispatch, ProducerFault
    <2>3. UNCHANGED <<attemptsMade, handler, run>>
      BY <1>4 DEF UserStep, CreateWebhook, RemoveWebhook, RecordEvent, TestWebhook, ProducerStep,
           FindWebhooks, AddJob, FinishDispatch, SaveDelivery, ProducerFault
    <2> QED BY <1>3, <2>1, <2>2, <2>3
  <1>5. ASSUME NEW d \in Deliveries, JobStep(d) PROVE DeadInv'
    <2>1. UNCHANGED <<hooks, attemptsMade, handler, row>>
      BY <1>5 DEF JobStep, Promote, TakeJob
    <2>2. CASE Promote(d)
      BY <1>3, <2>1, <2>2 DEF Promote
    <2>3. ASSUME NEW x \in Workers, TakeJob(x, d) PROVE DeadInv'
      <3>1. \A y \in Workers : Loaded(y)' => Loaded(y) /\ current'[y] = current[y] /\ entity'[y] = entity[y]
        BY <2>3 DEF TakeJob, Goto, TypeOK
      <3> QED BY <1>3, <2>1, <3>1
    <2> QED BY <1>5, <2>2, <2>3 DEF JobStep
  <1>6. ASSUME NEW d \in Deliveries, HandlerStep(d) \/ HandlerFault(d) PROVE DeadInv'
    <2>1. UNCHANGED <<hooks, attemptsMade, run>>
      BY <1>6 DEF HandlerStep, MarkDead, Notify, HandlerFault
    <2>2. \A c \in Deliveries : handler'[c] = "update" => handler[c] = "update"
      BY <1>6 DEF HandlerStep, MarkDead, Notify, HandlerFault, TypeOK
    <2>3. \A c \in Deliveries : row'[c] = row[c] \/ (c = d /\ handler[d] = "update")
      BY <1>6 DEF HandlerStep, MarkDead, Notify, HandlerFault, TypeOK
    <2> QED BY <1>1, <2>1, <2>2, <2>3 DEF DeadInv, DeadIsJustified, Justified
  <1>7. ASSUME NEW x \in Workers, WorkerMoves(x) PROVE DeadInv'
    <2> DEFINE d == current[x]
    <2>1. /\ pc[x] # "idle" /\ d \in Deliveries /\ UNCHANGED producer
          /\ \A y \in Workers \ {x} : pc'[y] = pc[y] /\ current'[y] = current[y] /\ entity'[y] = entity[y]
          /\ pc'[x] = "idle" \/ current'[x] = d
          /\ \A c \in Deliveries \ {d} :
                row'[c] = row[c] /\ attemptsMade'[c] = attemptsMade[c] /\ handler'[c] = handler[c]
      BY <1>7, WorkerFrame
    <2>2. /\ row'[d] = row[d] \/ (pc[x] = "save" /\ row'[d] = entity[x])
          /\ attemptsMade'[d] \in {attemptsMade[d], attemptsMade[d] + 1}
          /\ \/ handler'[d] = handler[d] \/ handler'[d] = "logged"
             \/ handler'[d] = "update" /\ attemptsMade'[d] = MaxAttempts
      BY <1>7, <2>1, WorkerTouches
    <2>3. \A c \in Deliveries : Justified(c) => Justified(c)'
      <3>1. attemptsMade'[d] \in 0 .. MaxAttempts /\ attemptsMade[d] \in 0 .. MaxAttempts
        BY <2>1 DEF TypeOK
      <3>2. \A c \in Deliveries : attemptsMade[c] = MaxAttempts => attemptsMade'[c] = MaxAttempts
        BY <2>1, <2>2, <3>1
      <3> QED BY <2>1, <3>2 DEF Justified
    <2>4. pc[x] = "save" /\ entity[x].status = "dead" => Justified(d)
      BY DEF DeadInv
    <2>5. ASSUME Loaded(x)', entity'[x].status = "dead" PROVE Justified(d)
      <3>1. \/ (Loaded(x) /\ entity[x].status = "dead") \/ row[d].status = "dead"
            \/ hooks[d[2]] # "active"
        BY <1>7, <2>5, WorkerEntity
      <3>2. hooks[d[2]] # "active" => hooks[d[2]] = "removed"
        <4>1. PICK e \in Events, w \in Webhooks : d = <<e, w>>
          BY <2>1 DEF Deliveries
        <4>2. row[<<e, w>>].status # "none" /\ FanOf(e)
          BY <2>1, <4>1 DEF FanInv, BusyInv
        <4>3. hooks[w] # "new"
          BY <4>2 DEF FanOf
        <4> QED BY <4>1, <4>3 DEF TypeOK
      <3> QED BY <1>1, <2>1, <3>1, <3>2 DEF DeadInv, Justified
    <2> HIDE DEF d
    <2>6. \A c \in Deliveries : row'[c].status = "dead" => Justified(c)'
      BY <1>1, <2>1, <2>2, <2>3, <2>4
    <2>7. ASSUME NEW y \in Workers, Loaded(y)', entity'[y].status = "dead"
          PROVE  Justified(current[y])' /\ current'[y] = current[y]
      <3>1. pc'[x] # "idle" => current'[x] = current[x]
        BY <2>1 DEF d
      <3>2. CASE y = x
        BY <2>1, <2>3, <2>5, <2>7, <3>1, <3>2 DEF d
      <3>3. CASE y # x
        <4>1. current'[y] = current[y] /\ current[y] \in Deliveries /\ Justified(current[y])
          BY <2>1, <2>7, <3>3 DEF DeadInv, LocalInv
        <4> QED BY <2>3, <4>1
      <3> QED BY <3>2, <3>3
    <2>8. \A c \in Deliveries : handler'[c] = "update" => attemptsMade'[c] = MaxAttempts
      <3>1. attemptsMade'[d] \in 0 .. MaxAttempts /\ attemptsMade[d] \in 0 .. MaxAttempts
        BY <2>1 DEF TypeOK
      <3> QED BY <1>1, <2>1, <2>2, <3>1
    <2> QED BY <2>6, <2>7, <2>8 DEF DeadInv, DeadIsJustified, Justified
  <1>8. CASE UNCHANGED vars \/ Quiescent
    BY <1>3, <1>8 DEF Quiescent, vars
  <1> QED BY <1>4, <1>5, <1>6, <1>7, <1>8 DEF Next, FaultStep, WorkerMoves

\* DEAD is only written when the attempts are used up or the webhook was
\* removed, whatever the faults.
THEOREM DeadJustified == Spec => []DeadIsJustified
  <1>1. Init => DeadInv
    BY DEF Init, DeadInv, DeadIsJustified, NoRow
  <1>2. DeadInv => DeadIsJustified
    BY DEF DeadInv
  <1> QED BY <1>1, <1>2, InitTypeInv, StepTypeInv, InitFanInv, StepFanInv, StepDeadInv, PTL DEF Spec

-----------------------------------------------------------------------------
(* What the row shows was done, whatever the faults.                       *)

\* Attempts that were made and a 2xx that was received, but for the attempt a
\* worker is about to make.
ShownInv ==
    /\ \A d \in Deliveries : /\ row[d].attempts <= posts[d]
                             /\ row[d].response = "2xx" => d \in acked
    /\ \A x \in Workers : Loaded(x) =>
          /\ entity[x].attempts <= posts[current[x]] + (IF pc[x] = "post" THEN 1 ELSE 0)
          /\ entity[x].response = "2xx" => current[x] \in acked

LEMMA WorkerShownInv ==
    ASSUME TypeInv, ShownInv, NEW x \in Workers, WorkerMoves(x) PROVE ShownInv'
  <1> DEFINE d == current[x]
  <1>1. /\ pc[x] # "idle" /\ d \in Deliveries /\ entity[x] \in Rows
        /\ \A y \in Workers \ {x} : pc'[y] = pc[y] /\ current'[y] = current[y] /\ entity'[y] = entity[y]
        /\ pc'[x] = "idle" \/ current'[x] = d
        /\ \A c \in Deliveries \ {d} : row'[c] = row[c] /\ posts'[c] = posts[c]
    BY WorkerFrame
  <1>2. row'[d] = row[d] \/ (pc[x] = "save" /\ row'[d] = entity[x])
    BY <1>1, WorkerTouches
  <1>3. /\ posts[d] \in Nat /\ row[d] \in Rows /\ entity[x].attempts \in Nat /\ row[d].attempts \in Nat
    BY <1>1 DEF TypeInv, TypeOK, Rows
  <1>m. acked \subseteq acked' /\ posts'[d] \in {posts[d], posts[d] + 1}
    BY <1>1, WorkerFrame, WorkerTouches
  <1>4. ASSUME Loaded(x)'
        PROVE  /\ entity'[x].attempts <= posts'[d] + (IF pc'[x] = "post" THEN 1 ELSE 0)
               /\ entity'[x].response = "2xx" => d \in acked'
    <2> USE DEF TypeInv
    <2>0. /\ row[d].attempts <= posts[d] /\ (row[d].response = "2xx" => d \in acked)
          /\ Loaded(x) => /\ entity[x].attempts <= posts[d] + (IF pc[x] = "post" THEN 1 ELSE 0)
                          /\ entity[x].response = "2xx" => d \in acked
      BY <1>1 DEF ShownInv
    <2>1. CASE LoadDelivery(x)
      BY <1>3, <2>0, <2>1 DEF LoadDelivery, Goto, TypeOK, history
    <2>2. CASE LoadWebhook(x)
      <3>1. pc[x] = "lookup" /\ entity'[x].response = entity[x].response
        BY <1>1, <2>2 DEF LoadWebhook, TypeOK, Rows
      <3>2. \/ pc'[x] = "post" /\ entity'[x].attempts = entity[x].attempts + 1
            \/ pc'[x] = "save" /\ entity'[x].attempts = entity[x].attempts
        BY <1>1, <2>2 DEF LoadWebhook, Goto, TypeOK, Rows
      <3>3. posts' = posts /\ acked' = acked
        BY <2>2 DEF LoadWebhook, history
      <3> QED BY <1>3, <2>0, <3>1, <3>2, <3>3
    <2>3. ASSUME NEW ok \in BOOLEAN, PostAnswered(x, ok)
          PROVE  /\ entity'[x].attempts <= posts'[d] + (IF pc'[x] = "post" THEN 1 ELSE 0)
                 /\ entity'[x].response = "2xx" => d \in acked'
      <3>1. entity'[x].attempts = entity[x].attempts /\ (entity'[x].response = "2xx" => ok)
        BY <1>1, <2>3 DEF PostAnswered, TypeOK, Rows
      <3>2. pc[x] = "post" /\ pc'[x] = "save" /\ posts'[d] = posts[d] + 1
        BY <1>1, <2>3 DEF PostAnswered, Goto, TypeOK
      <3>3. ok => d \in acked'
        BY <2>3 DEF PostAnswered
      <3> QED BY <1>3, <2>0, <3>1, <3>2, <3>3
    <2>4. CASE PostLost(x)
      <3>1. pc[x] = "post" /\ pc'[x] # "post" /\ posts'[d] = posts[d] + 1 /\ acked' = acked
        BY <1>1, <2>4 DEF PostLost, Goto, TypeOK
      <3>2. entity'[x].attempts = entity[x].attempts /\ entity'[x].response = entity[x].response
        BY <1>1, <2>4 DEF PostLost, TypeOK, Rows
      <3> QED BY <1>3, <2>0, <3>1, <3>2
    <2>5. CASE SaveEntity(x) \/ DatabaseFault(x) \/ Idle(x)
      <3>1. ~ Loaded(x)'
        BY <2>5 DEF SaveEntity, DatabaseFault, Idle, Goto, TypeOK
      <3> QED BY <1>4, <3>1
    <2>6. CASE LoseLock(x)
      BY <1>4, <2>0, <2>6 DEF LoseLock, run, history
    <2> QED BY <2>1, <2>2, <2>3, <2>4, <2>5, <2>6
         DEF WorkerMoves, WorkerStep, Complete, FailRetry, FailForGood, FailUnheld, WorkerDeath
  <1> HIDE DEF d
  <1>5. ASSUME NEW c \in Deliveries
        PROVE  row'[c].attempts <= posts'[c] /\ (row'[c].response = "2xx" => c \in acked')
    <2>1. row[c].attempts <= posts[c] /\ (row[c].response = "2xx" => c \in acked)
      BY DEF ShownInv
    <2>2. CASE c # d \/ row'[d] = row[d]
      <3>1. row'[c] = row[c] /\ posts'[c] \in {posts[c], posts[c] + 1} /\ posts[c] \in Nat
        BY <1>1, <1>m, <2>2 DEF TypeInv, TypeOK
      <3>2. row[c].attempts \in Nat
        BY DEF TypeInv, TypeOK, Rows
      <3> QED BY <1>m, <2>1, <3>1, <3>2
    <2>3. CASE c = d /\ pc[x] = "save" /\ row'[d] = entity[x]
      <3>1. entity[x].attempts <= posts[d] /\ (entity[x].response = "2xx" => d \in acked)
        BY <1>3, <2>3 DEF ShownInv, d
      <3> QED BY <1>3, <1>m, <2>3, <3>1
    <2> QED BY <1>2, <2>2, <2>3
  <1>6. ASSUME NEW y \in Workers \ {x}, Loaded(y)'
        PROVE  /\ entity'[y].attempts <= posts'[current'[y]] + (IF pc'[y] = "post" THEN 1 ELSE 0)
               /\ entity'[y].response = "2xx" => current'[y] \in acked'
    <2>1. /\ entity[y].attempts <= posts[current[y]] + (IF pc[y] = "post" THEN 1 ELSE 0)
          /\ entity[y].response = "2xx" => current[y] \in acked
          /\ entity[y].attempts \in Nat /\ current[y] \in Deliveries
      BY <1>1, <1>6 DEF ShownInv, TypeInv, TypeOK, LocalInv, Rows
    <2>2. posts[current[y]] \in Nat /\ posts'[current[y]] \in {posts[current[y]], posts[current[y]] + 1}
      BY <1>1, <1>m, <2>1 DEF TypeInv, TypeOK
    <2> QED BY <1>1, <1>m, <2>1, <2>2
  <1>7. Loaded(x)' => current'[x] = d
    BY <1>1
  <1> QED BY <1>4, <1>5, <1>6, <1>7 DEF ShownInv, d

LEMMA StepShownInv == TypeInv /\ ShownInv /\ [Next]_vars => ShownInv'
  <1> SUFFICES ASSUME TypeInv, ShownInv, [Next]_vars PROVE ShownInv'
    OBVIOUS
  <1> USE DEF run, queue, history, producer
  <1>1. ASSUME UNCHANGED <<posts, acked>>,
               \A d \in Deliveries : row'[d].attempts \in {0, row[d].attempts}
                                     /\ row'[d].response \in {"null", row[d].response},
               \A x \in Workers : Loaded(x)' =>
                   pc'[x] = pc[x] /\ entity'[x] = entity[x] /\ current'[x] = current[x]
        PROVE  ShownInv'
    <2>1. \A d \in Deliveries : posts[d] \in Nat
      BY DEF TypeInv, TypeOK
    <2> QED BY <1>1, <2>1 DEF ShownInv
  <1>2. ASSUME NEW e \in Events, NEW w \in Webhooks, SaveDelivery(e, w) PROVE ShownInv'
    <2>1. \A d \in Deliveries : row'[d] = row[d] \/ row'[d] = NewRow
      BY <1>2 DEF SaveDelivery, TypeInv, TypeOK
    <2>2. UNCHANGED <<posts, acked, run>>
      BY <1>2 DEF SaveDelivery
    <2> QED BY <1>1, <2>1, <2>2 DEF NewRow
  <1>3. ASSUME NEW d \in Deliveries, MarkDead(d) PROVE ShownInv'
    <2>1. row[d] \in Rows
      BY DEF TypeInv, TypeOK
    <2>2. \A c \in Deliveries : row'[c].attempts = row[c].attempts /\ row'[c].response = row[c].response
      BY <1>3, <2>1 DEF MarkDead, TypeInv, TypeOK, Rows
    <2>3. UNCHANGED <<posts, acked, run>>
      BY <1>3 DEF MarkDead
    <2> QED BY <1>1, <2>2, <2>3
  <1>4. ASSUME NEW x \in Workers, NEW d \in Deliveries, TakeJob(x, d) PROVE ShownInv'
    <2>1. \A y \in Workers : Loaded(y)' =>
             pc'[y] = pc[y] /\ entity'[y] = entity[y] /\ current'[y] = current[y]
      BY <1>4 DEF TakeJob, Goto, TypeInv, TypeOK
    <2>2. UNCHANGED <<posts, acked, row>>
      BY <1>4 DEF TakeJob
    <2> QED BY <1>1, <2>1, <2>2
  <1>5. CASE UNCHANGED <<row, run, posts, acked>>
    BY <1>1, <1>5
  <1> QED BY <1>2, <1>3, <1>4, <1>5, WorkerShownInv
       DEF Next, Quiescent, FaultStep, WorkerMoves, UserStep, ProducerStep, JobStep, HandlerStep,
           CreateWebhook, RemoveWebhook, RecordEvent, TestWebhook, FindWebhooks, AddJob,
           FinishDispatch, ProducerFault, Promote, Notify, HandlerFault, vars

-----------------------------------------------------------------------------
(* Every POST is an attempt of the job or the work of a worker that died   *)
(* or lost its lock.                                                       *)

\* The workers without the job that may still POST, and whether the run that
\* has it, or that completed it, has done so.
Stray(d) == {y \in Workers : current[y] = d /\ holder[d] # y /\ pc[y] \in {"load", "lookup", "post"}}
Used(d) == IF job[d] = "completed" \/ (holder[d] # None /\ pc[holder[d]] \in {"save", "fail", "complete"})
           THEN 1 ELSE 0

PostOf(d) ==
    /\ IsFiniteSet(Stray(d))
    /\ posts[d] + Cardinality(Stray(d)) <= attemptsMade[d] + Used(d) + faults
    /\ job[d] = "completed" => attemptsMade[d] < MaxAttempts

PostInv == \A d \in Deliveries : PostOf(d)

LEMMA PostInvImplies == TypeInv /\ ShownInv /\ PostInv => PostsBounded
  <1> SUFFICES ASSUME TypeInv, ShownInv, PostInv, NEW d \in Deliveries
               PROVE  posts[d] <= MaxAttempts + faults
    BY DEF PostsBounded, ShownInv
  <1>1. /\ posts[d] \in Nat /\ attemptsMade[d] \in 0 .. MaxAttempts /\ faults \in Nat
    BY DEF TypeInv, TypeOK
  <1>2. PostOf(d)
    BY DEF PostInv
  <1>3. Cardinality(Stray(d)) \in Nat
    BY <1>2, FS_CardinalityType DEF PostOf
  <1>4. Used(d) = 0 \/ (Used(d) = 1 /\ attemptsMade[d] < MaxAttempts)
    BY <1>2 DEF Used, PostOf, TypeInv, JobInv
  <1> QED BY <1>1, <1>2, <1>3, <1>4 DEF PostOf

\* One element more or less.
LEMMA OneMore ==
    ASSUME NEW S, NEW T, NEW a, IsFiniteSet(S), T = S \cup {a}
    PROVE  IsFiniteSet(T) /\ Cardinality(T) <= Cardinality(S) + 1
  <1>1. Cardinality(S) \in Nat
    BY FS_CardinalityType
  <1>2. /\ IsFiniteSet(S \cup {a})
        /\ Cardinality(S \cup {a}) = IF a \in S THEN Cardinality(S) ELSE Cardinality(S) + 1
    BY FS_AddElement
  <1> QED BY <1>1, <1>2

LEMMA OneLess ==
    ASSUME NEW S, NEW T, NEW a, IsFiniteSet(S), T = S \ {a}
    PROVE  /\ IsFiniteSet(T) /\ Cardinality(T) <= Cardinality(S)
           /\ a \in S => Cardinality(T) = Cardinality(S) - 1
  <1>1. Cardinality(S) \in Nat
    BY FS_CardinalityType
  <1>2. /\ IsFiniteSet(S \ {a})
        /\ Cardinality(S \ {a}) = IF a \in S THEN Cardinality(S) - 1 ELSE Cardinality(S)
    BY FS_RemoveElement
  <1> QED BY <1>1, <1>2

\* A step that makes at most as many more POSTs and strays as it uses up.
LEMMA PostFrame ==
    ASSUME TypeInv, TypeInv', PostInv, NEW d \in Deliveries, faults <= faults',
           job'[d] = job[d], attemptsMade'[d] = attemptsMade[d], posts'[d] = posts[d],
           Stray(d)' = Stray(d), Used(d)' = Used(d)
    PROVE  PostOf(d)'
  <1>1. PostOf(d)
    BY DEF PostInv
  <1>2. Cardinality(Stray(d)) \in Nat
    BY <1>1, FS_CardinalityType DEF PostOf
  <1>3. posts[d] \in Nat /\ attemptsMade[d] \in Nat /\ faults \in Nat /\ faults' \in Nat
    BY DEF TypeInv, TypeOK
  <1>4. Used(d) \in {0, 1}
    BY DEF Used
  <1> QED BY <1>1, <1>2, <1>3, <1>4 DEF PostOf

\* The worker that has the job.
LEMMA HeldPost ==
    ASSUME TypeInv, TypeInv', PostInv, NEW x \in Workers, NEW d \in Deliveries,
           current[x] = d, holder[d] = x, WorkerMoves(x)
    PROVE  PostOf(d)'
  <1> USE DEF TypeInv, run, queue, history
  <1> DEFINE k == Cardinality(Stray(d))
  <1>0. /\ pc[x] # "idle" /\ job[d] = "active" /\ attemptsMade[d] < MaxAttempts
        /\ \A y \in Workers \ {x} : pc'[y] = pc[y] /\ current'[y] = current[y]
        /\ pc'[x] = "idle" \/ current'[x] = d
        /\ x # None
    BY WorkerFrame DEF JobInv
  <1>1. /\ PostOf(d) /\ k \in Nat /\ posts[d] \in Nat /\ attemptsMade[d] \in Nat /\ faults \in Nat
        /\ posts[d] + k <= attemptsMade[d] + Used(d) + faults
    BY FS_CardinalityType DEF PostInv, PostOf, TypeOK
  <1>2. Used(d) = IF pc[x] \in {"save", "fail", "complete"} THEN 1 ELSE 0
    BY <1>0 DEF Used
  <1>3. x \notin Stray(d)
    BY DEF Stray
  \* It goes on.
  <1>4. ASSUME holder' = holder, job' = job, attemptsMade' = attemptsMade, faults' \in {faults, faults + 1},
               pc'[x] # "idle",
               \/ /\ posts'[d] = posts[d]
                  /\ pc[x] \in {"save", "fail", "complete"} => pc'[x] \in {"save", "fail", "complete"}
               \/ /\ posts'[d] = posts[d] + 1
                  /\ pc[x] = "post" /\ pc'[x] \in {"save", "fail", "complete"}
        PROVE  PostOf(d)'
    <2>1. Stray(d)' = Stray(d)
      BY <1>0, <1>4 DEF Stray
    <2>2. Used(d)' = IF pc'[x] \in {"save", "fail", "complete"} THEN 1 ELSE 0
      BY <1>0, <1>4 DEF Used
    <2>3. posts'[d] + k <= attemptsMade[d] + Used(d)' + faults'
      BY <1>1, <1>2, <1>4, <2>2
    <2> QED BY <1>0, <1>1, <1>4, <2>1, <2>3 DEF PostOf
  <1>5. CASE LoadDelivery(x) \/ LoadWebhook(x) \/ SaveEntity(x) \/ DatabaseFault(x)
    <2>1. /\ holder' = holder /\ job' = job /\ attemptsMade' = attemptsMade /\ posts' = posts
          /\ faults' \in {faults, faults + 1}
      BY <1>5 DEF LoadDelivery, LoadWebhook, SaveEntity, DatabaseFault, Fault
    <2>2. pc'[x] \in {"lookup", "post", "save", "complete", "fail"}
          /\ (pc[x] \in {"save", "fail", "complete"} => pc'[x] \in {"save", "fail", "complete"})
      BY <1>5 DEF LoadDelivery, LoadWebhook, SaveEntity, DatabaseFault, Goto, TypeOK
    <2> QED BY <1>4, <2>1, <2>2
  <1>6. CASE PostLost(x) \/ \E ok \in BOOLEAN : PostAnswered(x, ok)
    <2>1. /\ holder' = holder /\ job' = job /\ attemptsMade' = attemptsMade /\ faults' = faults
          /\ posts'[d] = posts[d] + 1 /\ pc[x] = "post"
      <3>1. /\ UNCHANGED <<queue, faults>> /\ pc[x] = "post"
            /\ posts' = [posts EXCEPT ![current[x]] = @ + 1]
        BY <1>6 DEF PostLost, PostAnswered
      <3> QED BY <3>1 DEF TypeOK
    <2>2. Goto(x, "save") \/ Goto(x, "fail")
      BY <1>6 DEF PostLost, PostAnswered
    <2>3. pc'[x] \in {"save", "fail"}
      BY <2>2 DEF Goto, TypeOK
    <2> QED BY <1>4, <2>1, <2>3
  \* It ends, and gives the job away.
  <1>7. ASSUME NEW s, Release(d, s), posts' = posts
        PROVE  /\ holder'[d] = None /\ job'[d] = s
               /\ Used(d)' = IF s = "completed" THEN 1 ELSE 0
               /\ posts'[d] = posts[d]
    BY <1>7 DEF Release, Used, TypeOK
  <1>8. ASSUME Idle(x), holder'[d] = None PROVE Stray(d)' = Stray(d)
    <2>1. pc'[x] = "idle"
      BY <1>8 DEF Idle, Goto, TypeOK
    <2>2. \A y \in Workers : y \in Stray(d)' <=> y \in Stray(d)
      BY <1>0, <1>8, <2>1 DEF Stray
    <2> QED BY <2>2 DEF Stray
  <1>9. CASE Complete(x)
    <2>1. Idle(x) /\ Release(d, "completed") /\ posts' = posts /\ attemptsMade' = attemptsMade /\ faults' = faults
      BY <1>9 DEF Complete, Holds
    <2>2. Used(d) = 1
      BY <1>2, <1>9 DEF Complete
    <2> QED BY <1>0, <1>1, <1>7, <1>8, <2>1, <2>2 DEF PostOf
  <1>10. CASE FailRetry(x) \/ FailForGood(x)
    <2>1. PICK s \in {"delayed", "failed"} : Idle(x) /\ Release(d, s)
      BY <1>10 DEF FailRetry, FailForGood
    <2>2. posts' = posts /\ attemptsMade'[d] = attemptsMade[d] + 1 /\ faults' = faults
      BY <1>10 DEF FailRetry, FailForGood, TypeOK
    <2>3. Used(d) = 1
      BY <1>2, <1>10 DEF FailRetry, FailForGood
    <2>4. Used(d)' = 0 /\ posts'[d] = posts[d] /\ Stray(d)' = Stray(d) /\ job'[d] # "completed"
      BY <1>7, <1>8, <2>1, <2>2
    <2> QED BY <1>1, <2>2, <2>3, <2>4 DEF PostOf
  \* It loses the job, which counts as an attempt or not.
  <1>11. CASE Stalls(x)
    <2>1. /\ holder'[d] = None /\ job'[d] # "completed"
          /\ attemptsMade'[d] \in {attemptsMade[d], attemptsMade[d] + 1}
          /\ posts'[d] = posts[d] /\ faults' = faults + 1
          /\ Idle(x) \/ (pc' = pc /\ current' = current)
      BY <1>11, StallsFrame, StallTouches
    <2>2. Used(d)' = 0
      BY <2>1 DEF Used
    <2>5. CASE Idle(x)
      BY <1>1, <1>2, <1>8, <2>1, <2>2, <2>5 DEF PostOf
    <2>3. CASE pc' = pc /\ current' = current /\ pc[x] \in {"save", "fail", "complete"}
      <3>1. Stray(d)' = Stray(d)
        BY <2>1, <2>3 DEF Stray
      <3> QED BY <1>1, <1>2, <2>1, <2>2, <2>3, <3>1 DEF PostOf
    <2>4. CASE pc' = pc /\ current' = current /\ pc[x] \notin {"save", "fail", "complete"}
      <3>1. \A y \in Workers : y \in Stray(d)' <=> y \in Stray(d) \cup {x}
        BY <1>0, <2>1, <2>4 DEF Stray, TypeOK
      <3>2. Stray(d)' = Stray(d) \cup {x}
        BY <3>1 DEF Stray
      <3>3. IsFiniteSet(Stray(d)') /\ Cardinality(Stray(d)') <= k + 1
        BY <1>1, <3>2, OneMore DEF PostOf
      <3>4. Cardinality(Stray(d)') \in Nat
        BY <3>3, FS_CardinalityType
      <3>5. posts'[d] + Cardinality(Stray(d)') <= attemptsMade'[d] + Used(d)' + faults'
        BY <1>1, <1>2, <2>1, <2>2, <2>4, <3>3, <3>4
      <3> QED BY <2>1, <3>3, <3>5 DEF PostOf
    <2> QED BY <2>1, <2>3, <2>4, <2>5
  <1>13. ~ FailUnheld(x)
    BY DEF FailUnheld, Holds
  <1> QED BY <1>5, <1>6, <1>9, <1>10, <1>11, <1>13 DEF WorkerMoves, WorkerStep, Stalls, Holds

\* A worker that has lost it.
LEMMA UnheldPost ==
    ASSUME TypeInv, TypeInv', PostInv, NEW x \in Workers, NEW d \in Deliveries,
           current[x] = d, holder[d] # x, WorkerMoves(x)
    PROVE  PostOf(d)'
  <1> USE DEF TypeInv, run, queue, history
  <1> DEFINE k == Cardinality(Stray(d))
  <1>0. /\ pc[x] # "idle"
        /\ \A y \in Workers \ {x} : pc'[y] = pc[y] /\ current'[y] = current[y]
        /\ pc'[x] = "idle" \/ current'[x] = d
    BY WorkerFrame DEF JobInv
  <1>1. /\ PostOf(d) /\ k \in Nat /\ posts[d] \in Nat /\ attemptsMade[d] \in Nat /\ faults \in Nat
        /\ posts[d] + k <= attemptsMade[d] + Used(d) + faults
    BY FS_CardinalityType DEF PostInv, PostOf, TypeOK
  <1>2. job' = job /\ holder' = holder /\ attemptsMade' = attemptsMade /\ faults' \in {faults, faults + 1}
    BY DEF WorkerMoves, WorkerStep, LoadDelivery, LoadWebhook, PostAnswered, PostLost, SaveEntity,
         Complete, FailRetry, FailForGood, FailUnheld, DatabaseFault, WorkerDeath, LoseLock, Holds, Fault
  <1>3. Used(d)' = Used(d) /\ Used(d) \in {0, 1}
    <2>1. holder[d] # None => pc'[holder[d]] = pc[holder[d]]
      BY <1>0 DEF TypeOK
    <2> QED BY <1>2, <2>1 DEF Used
  <1>4. pc'[x] \in {"load", "lookup", "post"} => pc[x] \in {"load", "lookup", "post"} /\ posts'[d] = posts[d]
    <2>1. CASE Idle(x)
      BY <2>1 DEF Idle, Goto, TypeOK
    <2>2. CASE PostLost(x) \/ \E ok \in BOOLEAN : PostAnswered(x, ok)
      <3>1. Goto(x, "save") \/ Goto(x, "fail")
        BY <2>2 DEF PostLost, PostAnswered
      <3> QED BY <3>1 DEF Goto, TypeOK
    <2>3. CASE LoadDelivery(x) \/ LoadWebhook(x) \/ SaveEntity(x) \/ DatabaseFault(x) \/ LoseLock(x)
      BY <2>3 DEF LoadDelivery, LoadWebhook, SaveEntity, DatabaseFault, LoseLock, Goto, TypeOK
    <2> QED BY <2>1, <2>2, <2>3
         DEF WorkerMoves, WorkerStep, Complete, FailRetry, FailForGood, FailUnheld, WorkerDeath
  <1>5. posts'[d] = posts[d] \/ (posts'[d] = posts[d] + 1 /\ pc[x] = "post")
    BY WorkerTouches
  <1>6. CASE pc'[x] \in {"load", "lookup", "post"}
    <2>1. \A y \in Workers : y \in Stray(d)' <=> y \in Stray(d)
      BY <1>0, <1>2, <1>4, <1>6 DEF Stray
    <2>2. Stray(d)' = Stray(d)
      BY <2>1 DEF Stray
    <2> QED BY <1>1, <1>2, <1>3, <1>4, <1>6, <2>2 DEF PostOf
  <1>7. CASE pc'[x] \notin {"load", "lookup", "post"}
    <2>1. \A y \in Workers : y \in Stray(d)' <=> y \in Stray(d) \ {x}
      BY <1>0, <1>2, <1>7 DEF Stray
    <2>2. Stray(d)' = Stray(d) \ {x}
      BY <2>1 DEF Stray
    <2>3. pc[x] = "post" => x \in Stray(d)
      BY DEF Stray
    <2>4. /\ IsFiniteSet(Stray(d)') /\ Cardinality(Stray(d)') <= k
          /\ pc[x] = "post" => Cardinality(Stray(d)') = k - 1
      BY <1>1, <2>2, <2>3, OneLess DEF PostOf
    <2>5. Cardinality(Stray(d)') \in Nat
      BY <2>4, FS_CardinalityType
    <2>6. posts'[d] + Cardinality(Stray(d)') <= attemptsMade'[d] + Used(d)' + faults'
      BY <1>1, <1>2, <1>3, <1>5, <2>4, <2>5
    <2> QED BY <1>1, <1>2, <2>4, <2>6 DEF PostOf
  <1> QED BY <1>6, <1>7

LEMMA WorkerPostInv ==
    ASSUME TypeInv, TypeInv', PostInv, NEW x \in Workers, WorkerMoves(x) PROVE PostInv'
  <1> DEFINE d == current[x]
  <1>1. /\ pc[x] # "idle" /\ d \in Deliveries
        /\ \A y \in Workers \ {x} : pc'[y] = pc[y] /\ current'[y] = current[y]
        /\ pc'[x] = "idle" \/ current'[x] = d
        /\ \A c \in Deliveries \ {d} : /\ posts'[c] = posts[c] /\ job'[c] = job[c]
                                       /\ attemptsMade'[c] = attemptsMade[c] /\ holder'[c] = holder[c]
    BY WorkerFrame
  <1>2. faults <= faults'
    <2>1. faults \in Nat
      BY DEF TypeInv, TypeOK
    <2>2. faults' \in {faults, faults + 1}
      BY DEF WorkerMoves, WorkerStep, LoadDelivery, LoadWebhook, PostAnswered, PostLost,
           SaveEntity, Complete, FailRetry, FailForGood, FailUnheld, DatabaseFault, WorkerDeath, LoseLock, Fault
    <2> QED BY <2>1, <2>2
  <1>3. ASSUME NEW c \in Deliveries \ {d} PROVE PostOf(c)'
    <2>1. \A y \in Workers : y \in Stray(c)' <=> y \in Stray(c)
      BY <1>1 DEF Stray
    <2>2. Stray(c)' = Stray(c)
      BY <2>1 DEF Stray
    <2>3. holder[c] # x
      BY DEF TypeInv, JobInv
    <2>4. holder[c] # None => pc'[holder[c]] = pc[holder[c]]
      BY <1>1, <2>3 DEF TypeInv, TypeOK
    <2>5. Used(c)' = Used(c)
      BY <1>1, <2>4 DEF Used
    <2> QED BY <1>1, <1>2, <2>2, <2>5, PostFrame
  <1>4. ASSUME NEW c \in Deliveries, current[x] = c PROVE PostOf(c)'
    <2>1. CASE holder[c] = x
      BY <1>4, <2>1, HeldPost
    <2>2. CASE holder[c] # x
      BY <1>4, <2>2, UnheldPost
    <2> QED BY <2>1, <2>2
  <1>5. ASSUME NEW c \in Deliveries PROVE PostOf(c)'
    <2>1. CASE current[x] = c
      BY <1>4, <2>1
    <2>2. CASE current[x] # c
      BY <1>3, <2>2
    <2> QED BY <2>1, <2>2
  <1> HIDE DEF d
  <1> QED BY <1>5 DEF PostInv

LEMMA StepPostInv == TypeInv /\ TypeInv' /\ PostInv /\ [Next]_vars => PostInv'
  <1> SUFFICES ASSUME TypeInv, TypeInv', PostInv, [Next]_vars PROVE PostInv'
    OBVIOUS
  <1> USE DEF run, queue, history, producer
  <1>1. ASSUME UNCHANGED <<run, posts, attemptsMade, holder>>, faults <= faults',
               \A d \in Deliveries : job'[d] = job[d] \/ (job[d] \in {"none", "delayed"} /\ job'[d] = "waiting")
        PROVE  PostInv'
    <2> SUFFICES ASSUME NEW d \in Deliveries PROVE PostOf(d)'
      BY DEF PostInv
    <2>1. Stray(d)' = Stray(d)
      BY <1>1 DEF Stray
    <2>2. Used(d)' = Used(d)
      BY <1>1 DEF Used
    <2>3. CASE job'[d] = job[d]
      BY <1>1, <2>1, <2>2, <2>3, PostFrame
    <2>4. CASE job'[d] = "waiting"
      <3>1. PostOf(d) /\ Cardinality(Stray(d)) \in Nat
        BY FS_CardinalityType DEF PostInv, PostOf
      <3>2. posts[d] \in Nat /\ attemptsMade[d] \in Nat /\ faults \in Nat /\ faults' \in Nat
        BY DEF TypeInv, TypeOK
      <3>3. Used(d) \in {0, 1}
        BY DEF Used
      <3> QED BY <1>1, <2>1, <2>2, <2>4, <3>1, <3>2, <3>3 DEF PostOf
    <2> QED BY <1>1, <2>3, <2>4
  <1>2. ASSUME NEW e \in Events, AddJob(e) PROVE PostInv'
    <2>1. \A d \in Deliveries : job'[d] = job[d] \/ (job[d] = "none" /\ job'[d] = "waiting")
      BY <1>2 DEF AddJob, TypeInv, TypeOK, LocalInv
    <2>2. UNCHANGED <<run, posts, attemptsMade, holder>> /\ faults <= faults'
      BY <1>2 DEF AddJob, TypeInv, TypeOK
    <2> QED BY <1>1, <2>1, <2>2
  <1>3. ASSUME NEW d \in Deliveries, Promote(d) PROVE PostInv'
    <2>1. \A c \in Deliveries : job'[c] = job[c] \/ (job[c] = "delayed" /\ job'[c] = "waiting")
      BY <1>3 DEF Promote, TypeInv, TypeOK
    <2>2. UNCHANGED <<run, posts, attemptsMade, holder>> /\ faults <= faults'
      BY <1>3 DEF Promote, TypeInv, TypeOK
    <2> QED BY <1>1, <2>1, <2>2
  <1>4. CASE UNCHANGED <<run, queue, posts>> /\ faults <= faults'
    BY <1>1, <1>4
  <1>5. ASSUME NEW x \in Workers, NEW d \in Deliveries, TakeJob(x, d) PROVE PostInv'
    <2>1. /\ pc[x] = "idle" /\ pc'[x] = "load" /\ current'[x] = d /\ job[d] = "waiting" /\ job'[d] = "active"
          /\ holder[d] = None /\ holder'[d] = x
          /\ \A y \in Workers \ {x} : pc'[y] = pc[y] /\ current'[y] = current[y]
          /\ \A c \in Deliveries \ {d} : holder'[c] = holder[c] /\ job'[c] = job[c]
          /\ UNCHANGED <<attemptsMade, posts, faults>>
      BY <1>5 DEF TakeJob, Goto, TypeInv, TypeOK, JobInv
    <2> SUFFICES ASSUME NEW c \in Deliveries PROVE PostOf(c)'
      BY DEF PostInv
    <2>2. \A y \in Workers : y \in Stray(c)' <=> y \in Stray(c)
      BY <2>1 DEF Stray, TypeInv, TypeOK
    <2>3. Stray(c)' = Stray(c)
      BY <2>2 DEF Stray
    <2>4. CASE c # d
      <3>1. holder[c] # None => holder[c] # x
        BY <2>1 DEF TypeInv, JobInv
      <3>2. holder[c] # None => pc'[holder[c]] = pc[holder[c]]
        BY <2>1, <3>1 DEF TypeInv, TypeOK
      <3>3. Used(c)' = Used(c)
        BY <2>1, <2>4, <3>2 DEF Used
      <3>4. faults <= faults'
        BY <2>1 DEF TypeInv, TypeOK
      <3> QED BY <2>1, <2>3, <2>4, <3>3, <3>4, PostFrame
    <2>5. CASE c = d
      <3>1. Used(d) = 0 /\ Used(d)' = 0
        BY <2>1 DEF Used
      <3> QED BY <2>1, <2>3, <2>5, <3>1 DEF PostInv, PostOf
    <2> QED BY <2>4, <2>5
  <1>6. faults <= faults /\ faults <= faults + 1
    BY DEF TypeInv, TypeOK
  <1>7. CASE UserStep \/ UNCHANGED vars \/ Quiescent
    BY <1>4, <1>6, <1>7 DEF UserStep, CreateWebhook, RemoveWebhook, RecordEvent, TestWebhook, vars, Quiescent
  <1>8. ASSUME NEW e \in Events, ProducerStep(e) \/ ProducerFault(e) PROVE PostInv'
    BY <1>2, <1>4, <1>6, <1>8 DEF ProducerStep, FindWebhooks, SaveDelivery, FinishDispatch, ProducerFault, Fault
  <1>9. ASSUME NEW d \in Deliveries, JobStep(d) \/ HandlerStep(d) \/ HandlerFault(d) PROVE PostInv'
    BY <1>3, <1>4, <1>5, <1>6, <1>9 DEF JobStep, HandlerStep, MarkDead, Notify, HandlerFault, Fault
  <1> QED BY <1>7, <1>8, <1>9, WorkerPostInv DEF Next, FaultStep, WorkerMoves

\* A receiver is POSTed to once per attempt and once more per fault at most,
\* and the row shows no attempt and no 2xx that there was not, for any number
\* of workers, attempts and faults.
THEOREM PostsAreAttempts == Spec => []PostsBounded
  <1>1. Init => ShownInv
    BY DEF Init, ShownInv, NoRow
  <1>2. Init => PostInv
    <2> SUFFICES ASSUME Init, NEW d \in Deliveries PROVE PostOf(d)
      BY DEF PostInv
    <2>1. Stray(d) = {}
      BY DEF Init, Stray
    <2> QED BY <2>1, FS_EmptySet DEF Init, PostOf, Used
  <1> QED BY <1>1, <1>2, InitTypeInv, StepTypeInv, StepShownInv, StepPostInv, PostInvImplies, PTL DEF Spec

-----------------------------------------------------------------------------
(* Workers that keep their locks: one delivery, one worker.                *)

NoLostLock == "lock" \notin Faults

\* What a worker saves next to what the row says: nobody else has changed it.
WorkOf(x) ==
    /\ holder[current[x]] = x
    /\ pc[x] = "lookup" => /\ row[current[x]].status # "success"
                           /\ entity[x].status = row[current[x]].status
    /\ pc[x] = "post" => row[current[x]].status \in Open
    /\ pc[x] = "save" =>
          /\ entity[x].status # "pending"
          /\ \/ row[current[x]].status \in Open
             \/ row[current[x]].status = "dead" /\ entity[x].status = "dead"
          /\ entity[x].status = "dead" => hooks[current[x][2]] = "removed"
    /\ pc[x] = "complete" => row[current[x]].status \in Terminal

\* A job ends as its row says, and onFailed is called for one that failed; it
\* goes on for one without attempts left.
EndOf(d) ==
    /\ job[d] # "failed" /\ row[d].status = "dead" => hooks[d[2]] = "removed"
    /\ job[d] = "completed" => row[d].status \in Terminal
    /\ job[d] = "failed" => attemptsMade[d] = MaxAttempts \/ Abandoned(d)
    /\ handler[d] = "none" <=> job[d] # "failed"
    /\ handler[d] \in {"update", "notify"} => attemptsMade[d] = MaxAttempts
    /\ handler[d] \in {"none", "update", "notify"} => notified[d] = 0

LockInv ==
    /\ \A x \in Workers : pc[x] # "idle" => WorkOf(x)
    /\ \A d \in Deliveries : EndOf(d)

\* Who is busy with a delivery has the job, which is active, and a row.
LEMMA BusyFacts ==
    ASSUME TypeInv, FanInv, LockInv, NEW x \in Workers, pc[x] # "idle"
    PROVE  /\ current[x] \in Deliveries /\ holder[current[x]] = x
           /\ job[current[x]] = "active" /\ row[current[x]].status # "none"
           /\ WorkOf(x) /\ EndOf(current[x])
  BY DEF TypeInv, TypeOK, JobInv, LocalInv, FanInv, BusyInv, LockInv, WorkOf

\* It is enough to look at the delivery the worker is on.
LEMMA WorkerLockFrame ==
    ASSUME TypeInv, FanInv, LockInv, NEW x \in Workers, NEW d \in Deliveries, current[x] = d,
           WorkerMoves(x), pc'[x] # "idle" => WorkOf(x)', EndOf(d)'
    PROVE  LockInv'
  <1>1. /\ pc[x] # "idle" /\ UNCHANGED <<producer, notified>>
        /\ \A y \in Workers \ {x} : pc'[y] = pc[y] /\ current'[y] = current[y] /\ entity'[y] = entity[y]
        /\ \A c \in Deliveries \ {d} :
              /\ row'[c] = row[c] /\ handler'[c] = handler[c]
              /\ job'[c] = job[c] /\ holder'[c] = holder[c]
              /\ attemptsMade'[c] = attemptsMade[c] /\ stalls'[c] = stalls[c]
    BY WorkerFrame
  <1>2. ASSUME NEW y \in Workers \ {x}, pc'[y] # "idle" PROVE WorkOf(y)'
    <2>1. pc[y] # "idle"
      BY <1>1, <1>2
    <2>2. WorkOf(y) /\ current[y] \in Deliveries \ {d}
      BY <1>1, <2>1, BusyFacts
    <2> QED BY <1>1, <2>2 DEF WorkOf, producer
  <1>3. ASSUME NEW c \in Deliveries \ {d} PROVE EndOf(c)'
    <2>1. EndOf(c)
      BY DEF LockInv
    <2> QED BY <1>1, <2>1 DEF EndOf, Abandoned, producer
  <1> QED BY <1>2, <1>3 DEF LockInv

LEMMA WorkerLockInv ==
    ASSUME NoLostLock, TypeInv, FanInv, LockInv, NEW x \in Workers,
           NEW d \in Deliveries, current[x] = d, WorkerMoves(x)
    PROVE  LockInv'
  <1>1. /\ pc[x] # "idle" /\ holder[d] = x
        /\ job[d] = "active" /\ row[d].status # "none"
        /\ WorkOf(x) /\ EndOf(d)
    BY WorkerFrame, BusyFacts
  <1> SUFFICES (pc'[x] # "idle" => WorkOf(x)') /\ EndOf(d)'
    BY WorkerLockFrame
  <1> USE DEF TypeInv, TypeOK, queue, history, producer
  <1>2. CASE LoadDelivery(x)
    <2>1. /\ entity'[x] = row[d] /\ current' = current
          /\ pc'[x] = IF row[d].status \in {"none", "success"} THEN "complete" ELSE "lookup"
          /\ UNCHANGED <<hooks, row, holder, job, handler, notified>>
      BY <1>2 DEF LoadDelivery, Goto
    <2> QED BY <1>1, <2>1 DEF WorkOf, EndOf, Terminal
  <1>3. CASE LoadWebhook(x)
    <2>1. /\ UNCHANGED <<hooks, row, holder, job, handler, notified, current>> /\ pc[x] = "lookup"
          /\ \/ pc'[x] = "post" /\ hooks[d[2]] = "active"
             \/ /\ pc'[x] = "save" /\ entity'[x].status = "dead"
                /\ hooks[d[2]] # "active"
      BY <1>3 DEF LoadWebhook, Goto, Rows
    <2>2. hooks[d[2]] \in {"active", "removed"}
      <3>1. PICK e \in Events, w \in Webhooks : d = <<e, w>>
        BY <1>1 DEF Deliveries
      <3>2. FanOf(e) /\ row[<<e, w>>].status # "none"
        BY <1>1, <3>1 DEF FanInv
      <3>3. hooks[w] # "new" /\ hooks[w] \in {"new", "active", "removed"}
        BY <3>2 DEF FanOf
      <3> QED BY <3>1, <3>3
    <2>3. row[d].status \in Open \cup {"dead"}
      BY <1>1, <2>1 DEF WorkOf, Rows, Statuses, Terminal
    <2>4. row[d].status = "dead" => hooks[d[2]] = "removed"
      BY <1>1 DEF EndOf
    <2>5. WorkOf(x)'
      BY <1>1, <2>1, <2>2, <2>3, <2>4 DEF WorkOf
    <2> QED BY <1>1, <2>1, <2>5 DEF EndOf
  <1>4. CASE PostLost(x) \/ \E ok \in BOOLEAN : PostAnswered(x, ok)
    <2>1. /\ UNCHANGED <<hooks, row, holder, job, handler, notified, current>> /\ pc[x] = "post"
          /\ Goto(x, "save") \/ Goto(x, "fail")
      BY <1>4 DEF PostLost, PostAnswered
    <2>2. pc'[x] = "save" => entity'[x].status \in {"success", "failed"}
      <3>1. ASSUME NEW ok \in BOOLEAN, PostAnswered(x, ok) PROVE entity'[x].status \in {"success", "failed"}
        BY <3>1 DEF PostAnswered, Rows
      <3>2. ASSUME PostLost(x), pc'[x] = "save" PROVE entity'[x].status = "failed"
        BY <3>2 DEF PostLost, Goto, Rows
      <3> QED BY <1>4, <3>1, <3>2
    <2>3. pc'[x] \in {"save", "fail"}
      BY <2>1 DEF Goto
    <2> QED BY <1>1, <2>1, <2>2, <2>3 DEF WorkOf, EndOf
  <1>5. CASE SaveEntity(x) \/ DatabaseFault(x)
    <2>1. /\ UNCHANGED <<hooks, holder, job, handler, notified, current, entity>>
          /\ row' = row \/ (pc[x] = "save" /\ row' = [row EXCEPT ![d] = entity[x]])
          /\ \/ Goto(x, "fail")
             \/ /\ Goto(x, "complete") /\ entity[x].status # "failed"
                /\ pc[x] = "save" /\ row' = [row EXCEPT ![d] = entity[x]]
      BY <1>5 DEF SaveEntity, DatabaseFault
    <2>2. /\ row'[d] = row[d] \/ (pc[x] = "save" /\ row'[d] = entity[x])
          /\ \/ pc'[x] = "fail"
             \/ /\ pc'[x] = "complete" /\ entity[x].status # "failed"
                /\ pc[x] = "save" /\ row'[d] = entity[x]
      BY <1>1, <2>1 DEF Goto
    <2>3. pc[x] = "save" => entity[x].status \in {"failed", "success", "dead"}
      BY <1>1 DEF WorkOf, LocalInv, Rows, Statuses, Open, Terminal
    <2>4. EndOf(d)'
      BY <1>1, <2>1, <2>2 DEF WorkOf, EndOf
    <2>5. WorkOf(x)'
      BY <1>1, <2>1, <2>2, <2>3 DEF WorkOf, Terminal
    <2> QED BY <2>4, <2>5
  <1>6. CASE Ends(x) /\ ~ Stalls(x)
    <2>1. pc'[x] = "idle" /\ UNCHANGED <<hooks, row, notified>>
      BY <1>6, EndFrame DEF Idle, Goto
    <2>2. CASE Complete(x)
      BY <1>1, <2>1, <2>2 DEF Complete, Holds, Release, WorkOf, EndOf
    <2>3. CASE FailRetry(x)
      BY <1>1, <2>1, <2>3 DEF FailRetry, Release, EndOf
    <2>4. CASE FailForGood(x)
      <3>1. attemptsMade'[d] = MaxAttempts
        BY <1>1, <2>4 DEF FailForGood, JobInv
      <3> QED BY <1>1, <2>1, <2>4, <3>1 DEF FailForGood, Release, EndOf
    <2>5. ~ WorkerDeath(x) /\ ~ FailUnheld(x)
      BY <1>1, <1>6 DEF FailUnheld, Stalls, Holds
    <2> QED BY <1>6, <2>1, <2>2, <2>3, <2>4, <2>5 DEF Ends
  <1>7. CASE Stalls(x)
    <2>1. pc'[x] = "idle"
      BY <1>7 DEF Stalls, LoseLock, Fault, NoLostLock, WorkerDeath, Idle, Goto
    <2>2. UNCHANGED <<hooks, row, notified>> /\ handler[d] = "none"
      BY <1>1, <1>7, StallsFrame DEF EndOf
    <2>3. \/ job'[d] = "waiting" /\ handler'[d] = "none"
          \/ job'[d] = "failed" /\ handler'[d] = "update" /\ attemptsMade'[d] = MaxAttempts
          \/ job'[d] = "failed" /\ handler'[d] = "logged" /\ Abandoned(d)'
      BY <1>7, <2>2, StallsFrame, StallTouches DEF Abandoned
    <2> QED BY <1>1, <2>1, <2>2, <2>3 DEF EndOf
  <1> QED BY <1>2, <1>3, <1>4, <1>5, <1>6, <1>7, WorkerKinds DEF Walks

LEMMA QueueLockInv ==
    ASSUME TypeInv, FanInv, LockInv, NEW d \in Deliveries, JobStep(d) \/ HandlerStep(d) \/ HandlerFault(d)
    PROVE  LockInv'
  <1> USE DEF TypeInv, TypeOK, producer, queue, run, history
  <1>1. \A c \in Deliveries : EndOf(c)
    BY DEF LockInv
  \* Nobody is busy with a delivery whose job is not active.
  <1>2. job[d] # "active" => \A y \in Workers : pc[y] # "idle" => current[y] # d
    BY BusyFacts
  <1>3. ASSUME UNCHANGED <<hooks, run, attemptsMade, stalls, holder>>, job[d] # "active",
               \A c \in Deliveries \ {d} : row'[c] = row[c] /\ job'[c] = job[c]
                                           /\ handler'[c] = handler[c] /\ notified'[c] = notified[c],
               EndOf(d)'
        PROVE  LockInv'
    <2>1. ASSUME NEW y \in Workers, pc'[y] # "idle" PROVE WorkOf(y)'
      <3>1. WorkOf(y) /\ current[y] \in Deliveries \ {d}
        BY <1>2, <1>3, <2>1, BusyFacts
      <3> QED BY <1>3, <3>1 DEF WorkOf
    <2>2. ASSUME NEW c \in Deliveries \ {d} PROVE EndOf(c)'
      BY <1>1, <1>3 DEF EndOf, Abandoned
    <2> QED BY <1>3, <2>1, <2>2 DEF LockInv
  <1>4. CASE Promote(d)
    <2>1. job'[d] = "waiting" /\ job[d] = "delayed"
      BY <1>4 DEF Promote
    <2>2. EndOf(d)'
      BY <1>1, <1>4, <2>1 DEF Promote, EndOf
    <2> QED BY <1>3, <1>4, <2>1, <2>2 DEF Promote
  <1>5. ASSUME NEW x \in Workers, TakeJob(x, d) PROVE LockInv'
    <2>1. /\ pc[x] = "idle" /\ job[d] = "waiting"
          /\ UNCHANGED <<hooks, row, attemptsMade, stalls, handler, notified>>
          /\ pc'[x] = "load" /\ current'[x] = d /\ holder'[d] = x /\ job'[d] = "active"
          /\ \A y \in Workers \ {x} : pc'[y] = pc[y] /\ current'[y] = current[y] /\ entity'[y] = entity[y]
          /\ \A c \in Deliveries \ {d} : job'[c] = job[c] /\ holder'[c] = holder[c]
      BY <1>5 DEF TakeJob, Goto
    <2>2. ASSUME NEW y \in Workers \ {x}, pc'[y] # "idle" PROVE WorkOf(y)'
      <3>1. WorkOf(y) /\ current[y] \in Deliveries \ {d}
        BY <1>2, <2>1, <2>2, BusyFacts
      <3> QED BY <2>1, <3>1 DEF WorkOf
    <2>3. WorkOf(x)'
      BY <2>1 DEF WorkOf
    <2>4. ASSUME NEW c \in Deliveries PROVE EndOf(c)'
      BY <1>1, <2>1 DEF EndOf, Abandoned
    <2> QED BY <2>2, <2>3, <2>4 DEF LockInv
  <1>6. CASE MarkDead(d)
    <2>1. /\ job[d] = "failed" /\ handler[d] = "update" /\ notified[d] = 0
          /\ attemptsMade[d] = MaxAttempts
      BY <1>1, <1>6 DEF MarkDead, EndOf
    <2>2. /\ handler'[d] = "notify" /\ job'[d] = "failed" /\ notified'[d] = 0
          /\ attemptsMade'[d] = MaxAttempts
      BY <1>6, <2>1 DEF MarkDead
    <2>3. EndOf(d)'
      BY <2>2 DEF EndOf
    <2> QED BY <1>3, <1>6, <2>1, <2>3 DEF MarkDead
  <1>7. CASE Notify(d) \/ HandlerFault(d)
    <2>1. /\ job[d] = "failed" /\ UNCHANGED <<hooks, row, queue, run>>
          /\ attemptsMade[d] = MaxAttempts
      BY <1>1, <1>7 DEF Notify, HandlerFault, EndOf
    <2>2. handler'[d] \in {"done", "lost"}
      BY <1>7 DEF Notify, HandlerFault
    <2>3. EndOf(d)'
      BY <2>1, <2>2 DEF EndOf
    <2> QED BY <1>3, <1>7, <2>1, <2>3 DEF Notify, HandlerFault
  <1> QED BY <1>4, <1>5, <1>6, <1>7 DEF JobStep, HandlerStep

LEMMA CallLockInv ==
    ASSUME TypeInv, FanInv, LockInv,
           UserStep \/ \E e \in Events : ProducerStep(e) \/ ProducerFault(e)
    PROVE  LockInv'
  <1> USE DEF TypeInv, TypeOK, producer, queue, run, history
  <1>1. ASSUME UNCHANGED <<attemptsMade, stalls, holder, run, handler, notified>>,
               \A w \in Webhooks : hooks[w] = "removed" => hooks'[w] = "removed",
               \A d \in Deliveries :
                   \/ row'[d] = row[d] /\ job'[d] = job[d]
                   \/ row[d].status = "none" /\ row'[d].status = "pending" /\ job'[d] = job[d]
                   \/ job[d] = "none" /\ job'[d] = "waiting" /\ row'[d] = row[d]
        PROVE  LockInv'
    <2>1. ASSUME NEW y \in Workers, pc'[y] # "idle" PROVE WorkOf(y)'
      <3>1. /\ WorkOf(y) /\ current[y] \in Deliveries
            /\ row[current[y]].status # "none" /\ job[current[y]] = "active"
        BY <1>1, <2>1, BusyFacts
      <3>2. row'[current[y]] = row[current[y]] /\ current[y][2] \in Webhooks
        BY <1>1, <3>1 DEF Deliveries
      <3> QED BY <1>1, <3>1, <3>2 DEF WorkOf
    <2>2. ASSUME NEW d \in Deliveries PROVE EndOf(d)'
      <3>1. EndOf(d) /\ d[2] \in Webhooks /\ (row[d].status = "none" => job[d] = "none")
        BY DEF LockInv, Deliveries, LocalInv
      <3> QED BY <1>1, <3>1 DEF EndOf, Abandoned
    <2> QED BY <2>1, <2>2 DEF LockInv
  <1>2. ASSUME NEW w \in Webhooks, CreateWebhook(w) \/ RemoveWebhook(w) PROVE LockInv'
    <2>1. \A v \in Webhooks : hooks[v] = "removed" => hooks'[v] = "removed"
      BY <1>2 DEF CreateWebhook, RemoveWebhook
    <2> QED BY <1>1, <1>2, <2>1 DEF CreateWebhook, RemoveWebhook
  <1>3. ASSUME NEW e \in Events, NEW w \in Webhooks, SaveDelivery(e, w) PROVE LockInv'
    <2>1. row[<<e, w>>].status = "none" /\ <<e, w>> \in Deliveries
      BY <1>3 DEF SaveDelivery, Unvisited, Deliveries
    <2>2. \A d \in Deliveries : row'[d] = IF d = <<e, w>> THEN NewRow ELSE row[d]
      BY <1>3, <2>1 DEF SaveDelivery
    <2> QED BY <1>1, <1>3, <2>1, <2>2 DEF SaveDelivery, NewRow
  <1>4. ASSUME NEW e \in Events, AddJob(e) PROVE LockInv'
    <2>1. <<e, saved[e]>> \in Deliveries /\ job[<<e, saved[e]>>] = "none"
      BY <1>4 DEF AddJob, LocalInv, Deliveries
    <2>2. \A d \in Deliveries : job'[d] = IF d = <<e, saved[e]>> THEN "waiting" ELSE job[d]
      BY <1>4, <2>1 DEF AddJob
    <2> QED BY <1>1, <1>4, <2>1, <2>2 DEF AddJob
  <1> QED BY <1>1, <1>2, <1>3, <1>4 DEF UserStep, RecordEvent, TestWebhook, ProducerStep,
          FindWebhooks, FinishDispatch, ProducerFault

LEMMA StepLockInv == NoLostLock /\ TypeInv /\ FanInv /\ LockInv /\ [Next]_vars => LockInv'
  <1> SUFFICES ASSUME NoLostLock, TypeInv, FanInv, LockInv, [Next]_vars PROVE LockInv'
    OBVIOUS
  <1>1. CASE UNCHANGED vars
    BY <1>1 DEF vars, producer, queue, run, history, LockInv, WorkOf, EndOf, Abandoned
  <1>2. ASSUME NEW x \in Workers, WorkerMoves(x) PROVE LockInv'
    <2>1. current[x] \in Deliveries
      BY <1>2, WorkerFrame
    <2> QED BY <1>2, <2>1, WorkerLockInv
  <1> QED BY <1>1, <1>2, QueueLockInv, CallLockInv DEF Next, Quiescent, FaultStep, WorkerMoves

LEMMA InitLockInv == Init => LockInv
  BY DEF Init, LockInv, EndOf, NoRow

-----------------------------------------------------------------------------
(* What is recorded as delivered or dead stays so.                         *)

LEMMA StepIsFinal ==
    ASSUME TypeInv, FanInv, DeadInv, LockInv, [Next]_vars, NEW d \in Deliveries
    PROVE  /\ row[d].status = "success" =>
                /\ posts'[d] = posts[d]
                /\ row'[d] = row[d] \/ attemptsMade[d] = MaxAttempts
           /\ row[d].status = "dead" => row'[d].status = "dead"
  <1> USE DEF TypeInv, TypeOK, history
  <1>1. ASSUME NEW x \in Workers, WorkerMoves(x)
        PROVE  /\ row[d].status = "success" => posts'[d] = posts[d] /\ row'[d] = row[d]
               /\ row[d].status = "dead" => row'[d].status = "dead"
    <2>1. CASE current[x] # d
      BY <1>1, <2>1, WorkerFrame
    <2>2. CASE current[x] = d
      <3>1. WorkOf(x)
        BY <1>1, WorkerFrame, BusyFacts
      <3>2. /\ row'[d] = row[d] \/ (pc[x] = "save" /\ row'[d] = entity[x])
            /\ posts'[d] = posts[d] \/ (pc[x] = "post" /\ posts'[d] = posts[d] + 1)
        BY <1>1, <2>2, WorkerTouches
      <3> QED BY <2>2, <3>1, <3>2 DEF WorkOf, Open
    <2> QED BY <2>1, <2>2
  <1>2. ASSUME NEW c \in Deliveries, JobStep(c) \/ HandlerStep(c) \/ HandlerFault(c)
        PROVE  posts' = posts /\ (row'[d] = row[d] \/ (attemptsMade[d] = MaxAttempts /\ row'[d].status = "dead"))
    <2>1. CASE MarkDead(c)
      <3>1. attemptsMade[c] = MaxAttempts
        BY <2>1 DEF MarkDead, DeadInv
      <3>2. row[c] \in Rows
        OBVIOUS
      <3>3. row'[d] = row[d] \/ (d = c /\ row'[d].status = "dead")
        BY <2>1, <3>2 DEF MarkDead, Rows
      <3> QED BY <2>1, <3>1, <3>3 DEF MarkDead
    <2> QED BY <1>2, <2>1 DEF JobStep, HandlerStep, Promote, TakeJob, Notify, HandlerFault
  <1>3. ASSUME NEW e \in Events, ProducerStep(e) \/ ProducerFault(e)
        PROVE  posts' = posts /\ (row'[d] = row[d] \/ row[d].status = "none")
    <2>1. ASSUME NEW w \in Webhooks, SaveDelivery(e, w)
          PROVE  posts' = posts /\ (row'[d] = row[d] \/ row[d].status = "none")
      BY <2>1 DEF SaveDelivery, Unvisited
    <2> QED BY <1>3, <2>1 DEF ProducerStep, FindWebhooks, AddJob, FinishDispatch, ProducerFault
  <1>4. CASE UserStep \/ UNCHANGED vars
    BY <1>4 DEF UserStep, CreateWebhook, RemoveWebhook, RecordEvent, TestWebhook, vars
  <1> QED BY <1>1, <1>2, <1>3, <1>4 DEF Next, Quiescent, FaultStep, WorkerMoves

\* As long as workers keep their locks, a delivery recorded as delivered is
\* not POSTed again and stays so unless all its attempts failed, and a dead
\* one stays dead, whichever calls, workers, database calls and handlers fail.
THEOREM Final == NoLostLock /\ Spec => TerminalIsFinal
  <1>1. "lock" \notin Faults => (Init /\ [][Next]_vars => TerminalIsFinal)
    <2> SUFFICES ASSUME "lock" \notin Faults PROVE Init /\ [][Next]_vars => TerminalIsFinal
      OBVIOUS
    <2>1. TypeInv /\ FanInv /\ LockInv /\ [Next]_vars => LockInv'
      BY StepLockInv DEF NoLostLock
    <2>2. TypeInv /\ FanInv /\ DeadInv /\ LockInv /\ [Next]_vars =>
            [\A d \in Deliveries :
               /\ row[d].status = "success" =>
                      /\ posts'[d] = posts[d]
                      /\ row'[d] = row[d] \/ attemptsMade[d] = MaxAttempts
               /\ row[d].status = "dead" => row'[d].status = "dead"]_vars
      BY StepIsFinal
    <2>3. Init => DeadInv
      BY DEF Init, DeadInv, DeadIsJustified, NoRow
    <2> QED BY <2>1, <2>2, InitTypeInv, StepTypeInv, InitFanInv, StepFanInv, <2>3, StepDeadInv,
               InitLockInv, PTL DEF TerminalIsFinal
  <1> QED BY <1>1, PTL DEF NoLostLock, Spec

-----------------------------------------------------------------------------
(* Every step is one of the outbox, or none.                               *)

LEMMA OutboxStep ==
    ASSUME UNCHANGED notified,
           NEW d \in Deliveries, \A c \in Deliveries \ {d} : Phase(c)' = Phase(c),
           \/ Phase(d)' = Phase(d)
           \/ Phase(d) = "none" /\ Phase(d)' = "open"
           \/ Phase(d) = "open" /\ Phase(d)' \in Queue!Outcomes
    PROVE  [Queue!Next]_(Queue!vars)
  <1> DEFINE ph == [c \in Deliveries |-> Phase(c)]
  <1>1. CASE Phase(d)' = Phase(d)
    <2>1. ph' = ph
      BY <1>1
    <2> QED BY <2>1 DEF Queue!vars
  <1>2. CASE Phase(d) = "none" /\ Phase(d)' = "open"
    <2>1. ph' = [ph EXCEPT ![d] = "open"]
      <3>1. \A c \in Deliveries : ph'[c] = IF c = d THEN "open" ELSE ph[c]
        BY <1>2
      <3> QED BY <3>1
    <2>2. Queue!Enqueue(d)
      BY <1>2, <2>1 DEF Queue!Enqueue
    <2> QED BY <2>2 DEF Queue!Next
  <1>3. CASE Phase(d) = "open" /\ Phase(d)' \in Queue!Outcomes
    <2>1. ph' = [ph EXCEPT ![d] = Phase(d)']
      BY <1>3
    <2>2. Queue!Resolve(d)
      BY <1>3, <2>1 DEF Queue!Resolve, Queue!Outcomes
    <2> QED BY <2>2 DEF Queue!Next
  <1> QED BY <1>1, <1>2, <1>3

\* What a step leaves of a delivery that decides on its phase.
SameJob(d) == job'[d] = job[d] /\ attemptsMade'[d] = attemptsMade[d] /\ stalls'[d] = stalls[d]

JobStates == {"none", "waiting", "active", "delayed", "completed", "failed"}

\* A step on one delivery's job, which leaves its row alone if it is over.
LEMMA DeliveryStepMaps ==
    ASSUME TypeInv, TypeInv', LockInv', UNCHANGED notified,
           NEW d \in Deliveries,
           \A c \in Deliveries \ {d} : SameJob(c) /\ row'[c] = row[c],
           \/ SameJob(d) /\ (job[d] = "completed" => row'[d] = row[d])
           \/ job[d] = "none" /\ job'[d] = "waiting"
           \/ job[d] \in {"waiting", "active", "delayed"} /\ job'[d] # "none"
    PROVE  [Queue!Next]_(Queue!vars)
  <1>1. \A c \in Deliveries \ {d} : Phase(c)' = Phase(c)
    BY DEF Phase, Abandoned, SameJob
  <1>2. job[d] \in JobStates /\ job'[d] \in JobStates
    BY DEF TypeInv, TypeOK, JobStates
  <1>3. /\ job'[d] = "completed" => row'[d].status \in {"success", "dead"}
        /\ job'[d] = "failed" => attemptsMade'[d] = MaxAttempts \/ Abandoned(d)'
    BY DEF LockInv, EndOf, Terminal
  <1>4. CASE SameJob(d) /\ (job[d] = "completed" => row'[d] = row[d])
    <2>1. Phase(d)' = Phase(d)
      BY <1>4 DEF Phase, Abandoned, SameJob
    <2> QED BY <1>1, <2>1, OutboxStep
  <1>5. CASE job[d] = "none" /\ job'[d] = "waiting"
    <2>1. Phase(d) = "none" /\ Phase(d)' = "open"
      BY <1>5 DEF Phase
    <2> QED BY <1>1, <2>1, OutboxStep
  <1>6. CASE job[d] \in {"waiting", "active", "delayed"} /\ job'[d] # "none"
    <2>1. Phase(d) = "open"
      BY <1>6 DEF Phase
    <2>2. Phase(d)' \in {"open"} \cup Queue!Outcomes
      BY <1>2, <1>3, <1>6 DEF Phase, JobStates, Queue!Outcomes
    <2> QED BY <1>1, <2>1, <2>2, OutboxStep
  <1> QED BY <1>4, <1>5, <1>6

LEMMA LastFails ==
    ASSUME NEW d \in Deliveries, job[d] = "failed", attemptsMade[d] = MaxAttempts
    PROVE  Phase(d) = "exhausted"
  BY DEF Phase, Abandoned

LEMMA StepMaps ==
    ASSUME TypeInv, TypeInv', FanInv, LockInv, LockInv', [Next]_vars
    PROVE  [Queue!Next]_(Queue!vars)
  <1> USE DEF TypeInv, TypeOK, queue, history
  <1>1. ASSUME NEW x \in Workers, WorkerMoves(x) PROVE [Queue!Next]_(Queue!vars)
    <2>1. ASSUME NEW d \in Deliveries, current[x] = d PROVE [Queue!Next]_(Queue!vars)
      <3>1. /\ job[d] = "active" /\ UNCHANGED notified
            /\ \A c \in Deliveries \ {d} : SameJob(c) /\ row'[c] = row[c]
        BY <1>1, <2>1, WorkerFrame, BusyFacts DEF SameJob
      <3>2. job'[d] # "none"
        BY <1>1, <2>1, <3>1, WorkerTouches
      <3> QED BY <3>1, <3>2, DeliveryStepMaps
    <2> QED BY <1>1, <2>1, WorkerFrame
  <1>2. ASSUME NEW d \in Deliveries, JobStep(d) \/ MarkDead(d) \/ HandlerFault(d)
        PROVE  [Queue!Next]_(Queue!vars)
    <2>1. UNCHANGED notified /\ \A c \in Deliveries \ {d} : SameJob(c) /\ row'[c] = row[c]
      BY <1>2 DEF JobStep, Promote, TakeJob, MarkDead, HandlerFault, SameJob
    <2>2. CASE JobStep(d)
      <3>1. job[d] \in {"waiting", "delayed"} /\ job'[d] # "none"
        BY <2>2 DEF JobStep, Promote, TakeJob
      <3> QED BY <2>1, <3>1, DeliveryStepMaps
    <2>3. CASE MarkDead(d) \/ HandlerFault(d)
      <3>1. SameJob(d) /\ (MarkDead(d) => job[d] = "failed") /\ (HandlerFault(d) => row' = row)
        BY <2>3 DEF MarkDead, HandlerFault, LockInv, EndOf, SameJob
      <3> QED BY <2>1, <2>3, <3>1, DeliveryStepMaps
    <2> QED BY <1>2, <2>2, <2>3
  <1>3. ASSUME NEW d \in Deliveries, Notify(d) PROVE [Queue!Next]_(Queue!vars)
    <2> DEFINE ph == [c \in Deliveries |-> Phase(c)]
    <2>1. /\ job[d] = "failed" /\ attemptsMade[d] = MaxAttempts /\ notified[d] = 0
          /\ UNCHANGED <<job, attemptsMade, stalls, row>>
      BY <1>3 DEF Notify, LockInv, EndOf
    <2>2. ph' = ph
      BY <2>1 DEF Phase, Abandoned
    <2>3. ph[d] = "exhausted"
      BY <2>1, LastFails
    <2>4. notified' = [notified EXCEPT ![d] = 1]
      BY <1>3, <2>1 DEF Notify
    <2>5. Queue!Report(d)
      BY <2>1, <2>2, <2>3, <2>4 DEF Queue!Report
    <2> QED BY <2>5 DEF Queue!Next
  <1>4. ASSUME UNCHANGED <<job, attemptsMade, stalls, row, notified>>
        PROVE  [Queue!Next]_(Queue!vars)
    <2>1. [c \in Deliveries |-> Phase(c)]' = [c \in Deliveries |-> Phase(c)]
      BY <1>4 DEF Phase, Abandoned
    <2> QED BY <1>4, <2>1 DEF Queue!vars
  <1>5. ASSUME NEW e \in Events, ProducerStep(e) \/ ProducerFault(e) PROVE [Queue!Next]_(Queue!vars)
    <2>1. ASSUME NEW w \in Webhooks, SaveDelivery(e, w) PROVE [Queue!Next]_(Queue!vars)
      <3>1. /\ <<e, w>> \in Deliveries /\ job[<<e, w>>] = "none" /\ UNCHANGED notified
            /\ \A c \in Deliveries : SameJob(c)
        BY <2>1 DEF SaveDelivery, Unvisited, LocalInv, Deliveries, SameJob
      <3>2. \A c \in Deliveries \ {<<e, w>>} : row'[c] = row[c]
        BY <2>1 DEF SaveDelivery
      <3> QED BY <3>1, <3>2, DeliveryStepMaps
    <2>2. CASE AddJob(e)
      <3>1. <<e, saved[e]>> \in Deliveries /\ job[<<e, saved[e]>>] = "none"
        BY <2>2 DEF AddJob, LocalInv, Deliveries
      <3>2. /\ UNCHANGED <<row, notified>> /\ job'[<<e, saved[e]>>] = "waiting"
            /\ \A c \in Deliveries \ {<<e, saved[e]>>} : SameJob(c)
        BY <2>2, <3>1 DEF AddJob, SameJob
      <3> QED BY <3>1, <3>2, DeliveryStepMaps
    <2> QED BY <1>4, <1>5, <2>1, <2>2 DEF ProducerStep, FindWebhooks, FinishDispatch, ProducerFault
  <1> QED BY <1>1, <1>2, <1>3, <1>4, <1>5 DEF Next, HandlerStep, FaultStep, UserStep, CreateWebhook,
          RemoveWebhook, RecordEvent, TestWebhook, WorkerMoves, Quiescent, vars

\* As long as workers keep their locks, every delivery is enqueued, ended once
\* and for all and reported at most once the way the outbox allows, whichever
\* calls, workers, database calls and handlers fail, and it is abandoned only
\* when more workers died over it than BullMQ allows: the safety part of
\* ImplementsOutbox.
THEOREM FollowsOutbox == NoLostLock /\ Spec => Queue!Steps
  <1>1. "lock" \notin Faults => (Init /\ [][Next]_vars => Queue!Steps)
    <2> SUFFICES ASSUME "lock" \notin Faults
                 PROVE  Init /\ [][Next]_vars => Queue!Steps
      OBVIOUS
    <2>1. TypeInv /\ FanInv /\ LockInv /\ [Next]_vars => LockInv'
      BY StepLockInv DEF NoLostLock
    <2>2. Init => Queue!Init
      BY DEF Init, Queue!Init, Phase
    <2>3. TypeInv /\ TypeInv' /\ FanInv /\ LockInv /\ LockInv' /\ [Next]_vars => [Queue!Next]_(Queue!vars)
      BY StepMaps
    <2> QED BY <2>1, <2>2, <2>3, InitTypeInv, StepTypeInv, InitFanInv, StepFanInv, InitLockInv,
               PTL DEF Queue!Steps
  <1> QED BY <1>1, PTL DEF NoLostLock, Spec
=============================================================================
