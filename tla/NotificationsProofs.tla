------------------------ MODULE NotificationsProofs ------------------------
(***************************************************************************)
(* What holds of Notifications for any calls, channels, workers and number *)
(* of attempts and faults.                                                 *)
(***************************************************************************)
EXTENDS Notifications, FiniteSetTheorems, TLAPS

\* A job is active under one worker, which has no other, and is failed when
\* its attempts are used up or it stalled too often, and not before.
JobOf(m) ==
    /\ job[m] = "active" <=> holder[m] # None
    /\ holder[m] # None => pc[holder[m]] # "idle"
    /\ \A l \in Messages : holder[m] # None /\ holder[l] = holder[m] => l = m
    /\ job[m] = "failed" <=> attemptsMade[m] = MaxAttempts \/ stalls[m] > MaxStalls

JobInv == \A m \in Messages : JobOf(m)

\* A call saves rows for its channels only, and what has a row has a job, or
\* is about to get one, or was left behind by a call that broke off.
CallOf(n) ==
    /\ task[n] = "enqueue" => /\ saved[n] \in Slots
                              /\ row[<<n, saved[n]>>] # "none"
                              /\ job[<<n, saved[n]>>] = "none"
    /\ \A c \in Slots :
          /\ row[<<n, c>>] # "none" => task[n] # "idle" /\ c \in channels[n]
          /\ row[<<n, c>>] = "none" => job[<<n, c>>] = "none"
          /\ row[<<n, c>>] # "none" /\ job[<<n, c>>] = "none" =>
                (task[n] = "enqueue" /\ saved[n] = c) \/ task[n] = "lost"
          /\ task[n] = "done" /\ c \in channels[n] => row[<<n, c>>] # "none"

CallInv == \A n \in Notices : CallOf(n)

\* Where a worker is says what was sent and what it has written.
RunOf(m) ==
    /\ row[m] = "sent" => sent[m] > 0
    /\ job[m] = "completed" => row[m] = "sent"
    /\ \A x \in Workers : Holds(x, m) =>
          /\ pc[x] = "dispatch" => row[m] # "sent"
          /\ pc[x] = "save" => entity[x] = "sent" /\ sent[m] > 0
          /\ pc[x] = "catch" => entity[x] = "failed"
          /\ pc[x] = "complete" => row[m] = "sent"

RunInv == \A m \in Messages : RunOf(m)

Inv == TypeOK /\ JobInv /\ CallInv /\ RunInv

USE AttemptsAssumption, FaultsAssumption

LEMMA InitInv == Init => Inv
  BY DEF Init, Inv, TypeOK, JobInv, JobOf, CallInv, CallOf, RunInv, RunOf, Messages, Statuses, Holds

\* notify().
LEMMA NotifyInv ==
    ASSUME Inv, NEW n \in Notices,
           \/ \E slots \in SUBSET Slots : Notify(n, slots)
           \/ ProducerStep(n) \/ ProducerFault(n)
    PROVE  Inv'
  <1> USE DEF Inv, queue, run, Messages
  <1>1. ASSUME NEW slots \in SUBSET Slots, Notify(n, slots) PROVE Inv'
    <2>1. TypeOK' /\ JobInv' /\ RunInv'
      BY <1>1 DEF Notify, TypeOK, JobInv, JobOf, RunInv, RunOf, Holds
    <2>2. CallInv'
      BY <1>1 DEF Notify, TypeOK, CallInv, CallOf
    <2> QED BY <2>1, <2>2
  <1>2. ASSUME NEW c \in Slots, SaveRow(n, c) PROVE Inv'
    <2>1. job[<<n, c>>] = "none" /\ <<n, c>> \in Messages
      BY <1>2 DEF SaveRow, CallInv, CallOf
    <2>2. TypeOK'
      BY <1>2 DEF SaveRow, TypeOK, Statuses
    <2>3. /\ holder[<<n, c>>] = None
          /\ \A l \in Messages : row'[l] = IF l = <<n, c>> THEN "pending" ELSE row[l]
      BY <1>2, <2>1 DEF SaveRow, TypeOK, JobInv, JobOf
    <2>4. JobInv'
      BY <1>2 DEF SaveRow, JobInv, JobOf
    <2>5. RunInv'
      BY <1>2, <2>1, <2>3 DEF SaveRow, RunInv, RunOf, Holds
    <2>6. \A k \in Notices : /\ task'[k] = IF k = n THEN "enqueue" ELSE task[k]
                             /\ saved'[k] = IF k = n THEN c ELSE saved[k]
      BY <1>2 DEF SaveRow, TypeOK
    <2>7. \A k \in Notices, d \in Slots :
             row'[<<k, d>>] = IF k = n /\ d = c THEN "pending" ELSE row[<<k, d>>]
      BY <2>3
    <2>8. CallInv'
      <3>1. \A k \in Notices \ {n} : CallOf(k)'
        <4>1. \A k \in Notices \ {n} : CallOf(k) /\ \A d \in Slots : row'[<<k, d>>] = row[<<k, d>>]
          BY <2>7 DEF CallInv
        <4> QED BY <1>2, <2>6, <4>1 DEF SaveRow, CallOf
      <3>2. CallOf(n)'
        <4>1. CallOf(n) /\ task[n] = "loop" /\ c \in channels[n]
          BY <1>2 DEF SaveRow, CallInv
        <4> QED BY <1>2, <2>1, <2>6, <2>7, <4>1 DEF SaveRow, CallOf
      <3> QED BY <3>1, <3>2 DEF CallInv
    <2> QED BY <2>2, <2>4, <2>5, <2>8
  <1>3. CASE AddJob(n)
    <2>1. saved[n] \in Slots /\ <<n, saved[n]>> \in Messages /\ job[<<n, saved[n]>>] = "none"
      BY <1>3 DEF AddJob, CallInv, CallOf
    <2>2. TypeOK'
      BY <1>3, <2>1 DEF AddJob, TypeOK
    <2>3. JobInv'
      BY <1>3, <2>1 DEF AddJob, TypeOK, JobInv, JobOf
    <2>4. RunInv'
      BY <1>3, <2>1 DEF AddJob, TypeOK, RunInv, RunOf, Holds
    <2>5. \A k \in Notices : /\ task'[k] = IF k = n THEN "loop" ELSE task[k]
                             /\ k # n => saved'[k] = saved[k]
      BY <1>3 DEF AddJob, TypeOK
    <2>6. \A k \in Notices, d \in Slots :
             job'[<<k, d>>] = IF k = n /\ d = saved[n] THEN "waiting" ELSE job[<<k, d>>]
      BY <1>3, <2>1 DEF AddJob, TypeOK
    <2>7. CallInv'
      <3>1. \A k \in Notices \ {n} : CallOf(k)'
        <4>1. \A k \in Notices \ {n} : CallOf(k) /\ \A d \in Slots : job'[<<k, d>>] = job[<<k, d>>]
          BY <2>6 DEF CallInv
        <4> QED BY <1>3, <2>5, <4>1 DEF AddJob, CallOf
      <3>2. CallOf(n)'
        <4>1. CallOf(n) /\ task[n] = "enqueue"
          BY <1>3 DEF AddJob, CallInv
        <4> QED BY <1>3, <2>1, <2>5, <2>6, <4>1 DEF AddJob, CallOf
      <3> QED BY <3>1, <3>2 DEF CallInv
    <2> QED BY <2>2, <2>3, <2>4, <2>7
  <1>4. CASE Return(n) \/ ProducerFault(n)
    <2>1. TypeOK'
      <3>1. CASE Return(n)
        BY <3>1 DEF Return, TypeOK
      <3>2. CASE ProducerFault(n)
        BY <3>2 DEF ProducerFault, Fault, TypeOK
      <3> QED BY <1>4, <3>1, <3>2
    <2>2. JobInv' /\ RunInv'
      BY <1>4 DEF Return, ProducerFault, JobInv, JobOf, RunInv, RunOf, Holds
    <2>3. CASE Return(n)
      <3>1. \A k \in Notices : task'[k] = IF k = n THEN "done" ELSE task[k]
        BY <2>3 DEF Return, TypeOK
      <3>2. CallInv'
        BY <2>3, <3>1 DEF Return, CallInv, CallOf
      <3> QED BY <2>1, <2>2, <3>2
    <2>4. CASE ProducerFault(n)
      <3>1. \A k \in Notices : /\ task'[k] = IF k = n THEN "lost" ELSE task[k]
                               /\ k # n => saved'[k] = saved[k]
        BY <2>4 DEF ProducerFault, TypeOK
      <3>2. CallInv'
        <4>1. \A k \in Notices \ {n} : CallOf(k)'
          BY <2>4, <3>1 DEF ProducerFault, CallInv, CallOf
        <4>2. CallOf(n) /\ UNCHANGED <<channels, row, job>> /\ task'[n] = "lost"
          BY <2>4, <3>1 DEF ProducerFault, CallInv
        <4>3. CallOf(n)'
          BY <4>2 DEF CallOf
        <4> QED BY <4>1, <4>3 DEF CallInv
      <3> QED BY <2>1, <2>2, <3>2
    <2> QED BY <1>4, <2>3, <2>4
  <1> QED BY <1>1, <1>2, <1>3, <1>4 DEF ProducerStep

\* Steps of the queue and the workers leave the calls alone, take no row away
\* and give no job to a message without one.
LEMMA CallFrame ==
    ASSUME CallInv, UNCHANGED producer,
           \A m \in Messages : /\ row'[m] = "none" <=> row[m] = "none"
                               /\ job'[m] = "none" <=> job[m] = "none"
    PROVE  CallInv'
  BY DEF CallInv, CallOf, producer, Messages

LEMMA QueueInv == ASSUME Inv, NEW m \in Messages, JobStep(m) PROVE Inv'
  <1> USE DEF Inv, producer, run
  <1>1. CASE Promote(m)
    <2>1. TypeOK'
      BY <1>1 DEF Promote, TypeOK
    <2>2. JobInv' /\ RunInv'
      BY <1>1 DEF Promote, TypeOK, JobInv, JobOf, RunInv, RunOf, Holds
    <2>3. CallInv'
      BY <1>1, CallFrame DEF Promote, TypeOK
    <2> QED BY <2>1, <2>2, <2>3
  <1>2. ASSUME NEW x \in Workers, TakeJob(x, m) PROVE Inv'
    <2>1. TypeOK'
      BY <1>2 DEF TakeJob, TypeOK
    <2>2. \A l \in Messages : holder[l] # x
      BY <1>2 DEF TakeJob, JobInv, JobOf
    <2>3. JobInv'
      BY <1>2, <2>2 DEF TakeJob, TypeOK, JobInv, JobOf
    <2>4. RunInv'
      BY <1>2, <2>2 DEF TakeJob, TypeOK, RunInv, RunOf, Holds
    <2>5. CallInv'
      BY <1>2, CallFrame DEF TakeJob, TypeOK
    <2> QED BY <2>1, <2>3, <2>4, <2>5
  <1> QED BY <1>1, <1>2 DEF JobStep

\* process(), while the worker keeps the job.
LEMMA ProcessInv ==
    ASSUME Inv, NEW x \in Workers, NEW m \in Messages,
           Load(x, m) \/ Dispatch(x, m) \/ Save(x, m) \/ DatabaseFault(x, m)
    PROVE  Inv'
  <1> USE DEF Inv, producer, queue, Goto, Set
  <1>h. Holds(x, m) /\ holder[m] = x /\ holder[m] # None
    BY DEF Load, Dispatch, Save, DatabaseFault, Holds
  <1>r. \A l \in Messages : row[l] = "none" => job[l] = "none"
    <2> SUFFICES ASSUME NEW n \in Notices, NEW c \in Slots
                 PROVE  row[<<n, c>>] = "none" => job[<<n, c>>] = "none"
      BY DEF Messages
    <2> QED BY DEF CallInv, CallOf
  <1>0. /\ \A l \in Messages : holder[l] = x => l = m
        /\ Holds(x, m) /\ holder[m] # None /\ job[m] = "active" /\ row[m] # "none"
    BY <1>h, <1>r DEF JobInv, JobOf
  <1>1. ASSUME UNCHANGED <<producer, queue>>, pc'[x] # "idle",
               \A y \in Workers \ {x} : pc'[y] = pc[y] /\ entity'[y] = entity[y],
               \A l \in Messages \ {m} : row'[l] = row[l] /\ sent'[l] = sent[l],
               row'[m] # "none", row'[m] = "sent" => sent'[m] > 0,
               pc'[x] = "dispatch" => row'[m] # "sent",
               pc'[x] = "save" => entity'[x] = "sent" /\ sent'[m] > 0,
               pc'[x] = "catch" => entity'[x] = "failed",
               pc'[x] = "complete" => row'[m] = "sent"
        PROVE  JobInv' /\ CallInv' /\ RunInv'
    <2>1. JobInv'
      <3>1. job' = job /\ holder' = holder /\ attemptsMade' = attemptsMade /\ stalls' = stalls
        BY <1>1
      <3>2. \A l \in Messages : holder[l] # None => pc'[holder[l]] # "idle"
        BY <1>1 DEF JobInv, JobOf, TypeOK
      <3> QED BY <3>1, <3>2 DEF JobInv, JobOf
    <2>2. CallInv'
      BY <1>0, <1>1, CallFrame
    <2>3. \A l \in Messages \ {m} : RunOf(l)'
      <3> SUFFICES ASSUME NEW l \in Messages \ {m} PROVE RunOf(l)'
        OBVIOUS
      <3>1. \A y \in Workers : Holds(y, l) => y # x
        BY <1>0 DEF Holds
      <3> QED BY <1>1, <3>1 DEF RunInv, RunOf, Holds
    <2>4. RunOf(m)'
      <3>1. \A y \in Workers : holder[m] = y => y = x
        BY <1>0 DEF Holds
      <3>2. job'[m] # "completed"
        BY <1>0, <1>1
      <3> QED BY <1>1, <3>1, <3>2 DEF RunOf, Holds
    <2> QED BY <2>1, <2>2, <2>3, <2>4 DEF RunInv
  <1>2. CASE Load(x, m)
    <2>1. TypeOK'
      BY <1>2 DEF Load, TypeOK, Statuses
    <2> QED BY <1>0, <1>1, <1>2, <2>1 DEF Load, TypeOK, RunInv, RunOf
  <1>3. CASE Dispatch(x, m)
    <2>1. TypeOK'
      BY <1>3 DEF Dispatch, TypeOK, Statuses
    <2> QED BY <1>0, <1>1, <1>3, <2>1 DEF Dispatch, TypeOK, RunInv, RunOf
  <1>4. CASE Save(x, m)
    <2>1. TypeOK'
      BY <1>4 DEF Save, TypeOK, Statuses
    <2> QED BY <1>0, <1>1, <1>4, <2>1 DEF Save, TypeOK, RunInv, RunOf
  <1>5. CASE DatabaseFault(x, m)
    <2>1. TypeOK'
      BY <1>5 DEF DatabaseFault, Fault, TypeOK, Statuses
    <2>2. /\ pc'[x] \in {"catch", "fail"}
          /\ pc'[x] = "catch" => entity'[x] = "failed"
          /\ \A y \in Workers \ {x} : pc'[y] = pc[y] /\ entity'[y] = entity[y]
      BY <1>5 DEF DatabaseFault, TypeOK
    <2>3. row'[m] # "none" /\ (row'[m] = "sent" => sent[m] > 0)
      BY <1>0, <1>5 DEF DatabaseFault, TypeOK, RunInv, RunOf
    <2>4. \A l \in Messages \ {m} : row'[l] = row[l]
      BY <1>5 DEF DatabaseFault, TypeOK
    <2> QED BY <1>1, <1>5, <2>1, <2>2, <2>3, <2>4 DEF DatabaseFault
  <1> QED BY <1>2, <1>3, <1>4, <1>5

\* The ends of process(), and its loss.
LEMMA EndInv ==
    ASSUME Inv, NEW x \in Workers, NEW m \in Messages,
           Complete(x, m) \/ Fail(x, m) \/ WorkerDeath(x, m)
    PROVE  Inv'
  <1> USE DEF Inv, producer
  <1>0. /\ \A l \in Messages : holder[l] = x => l = m
        /\ Holds(x, m) /\ job[m] = "active" /\ attemptsMade[m] \in Nat /\ stalls[m] \in Nat
        /\ attemptsMade[m] < MaxAttempts /\ stalls[m] <= MaxStalls
    BY DEF JobInv, JobOf, Complete, Fail, WorkerDeath, Holds, TypeOK
  <1>1. ASSUME NEW s \in {"waiting", "delayed", "completed", "failed"}, Release(x, m, s),
               UNCHANGED <<producer, row, sent>>,
               \A l \in Messages \ {m} : attemptsMade'[l] = attemptsMade[l] /\ stalls'[l] = stalls[l],
               s = "failed" <=> attemptsMade'[m] = MaxAttempts \/ stalls'[m] > MaxStalls,
               s = "completed" => row[m] = "sent"
        PROVE  JobInv' /\ CallInv' /\ RunInv'
    <2>1. /\ \A l \in Messages : /\ job'[l] = IF l = m THEN s ELSE job[l]
                                 /\ holder'[l] = IF l = m THEN None ELSE holder[l]
          /\ \A y \in Workers \ {x} : pc'[y] = pc[y] /\ entity'[y] = entity[y]
          /\ pc'[x] = "idle"
      BY <1>1 DEF Release, Goto, Set, TypeOK
    <2>2. JobInv'
      <3> SUFFICES ASSUME NEW l \in Messages PROVE JobOf(l)'
        BY DEF JobInv
      <3>1. CASE l = m
        BY <1>1, <2>1, <3>1 DEF JobOf
      <3>2. CASE l # m
        <4>1. JobOf(l) /\ holder[l] # x
          BY <1>0, <3>2 DEF JobInv
        <4> QED BY <1>1, <2>1, <3>2, <4>1 DEF JobOf, TypeOK
      <3> QED BY <3>1, <3>2
    <2>3. CallInv'
      BY <1>0, <1>1, <2>1, CallFrame
    <2>4. RunInv'
      BY <1>0, <1>1, <2>1 DEF RunInv, RunOf, Holds
    <2> QED BY <2>2, <2>3, <2>4
  <1>2. ASSUME NEW s \in {"waiting", "delayed", "completed", "failed"}, Release(x, m, s)
        PROVE  /\ pc' \in [Workers -> {"idle", "load", "dispatch", "save", "catch", "complete", "fail"}]
               /\ entity' \in [Workers -> Statuses \cup {"none"}]
               /\ job' \in [Messages -> {"none", "waiting", "active", "delayed", "completed", "failed"}]
               /\ holder' \in [Messages -> Workers \cup {None}]
    BY <1>2 DEF Release, Goto, Set, TypeOK
  <1>3. CASE Complete(x, m)
    <2>1. TypeOK'
      BY <1>2, <1>3 DEF Complete, TypeOK
    <2>2. row[m] = "sent"
      BY <1>3 DEF Complete, RunInv, RunOf
    <2> QED BY <1>0, <1>1, <1>3, <2>1, <2>2 DEF Complete
  <1>4. CASE Fail(x, m)
    <2> DEFINE s == IF attemptsMade[m] + 1 < MaxAttempts THEN "delayed" ELSE "failed"
    <2>1. attemptsMade' = [attemptsMade EXCEPT ![m] = @ + 1] /\ Release(x, m, s)
      BY <1>4 DEF Fail
    <2>2. /\ attemptsMade' \in [Messages -> 0 .. MaxAttempts]
          /\ attemptsMade'[m] = MaxAttempts <=> s = "failed"
          /\ \A l \in Messages \ {m} : attemptsMade'[l] = attemptsMade[l]
      BY <1>0, <2>1 DEF TypeOK
    <2>4. stalls' = stalls /\ ~ (stalls[m] > MaxStalls)
      BY <1>0, <1>4 DEF Fail
    <2>3. TypeOK'
      BY <1>2, <1>4, <2>1, <2>2 DEF Fail, TypeOK
    <2> QED BY <1>1, <1>4, <2>1, <2>2, <2>3, <2>4 DEF Fail
  <1>5. CASE WorkerDeath(x, m)
    <2>1. /\ UNCHANGED <<producer, row, sent>>
          /\ stalls' \in [Messages -> Nat] /\ stalls'[m] = stalls[m] + 1
          /\ \A l \in Messages \ {m} : stalls'[l] = stalls[l]
          /\ faults' \in 0 .. MaxFaults
      BY <1>5 DEF WorkerDeath, Fault, TypeOK
    <2>2. CASE stalls[m] < MaxStalls
      <3>1. Release(x, m, "waiting") /\ attemptsMade' = attemptsMade
        BY <1>5, <2>2 DEF WorkerDeath
      <3>2. TypeOK'
        BY <1>2, <2>1, <3>1 DEF TypeOK
      <3>3. ~ (attemptsMade'[m] = MaxAttempts \/ stalls'[m] > MaxStalls)
        BY <1>0, <2>1, <2>2, <3>1
      <3> QED BY <1>1, <2>1, <3>1, <3>2, <3>3
    <2>3. CASE ~ (stalls[m] < MaxStalls)
      <3>1. PICK made \in {attemptsMade[m], attemptsMade[m] + 1} :
               Release(x, m, "failed") /\ attemptsMade' = [attemptsMade EXCEPT ![m] = made]
        BY <1>5, <2>3 DEF WorkerDeath
      <3>2. made \in 0 .. MaxAttempts
        BY <1>0
      <3>3. attemptsMade' \in [Messages -> 0 .. MaxAttempts]
            /\ \A l \in Messages \ {m} : attemptsMade'[l] = attemptsMade[l]
        BY <3>1, <3>2 DEF TypeOK
      <3>4. TypeOK'
        BY <1>2, <2>1, <3>1, <3>3 DEF TypeOK
      <3>5. stalls'[m] > MaxStalls
        BY <1>0, <2>1, <2>3
      <3> QED BY <1>1, <2>1, <3>1, <3>3, <3>4, <3>5
    <2> QED BY <2>2, <2>3
  <1> QED BY <1>3, <1>4, <1>5

LEMMA StepInv == Inv /\ [Next]_vars => Inv'
  <1> SUFFICES ASSUME Inv, [Next]_vars PROVE Inv'
    OBVIOUS
  <1>1. CASE UNCHANGED vars
    BY <1>1 DEF vars, producer, queue, run, Inv, TypeOK, JobInv, JobOf, CallInv, CallOf, RunInv, RunOf, Holds
  <1> QED BY <1>1, NotifyInv, QueueInv, ProcessInv, EndInv
       DEF Next, Quiescent, WorkerStep, Process, FaultStep

\* Calls, rows, jobs and runs keep their shapes, whatever the faults.
THEOREM TypeCorrect == Spec => []TypeOK
  <1>1. Inv => TypeOK
    BY DEF Inv
  <1> QED BY <1>1, InitInv, StepInv, PTL DEF Spec

-----------------------------------------------------------------------------
(* What a caller and a receiver can rely on.                               *)

\* A call of notify() that returned has a job for every channel it was asked
\* for and for no other.
THEOREM FannedOut == Spec => []FanOutComplete
  <1>1. Inv => FanOutComplete
    BY DEF Inv, CallInv, CallOf, FanOutComplete
  <1> QED BY <1>1, InitInv, StepInv, PTL DEF Spec

\* No worker sends again what the row shows as SENT, whichever workers died
\* and whichever saves were lost before.
THEOREM SentOnce == Spec => SentIsFinal
  <1>1. Inv /\ [Next]_vars => [\A m \in Messages : row[m] = "sent" => sent'[m] = sent[m]]_vars
    <2> SUFFICES ASSUME Inv, Next, NEW m \in Messages, row[m] = "sent" PROVE sent'[m] = sent[m]
      OBVIOUS
    <2>1. ASSUME NEW x \in Workers, NEW l \in Messages, Dispatch(x, l) PROVE sent'[m] = sent[m]
      BY <2>1 DEF Dispatch, Inv, TypeOK, RunInv, RunOf
    <2> QED BY <2>1 DEF Next, ProducerStep, AddJob, Return, SaveRow, Notify, WorkerStep, Process,
             Load, Save, Complete, Fail, JobStep, Promote, TakeJob, FaultStep, ProducerFault,
             DatabaseFault, WorkerDeath, Quiescent, vars
  <1> QED BY <1>1, InitInv, StepInv, PTL DEF Spec, SentIsFinal

-----------------------------------------------------------------------------
(* Every failure of an attempt is a fault of its own, and so is every       *)
(* worker that died.                                                       *)

\* The failures: those counted as attempts of jobs that did not stall too
\* often, the stalls, and the failures of the runs that will be counted.
Counted == {p \in Messages \X (1 .. MaxAttempts) :
              p[2] <= attemptsMade[p[1]] /\ stalls[p[1]] <= MaxStalls}
Stalled == {p \in Messages \X (1 .. (MaxStalls + 1)) : p[2] <= stalls[p[1]]}
Thrown  == {x \in Workers : pc[x] \in {"catch", "fail"}}

FaultInv ==
    /\ IsFiniteSet(Counted) /\ IsFiniteSet(Stalled) /\ IsFiniteSet(Thrown)
    /\ IsFiniteSet(UsedUp) /\ IsFiniteSet(StalledOut)
    /\ Cardinality(Counted) + Cardinality(Stalled) + Cardinality(Thrown) <= faults

LEMMA InitFaultInv == Init => FaultInv
  <1> SUFFICES ASSUME Init PROVE FaultInv
    OBVIOUS
  <1>1. Counted = {} /\ Stalled = {} /\ Thrown = {} /\ UsedUp = {} /\ StalledOut = {}
    BY DEF Init, Counted, Stalled, Thrown, UsedUp, StalledOut
  <1> QED BY <1>1, FS_EmptySet DEF FaultInv, Init

\* Adding and taking away one element.
LEMMA OneMore ==
    ASSUME NEW S, NEW a, IsFiniteSet(S)
    PROVE  IsFiniteSet(S \cup {a}) /\ Cardinality(S \cup {a}) <= Cardinality(S) + 1
  <1>1. Cardinality(S) \in Nat
    BY FS_CardinalityType
  <1>2. /\ IsFiniteSet(S \cup {a})
        /\ Cardinality(S \cup {a}) = IF a \in S THEN Cardinality(S) ELSE Cardinality(S) + 1
    BY FS_AddElement
  <1> QED BY <1>1, <1>2

LEMMA OneLess ==
    ASSUME NEW S, NEW a, IsFiniteSet(S)
    PROVE  /\ IsFiniteSet(S \ {a}) /\ Cardinality(S \ {a}) <= Cardinality(S)
           /\ a \in S => Cardinality(S \ {a}) = Cardinality(S) - 1
  <1>1. Cardinality(S) \in Nat
    BY FS_CardinalityType
  <1>2. /\ IsFiniteSet(S \ {a})
        /\ Cardinality(S \ {a}) = IF a \in S THEN Cardinality(S) - 1 ELSE Cardinality(S)
    BY FS_RemoveElement
  <1> QED BY <1>1, <1>2

\* What a step keeps of the failures when it makes none and ends no job badly.
LEMMA FaultFrame ==
    ASSUME Inv, FaultInv, UNCHANGED <<attemptsMade, stalls>>,
           \A m \in Messages : job'[m] = "failed" <=> job[m] = "failed"
    PROVE  Counted' = Counted /\ Stalled' = Stalled /\ UsedUp' = UsedUp /\ StalledOut' = StalledOut
  BY DEF Counted, Stalled, UsedUp, StalledOut

LEMMA StepFaultInv == Inv /\ FaultInv /\ [Next]_vars => FaultInv'
  <1> SUFFICES ASSUME Inv, FaultInv, [Next]_vars PROVE FaultInv'
    OBVIOUS
  <1>0. /\ Cardinality(Counted) \in Nat /\ Cardinality(Stalled) \in Nat
        /\ Cardinality(Thrown) \in Nat /\ faults \in Nat
    BY FS_CardinalityType DEF FaultInv, Inv, TypeOK
  <1>1. CASE /\ UNCHANGED <<attemptsMade, stalls>> /\ faults' \in {faults, faults + 1}
             /\ \A m \in Messages : job'[m] = "failed" <=> job[m] = "failed"
             /\ Thrown' = Thrown
    BY <1>0, <1>1, FaultFrame DEF FaultInv
  <1>2. CASE UNCHANGED <<job, attemptsMade, stalls, pc>> /\ faults' \in {faults, faults + 1}
    BY <1>1, <1>2 DEF Thrown
  <1>3. CASE \E n \in Notices : \/ ProducerStep(n) \/ ProducerFault(n)
                              \/ \E slots \in SUBSET Slots : Notify(n, slots)
    <2> PICK n \in Notices : \/ ProducerStep(n) \/ ProducerFault(n)
                             \/ \E slots \in SUBSET Slots : Notify(n, slots)
      BY <1>3
    <2>1. CASE AddJob(n)
      <3>1. \A m \in Messages : job'[m] = "failed" <=> job[m] = "failed"
        BY <2>1 DEF AddJob, Inv, TypeOK, CallInv, CallOf, Messages
      <3>2. UNCHANGED <<attemptsMade, stalls, pc, faults>>
        BY <2>1 DEF AddJob, run
      <3> QED BY <1>1, <3>1, <3>2 DEF Thrown
    <2> QED BY <1>2, <2>1 DEF ProducerStep, SaveRow, Return, ProducerFault, Fault, Notify, queue, run
  <1>4. ASSUME NEW m \in Messages, JobStep(m) PROVE FaultInv'
    <2>1. \A l \in Messages : job'[l] = "failed" <=> job[l] = "failed"
      BY <1>4 DEF JobStep, Promote, TakeJob, Inv, TypeOK
    <2>2. \A x \in Workers : pc'[x] \in {"catch", "fail"} <=> pc[x] \in {"catch", "fail"}
      BY <1>4 DEF JobStep, Promote, TakeJob, Inv, TypeOK, run
    <2>3. UNCHANGED <<attemptsMade, stalls, faults>>
      BY <1>4 DEF JobStep, Promote, TakeJob
    <2>4. Thrown' = Thrown
      BY <2>2 DEF Thrown
    <2> QED BY <1>1, <2>1, <2>3, <2>4
  <1>5. ASSUME NEW x \in Workers, NEW m \in Messages, DatabaseFault(x, m) PROVE FaultInv'
    <2>1. Counted' = Counted /\ Stalled' = Stalled /\ UsedUp' = UsedUp /\ StalledOut' = StalledOut
      BY <1>5, FaultFrame DEF DatabaseFault, queue
    <2>2. Thrown' = Thrown \cup {x}
      BY <1>5 DEF DatabaseFault, Goto, Thrown, Inv, TypeOK
    <2>3. faults' = faults + 1
      BY <1>5 DEF DatabaseFault, Fault
    <2>4. IsFiniteSet(Thrown') /\ Cardinality(Thrown') <= Cardinality(Thrown) + 1
      BY <1>0, <2>2, OneMore DEF FaultInv
    <2>5. Cardinality(Thrown') \in Nat
      BY <2>4, FS_CardinalityType
    <2> QED BY <1>0, <2>1, <2>3, <2>4, <2>5 DEF FaultInv
  <1>6. ASSUME NEW x \in Workers, NEW m \in Messages,
               Load(x, m) \/ Dispatch(x, m) \/ Save(x, m)
        PROVE  FaultInv'
    <2>1. UNCHANGED <<attemptsMade, stalls, job, faults>>
      BY <1>6 DEF Load, Dispatch, Save, queue
    <2>2. \A y \in Workers : pc'[y] \in {"catch", "fail"} <=> pc[y] \in {"catch", "fail"}
      BY <1>6 DEF Load, Dispatch, Save, Goto, Inv, TypeOK
    <2>3. Thrown' = Thrown
      BY <2>2 DEF Thrown
    <2> QED BY <1>1, <2>1, <2>3
  \* The ends of process().
  <1>7. ASSUME NEW x \in Workers, NEW m \in Messages, NEW s, Release(x, m, s)
        PROVE  /\ \A l \in Messages : job'[l] = IF l = m THEN s ELSE job[l]
               /\ Thrown' = Thrown \ {x}
               /\ IsFiniteSet(Thrown') /\ Cardinality(Thrown') \in Nat
               /\ Cardinality(Thrown') <= Cardinality(Thrown)
               /\ x \in Thrown => Cardinality(Thrown') = Cardinality(Thrown) - 1
    <2>1. \A l \in Messages : job'[l] = IF l = m THEN s ELSE job[l]
      BY <1>7 DEF Release, Inv, TypeOK
    <2>2. Thrown' = Thrown \ {x}
      BY <1>7 DEF Release, Goto, Thrown, Inv, TypeOK
    <2> QED BY <2>1, <2>2, OneLess, FS_CardinalityType DEF FaultInv
  <1>8. ASSUME NEW x \in Workers, NEW m \in Messages, Complete(x, m) PROVE FaultInv'
    <2>1. job[m] = "active"
      BY <1>8 DEF Complete, Holds, Inv, JobInv, JobOf
    <2>2. Release(x, m, "completed") /\ UNCHANGED <<attemptsMade, stalls, faults>>
      BY <1>8 DEF Complete
    <2>3. Counted' = Counted /\ Stalled' = Stalled /\ UsedUp' = UsedUp /\ StalledOut' = StalledOut
      BY <1>7, <2>1, <2>2, FaultFrame
    <2> QED BY <1>0, <1>7, <2>2, <2>3 DEF FaultInv
  \* What is given up is one message more.
  <1>9. ASSUME NEW m \in Messages, \A l \in Messages \ {m} : job'[l] = job[l] /\ stalls'[l] = stalls[l]
        PROVE  IsFiniteSet(UsedUp') /\ IsFiniteSet(StalledOut')
    <2>1. UsedUp' \subseteq UsedUp \cup {m} /\ StalledOut' \subseteq StalledOut \cup {m}
      BY <1>9 DEF UsedUp, StalledOut
    <2>2. IsFiniteSet(UsedUp \cup {m}) /\ IsFiniteSet(StalledOut \cup {m})
      BY FS_AddElement DEF FaultInv
    <2> QED BY <2>1, <2>2, FS_Subset
  <1>10. ASSUME NEW x \in Workers, NEW m \in Messages, Fail(x, m) PROVE FaultInv'
    <2> DEFINE a == attemptsMade[m] + 1
    <2>1. a \in 1 .. MaxAttempts /\ attemptsMade[m] \in Nat /\ stalls[m] <= MaxStalls
      BY <1>10 DEF Fail, Holds, Inv, TypeOK, JobInv, JobOf
    <2>2. attemptsMade' = [attemptsMade EXCEPT ![m] = a] /\ UNCHANGED <<stalls, faults>>
      BY <1>10 DEF Fail
    <2>3. PICK s : Release(x, m, s)
      BY <1>10 DEF Fail
    <2>4. x \in Thrown
      BY <1>10 DEF Fail, Thrown
    <2>5. Counted' = Counted \cup {<<m, a>>}
      <3>1. \A l \in Messages : attemptsMade'[l] = IF l = m THEN a ELSE attemptsMade[l]
        BY <2>2 DEF Inv, TypeOK
      <3>2. ASSUME NEW l \in Messages, NEW i \in 1 .. MaxAttempts
            PROVE  <<l, i>> \in Counted' <=> <<l, i>> \in Counted \cup {<<m, a>>}
        <4>1. /\ <<l, i>> \in Counted <=> i <= attemptsMade[l] /\ stalls[l] <= MaxStalls
              /\ <<l, i>> \in Counted' <=> i <= attemptsMade'[l] /\ stalls[l] <= MaxStalls
          BY <2>2 DEF Counted
        <4> QED BY <2>1, <3>1, <4>1
      <3>3. Counted \subseteq Messages \X (1 .. MaxAttempts) /\ Counted' \subseteq Messages \X (1 .. MaxAttempts)
        BY DEF Counted
      <3>4. <<m, a>> \in Messages \X (1 .. MaxAttempts)
        BY <2>1
      <3> QED BY <3>2, <3>3, <3>4
    <2>6. IsFiniteSet(Counted') /\ Cardinality(Counted') <= Cardinality(Counted) + 1
      BY <2>5, OneMore DEF FaultInv
    <2>7. Cardinality(Counted') \in Nat /\ Stalled' = Stalled
      BY <2>2, <2>6, FS_CardinalityType DEF Stalled
    <2>8. IsFiniteSet(UsedUp') /\ IsFiniteSet(StalledOut')
      BY <1>7, <1>9, <2>2, <2>3
    <2> QED BY <1>0, <1>7, <2>2, <2>3, <2>4, <2>6, <2>7, <2>8 DEF FaultInv
  <1>11. ASSUME NEW x \in Workers, NEW m \in Messages, WorkerDeath(x, m) PROVE FaultInv'
    <2> DEFINE a == stalls[m] + 1
    <2>1. a \in 1 .. (MaxStalls + 1) /\ stalls[m] \in Nat
      BY <1>11 DEF WorkerDeath, Holds, Inv, TypeOK, JobInv, JobOf
    <2>2. stalls' = [stalls EXCEPT ![m] = a] /\ faults' = faults + 1
      BY <1>11 DEF WorkerDeath, Fault
    <2>3. PICK s : Release(x, m, s)
      BY <1>11 DEF WorkerDeath
    <2>4. \A l \in Messages : stalls'[l] = IF l = m THEN a ELSE stalls[l]
      BY <2>2 DEF Inv, TypeOK
    <2>5. Stalled' = Stalled \cup {<<m, a>>}
      <3>2. ASSUME NEW l \in Messages, NEW i \in 1 .. (MaxStalls + 1)
            PROVE  <<l, i>> \in Stalled' <=> <<l, i>> \in Stalled \cup {<<m, a>>}
        <4>1. /\ <<l, i>> \in Stalled <=> i <= stalls[l]
              /\ <<l, i>> \in Stalled' <=> i <= stalls'[l]
          BY DEF Stalled
        <4> QED BY <2>1, <2>4, <4>1
      <3>3. /\ Stalled \subseteq Messages \X (1 .. (MaxStalls + 1))
            /\ Stalled' \subseteq Messages \X (1 .. (MaxStalls + 1))
        BY DEF Stalled
      <3>4. <<m, a>> \in Messages \X (1 .. (MaxStalls + 1))
        BY <2>1
      <3> QED BY <3>2, <3>3, <3>4
    <2>6. IsFiniteSet(Stalled') /\ Cardinality(Stalled') <= Cardinality(Stalled) + 1
      BY <2>5, OneMore DEF FaultInv
    \* A job given back keeps its attempts; one that failed has none that count.
    <2>7. Counted' \subseteq Counted
      <3>1. \A l \in Messages \ {m} : attemptsMade'[l] = attemptsMade[l]
        BY <1>11 DEF WorkerDeath, Inv, TypeOK
      <3>2. stalls'[m] <= MaxStalls => attemptsMade'[m] = attemptsMade[m] /\ stalls[m] <= MaxStalls
        <4>1. stalls'[m] <= MaxStalls => stalls[m] < MaxStalls
          BY <2>1, <2>4
        <4>2. stalls[m] < MaxStalls => attemptsMade' = attemptsMade
          BY <1>11 DEF WorkerDeath
        <4> QED BY <2>1, <4>1, <4>2
      <3> QED BY <2>4, <3>1, <3>2 DEF Counted
    <2>8. IsFiniteSet(Counted') /\ Cardinality(Counted') <= Cardinality(Counted)
      BY <2>7, FS_Subset DEF FaultInv
    <2>9. Cardinality(Counted') \in Nat /\ Cardinality(Stalled') \in Nat
      BY <2>6, <2>8, FS_CardinalityType
    <2>10. IsFiniteSet(UsedUp') /\ IsFiniteSet(StalledOut')
      BY <1>7, <1>9, <2>3, <2>4
    <2> QED BY <1>0, <1>7, <2>2, <2>3, <2>6, <2>8, <2>9, <2>10 DEF FaultInv
  <1>12. CASE UNCHANGED vars \/ Quiescent
    BY <1>2, <1>12 DEF Quiescent, vars, queue, run
  <1> QED BY <1>3, <1>4, <1>5, <1>6, <1>8, <1>10, <1>11, <1>12 DEF Next, WorkerStep, Process, FaultStep

LEMMA UpTo ==
    ASSUME NEW n \in Nat \ {0} PROVE IsFiniteSet(1 .. n) /\ Cardinality(1 .. n) = n
  <1>1. 1 \in Int /\ n \in Int /\ ~(1 > n) /\ n - 1 + 1 = n
    OBVIOUS
  <1>2. /\ IsFiniteSet(1 .. n)
        /\ Cardinality(1 .. n) = IF 1 > n THEN 0 ELSE n - 1 + 1
    <2>1. 1 \in Int /\ n \in Int
      BY <1>1
    <2> QED BY ONLY <2>1, FS_Interval
  <1> QED BY <1>1, <1>2

LEMMA FaultInvImplies == Inv /\ FaultInv => GivenUpLast
  <1> SUFFICES ASSUME Inv, FaultInv PROVE GivenUpLast
    OBVIOUS
  <1> DEFINE Tries == UsedUp \X (1 .. MaxAttempts)
             Losses == StalledOut \X (1 .. (MaxStalls + 1))
  <1>1. IsFiniteSet(1 .. MaxAttempts) /\ Cardinality(1 .. MaxAttempts) = MaxAttempts
    BY UpTo
  <1>2. IsFiniteSet(1 .. (MaxStalls + 1)) /\ Cardinality(1 .. (MaxStalls + 1)) = MaxStalls + 1
    <2>1. MaxStalls + 1 \in Nat \ {0}
      OBVIOUS
    <2> QED BY <2>1, UpTo
  <1>9. /\ Cardinality(Tries) = Cardinality(UsedUp) * MaxAttempts
        /\ Cardinality(Losses) = Cardinality(StalledOut) * (MaxStalls + 1)
    <2>1. IsFiniteSet(UsedUp) /\ IsFiniteSet(StalledOut)
      BY DEF FaultInv
    <2>2. Cardinality(Tries) = Cardinality(UsedUp) * Cardinality(1 .. MaxAttempts)
      BY <1>1, <2>1, FS_Product
    <2>3. Cardinality(Losses) = Cardinality(StalledOut) * Cardinality(1 .. (MaxStalls + 1))
      BY <1>2, <2>1, FS_Product
    <2> QED BY <1>1, <1>2, <2>2, <2>3
  <1>3. Tries \subseteq Counted
    BY DEF Inv, TypeOK, JobInv, JobOf, UsedUp, Counted
  <1>4. Losses \subseteq Stalled
    BY DEF Inv, TypeOK, StalledOut, Stalled
  <1>5. Cardinality(Tries) <= Cardinality(Counted) /\ Cardinality(Losses) <= Cardinality(Stalled)
    BY <1>3, <1>4, FS_Subset DEF FaultInv
  <1>6. /\ Cardinality(Counted) \in Nat /\ Cardinality(Stalled) \in Nat
        /\ Cardinality(Thrown) \in Nat /\ faults \in Nat
        /\ Cardinality(UsedUp) \in Nat /\ Cardinality(StalledOut) \in Nat
    BY FS_CardinalityType DEF FaultInv, Inv, TypeOK
  <1>7. /\ Cardinality(UsedUp) * MaxAttempts = MaxAttempts * Cardinality(UsedUp)
        /\ Cardinality(StalledOut) * (MaxStalls + 1) = (MaxStalls + 1) * Cardinality(StalledOut)
    BY <1>6
  <1>8. Cardinality(Tries) + Cardinality(Losses) <= faults
    <2>1. Cardinality(Tries) \in Nat /\ Cardinality(Losses) \in Nat
      BY <1>3, <1>4, FS_Subset, FS_CardinalityType DEF FaultInv
    <2> HIDE DEF Tries, Losses
    <2> QED BY <1>5, <1>6, <2>1 DEF FaultInv
  <1> HIDE DEF Tries, Losses
  <1> QED BY <1>7, <1>8, <1>9 DEF GivenUpLast

\* A message is given up only after as many faults of its own as it has
\* attempts, or one more worker died over it than BullMQ allows, for any number
\* of messages, workers, attempts and stalls.
THEOREM RetriedToTheEnd == Spec => []GivenUpLast
  <1> QED BY InitInv, StepInv, InitFaultInv, StepFaultInv, FaultInvImplies, PTL DEF Spec

-----------------------------------------------------------------------------
(* Every step is one of the outbox, or none.                               *)

LEMMA OutboxStep ==
    ASSUME NEW m \in Messages, \A l \in Messages \ {m} : Phase(l)' = Phase(l),
           \/ Phase(m)' = Phase(m)
           \/ Phase(m) = "none" /\ Phase(m)' = "open"
           \/ Phase(m) = "open" /\ Phase(m)' \in Queue!Outcomes
    PROVE  [Queue!Next]_(Queue!vars)
  <1> DEFINE ph == [l \in Messages |-> Phase(l)]
  <1>1. CASE Phase(m)' = Phase(m)
    <2>1. ph' = ph
      BY <1>1
    <2> QED BY <2>1 DEF Queue!vars
  <1>2. CASE Phase(m) = "none" /\ Phase(m)' = "open"
    <2>1. ph' = [ph EXCEPT ![m] = "open"]
      <3>1. \A l \in Messages : ph'[l] = IF l = m THEN "open" ELSE ph[l]
        BY <1>2
      <3> QED BY <3>1
    <2>2. Queue!Enqueue(m)
      BY <1>2, <2>1 DEF Queue!Enqueue
    <2> QED BY <2>2 DEF Queue!Next
  <1>3. CASE Phase(m) = "open" /\ Phase(m)' \in Queue!Outcomes
    <2>1. ph' = [ph EXCEPT ![m] = Phase(m)']
      BY <1>3
    <2>2. Queue!Resolve(m)
      BY <1>3, <2>1 DEF Queue!Resolve, Queue!Outcomes
    <2> QED BY <2>2 DEF Queue!Next
  <1> QED BY <1>1, <1>2, <1>3

\* Under the invariant a message's phase is its job's, but that a failed one
\* was given up for its attempts or for its stalls.
JobPhase == [none |-> {"none"}, waiting |-> {"open"}, active |-> {"open"}, delayed |-> {"open"},
             completed |-> {"delivered"}, failed |-> {"exhausted", "abandoned"}]

LEMMA PhaseIsJob ==
    ASSUME Inv, NEW m \in Messages
    PROVE  job[m] \in DOMAIN JobPhase /\ Phase(m) \in JobPhase[job[m]]
  <1>1. /\ job[m] \in DOMAIN JobPhase
        /\ job[m] = "completed" => row[m] = "sent" /\ sent[m] > 0
        /\ attemptsMade[m] \in 0 .. MaxAttempts
        /\ job[m] = "failed" => attemptsMade[m] = MaxAttempts \/ stalls[m] > MaxStalls
    BY DEF Inv, TypeOK, JobInv, JobOf, RunInv, RunOf, JobPhase
  <1>2. CASE job[m] # "failed"
    BY <1>1, <1>2 DEF Phase, JobPhase
  <1>3. CASE job[m] = "failed"
    <2>1. attemptsMade[m] = MaxAttempts \/ (m \in StalledOut /\ attemptsMade[m] < MaxAttempts)
      BY <1>1, <1>3 DEF StalledOut
    <2>2. Phase(m) \in {"exhausted", "abandoned"}
      BY <1>3, <2>1 DEF Phase
    <2> QED BY <1>3, <2>2 DEF JobPhase
  <1> QED BY <1>2, <1>3

LEMMA PhaseIsJobNext ==
    ASSUME Inv', NEW m \in Messages
    PROVE  job'[m] \in DOMAIN JobPhase /\ Phase(m)' \in JobPhase[job'[m]]
  <1>1. /\ job'[m] \in DOMAIN JobPhase
        /\ job'[m] = "completed" => row'[m] = "sent" /\ sent'[m] > 0
        /\ attemptsMade'[m] \in 0 .. MaxAttempts
        /\ job'[m] = "failed" => attemptsMade'[m] = MaxAttempts \/ stalls'[m] > MaxStalls
    BY DEF Inv, TypeOK, JobInv, JobOf, RunInv, RunOf, JobPhase
  <1>2. CASE job'[m] # "failed"
    BY <1>1, <1>2 DEF Phase, JobPhase
  <1>3. CASE job'[m] = "failed"
    <2>1. attemptsMade'[m] = MaxAttempts \/ (m \in StalledOut' /\ attemptsMade'[m] < MaxAttempts)
      BY <1>1, <1>3 DEF StalledOut
    <2>2. Phase(m)' \in {"exhausted", "abandoned"}
      BY <1>3, <2>1 DEF Phase
    <2> QED BY <1>3, <2>2 DEF JobPhase
  <1> QED BY <1>2, <1>3

\* What decides on the phase of a message that is over.
SameJob(m) == job'[m] = job[m] /\ attemptsMade'[m] = attemptsMade[m] /\ stalls'[m] = stalls[m]

LEMMA SamePhase ==
    ASSUME Inv, Inv', NEW m \in Messages, SameJob(m)
    PROVE  Phase(m)' = Phase(m)
  <1>1. CASE job[m] # "failed"
    <2>1. job[m] \in DOMAIN JobPhase /\ Phase(m) \in JobPhase[job[m]]
      BY PhaseIsJob
    <2>2. Phase(m)' \in JobPhase[job'[m]]
      BY PhaseIsJobNext
    <2> QED BY <1>1, <2>1, <2>2 DEF JobPhase, SameJob
  <1>2. CASE job[m] = "failed"
    BY <1>2 DEF Phase, SameJob, StalledOut
  <1> QED BY <1>1, <1>2

\* A step that takes one job on by one state.
LEMMA JobStepMaps ==
    ASSUME Inv, Inv', NEW m \in Messages, \A l \in Messages \ {m} : SameJob(l),
           \/ job[m] = "none" /\ job'[m] = "waiting"
           \/ job[m] \in {"waiting", "active", "delayed"} /\ job'[m] # "none"
    PROVE  [Queue!Next]_(Queue!vars)
  <1>1. \A l \in Messages \ {m} : Phase(l)' = Phase(l)
    BY SamePhase
  <1>2. /\ job[m] \in DOMAIN JobPhase /\ job'[m] \in DOMAIN JobPhase
        /\ Phase(m) \in JobPhase[job[m]] /\ Phase(m)' \in JobPhase[job'[m]]
    BY PhaseIsJob, PhaseIsJobNext
  <1>3. \/ Phase(m)' = Phase(m)
        \/ Phase(m) = "none" /\ Phase(m)' = "open"
        \/ Phase(m) = "open" /\ Phase(m)' \in Queue!Outcomes
    BY <1>2 DEF JobPhase, Queue!Outcomes
  <1> QED BY <1>1, <1>3, OutboxStep

LEMMA StepMaps == Inv /\ Inv' /\ [Next]_vars => [Queue!Next]_(Queue!vars)
  <1> SUFFICES ASSUME Inv, Inv', [Next]_vars PROVE [Queue!Next]_(Queue!vars)
    OBVIOUS
  <1>1. CASE UNCHANGED queue
    <2>1. [l \in Messages |-> Phase(l)]' = [l \in Messages |-> Phase(l)]
      <3>1. \A l \in Messages : Phase(l)' = Phase(l)
        BY <1>1, SamePhase DEF queue, SameJob
      <3> QED BY <3>1
    <2> QED BY <2>1 DEF Queue!vars
  <1>2. ASSUME NEW n \in Notices, AddJob(n) PROVE [Queue!Next]_(Queue!vars)
    <2>1. <<n, saved[n]>> \in Messages /\ job[<<n, saved[n]>>] = "none"
      BY <1>2 DEF AddJob, Inv, CallInv, CallOf, Messages
    <2>2. /\ job'[<<n, saved[n]>>] = "waiting"
          /\ \A l \in Messages \ {<<n, saved[n]>>} : SameJob(l)
      BY <1>2, <2>1 DEF AddJob, SameJob, Inv, TypeOK
    <2> QED BY <2>1, <2>2, JobStepMaps
  <1>3. ASSUME NEW m \in Messages, JobStep(m) PROVE [Queue!Next]_(Queue!vars)
    <2>1. /\ job[m] \in {"waiting", "delayed"} /\ job'[m] # "none"
          /\ \A l \in Messages \ {m} : SameJob(l)
      BY <1>3 DEF JobStep, Promote, TakeJob, SameJob, Inv, TypeOK
    <2> QED BY <2>1, JobStepMaps
  <1>4. ASSUME NEW x \in Workers, NEW m \in Messages,
               Complete(x, m) \/ Fail(x, m) \/ WorkerDeath(x, m)
        PROVE  [Queue!Next]_(Queue!vars)
    <2>1. job[m] = "active"
      BY <1>4 DEF Complete, Fail, WorkerDeath, Holds, Inv, JobInv, JobOf
    <2>2. job'[m] # "none" /\ \A l \in Messages \ {m} : SameJob(l)
      BY <1>4 DEF Complete, Fail, WorkerDeath, Release, SameJob, Inv, TypeOK
    <2> QED BY <2>1, <2>2, JobStepMaps
  <1> QED BY <1>1, <1>2, <1>3, <1>4
       DEF Next, ProducerStep, SaveRow, Return, Notify, WorkerStep, Process, Load, Dispatch, Save,
           FaultStep, ProducerFault, DatabaseFault, Quiescent, vars, queue

\* Whatever the faults, a message is enqueued, delivered or given up, for its
\* attempts or for its stalls, the way the outbox allows, once and for all: the
\* safety part of ImplementsOutbox.
THEOREM FollowsOutbox == Spec => Queue!Steps
  <1>1. Init => Queue!Init
    BY DEF Init, Queue!Init, Phase, Messages
  <1> QED BY <1>1, InitInv, StepInv, StepMaps, PTL DEF Spec, Queue!Steps
=============================================================================
