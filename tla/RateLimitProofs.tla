-------------------------- MODULE RateLimitProofs --------------------------
(***************************************************************************)
(* What holds of RateLimit for any number of requests, updates, limits and *)
(* windows: its typing, how old an enforced limit may be, and, when INCR   *)
(* is not delayed past the tick that chose the window, that no window      *)
(* admits more than its limit, that a breach is told once and that the     *)
(* counters go.                                                            *)
(***************************************************************************)
EXTENDS RateLimit, FiniteSetTheorems, TLAPS

USE DEF Absent, Persistent

-----------------------------------------------------------------------------
(* The arithmetic of windows.                                              *)

\* Division by the window length: quotient and remainder.
LEMMA WindowDivision ==
    \A t \in Nat : /\ t \div WindowLength \in Nat
                   /\ t = WindowLength * (t \div WindowLength) + (t % WindowLength)
                   /\ t % WindowLength \in 0 .. (WindowLength - 1)
  BY TimeAssumption

\* Later instants are in later windows.
LEMMA WindowMonotone ==
    \A s, t \in Nat : s <= t => s \div WindowLength <= t \div WindowLength
  BY TimeAssumption, WindowDivision

\* One window length later is the next window, or a later one.
LEMMA NextWindow ==
    \A s, t \in Nat :
        s + WindowLength <= t => s \div WindowLength < t \div WindowLength
  BY TimeAssumption, WindowDivision

\* The current window is a modelled one.
LEMMA CurrentWindowType ==
    \A t \in 0 .. MaxTime : t \div WindowLength \in Windows
  <1> TAKE t \in 0 .. MaxTime
  <1>1. MaxTime \in Nat /\ t \in Nat /\ t <= MaxTime
    BY TimeAssumption
  <1>2. /\ t \div WindowLength \in Nat
        /\ MaxTime \div WindowLength \in Nat
        /\ t \div WindowLength <= MaxTime \div WindowLength
    BY <1>1, WindowDivision, WindowMonotone
  <1> QED BY <1>2 DEF Windows

-----------------------------------------------------------------------------
(* Typing.                                                                 *)

\* Applying a body to a row gives a row.
LEMMA ApplyDtoType ==
    \A row \in Orgs, dto \in Dtos : ApplyDto(row, dto) \in Orgs
  BY PlanAssumption, LimitAssumption, DtoAssumption DEF ApplyDto, Orgs

LEMMA InitTypeOK == Init => TypeOK
  BY LimitAssumption, TimeAssumption, CurrentWindowType
  DEF Init, TypeOK, Waiting, Answered, Windows

LEMMA StepTypeOK == TypeOK /\ [Next]_vars => TypeOK'
  <1> SUFFICES ASSUME TypeOK, [Next]_vars PROVE TypeOK'
    OBVIOUS
  <1> USE LimitAssumption, TimeAssumption
  <1>1. ASSUME NEW r \in Requests, RequestStep(r) PROVE TypeOK'
    <2> USE <1>1 DEF TypeOK, Goto, Waiting, Answered, redisVars, updateVars
    <2>1. CASE ReadCache(r) BY <2>1 DEF ReadCache
    <2>2. CASE ReadRow(r) BY <2>2 DEF ReadRow, Orgs
    <2>3. CASE FillCache(r) BY <2>3 DEF FillCache
    <2>4. CASE ComputeWindow(r)
      BY <2>4, CurrentWindowType DEF ComputeWindow, CurrentWindow
    <2>5. CASE Incr(r) BY <2>5 DEF Incr
    <2>6. CASE Expire(r) BY <2>6 DEF Expire
    <2>7. CASE Decide(r) BY <2>7 DEF Decide
    <2>8. CASE RequestCrash(r) BY <2>8 DEF RequestCrash
    <2> QED BY <2>1, <2>2, <2>3, <2>4, <2>5, <2>6, <2>7, <2>8 DEF RequestStep
  <1>2. ASSUME NEW u \in Updates, UpdateStep(u) PROVE TypeOK'
    <2> USE <1>2 DEF TypeOK, redisVars, requestVars
    <2>1. ASSUME NEW dto \in Dtos, LoadOrg(u, dto) PROVE TypeOK'
      BY <2>1, ApplyDtoType DEF LoadOrg
    <2>2. CASE SaveOrg(u)
      <3>1. org' \in Orgs /\ now \in Nat
        BY <2>2 DEF SaveOrg
      <3>2. heldUntil' \in [Limits -> Nat]
        BY <2>2, <3>1 DEF SaveOrg
      <3>3. updatePc' \in [Updates -> {"idle", "loaded", "saved", "done", "crashed"}]
        BY <2>2 DEF SaveOrg
      <3> QED BY <2>2, <3>1, <3>2, <3>3 DEF SaveOrg
    <2>3. CASE InvalidateLimit(u) BY <2>3 DEF InvalidateLimit
    <2>4. CASE UpdateCrash(u) BY <2>4 DEF UpdateCrash
    <2> QED BY <2>1, <2>2, <2>3, <2>4 DEF UpdateStep
  <1>3. CASE Tick
    BY <1>3 DEF TypeOK, Tick, requestVars, updateVars
  <1>4. CASE UNCHANGED vars
    BY <1>4 DEF TypeOK, vars, redisVars, requestVars, updateVars
  <1> QED BY <1>1, <1>2, <1>3, <1>4 DEF Next, Finished

\* The row, the Redis keys and the locals of every call keep their shapes.
THEOREM TypeCorrect == Spec => []TypeOK
  BY InitTypeOK, StepTypeOK, PTL DEF Spec

-----------------------------------------------------------------------------
(* The quota.                                                              *)

\* A request waiting for its INCR is still in the window it chose.
PromptInv == \A r \in Requests :
                /\ since[r] <= now
                /\ pc[r] = "incr" => since[r] = now /\ windowId[r] = CurrentWindow

\* A counter that will expire does so after its window.
CounterInv == \A w \in Windows :
                counterExpires[w] # Persistent =>
                    /\ counterExpires[w] - WindowLength \in Nat
                    /\ w <= (counterExpires[w] - WindowLength) \div WindowLength

Counted(r) == count[r] > 0

\* The counter of the current window has not lost a request, and the requests
\* of any window were given different counts.
CountInv == \A r \in Requests : Counted(r) =>
                /\ windowId[r] <= CurrentWindow
                /\ windowId[r] = CurrentWindow => count[r] <= counter[CurrentWindow]
                /\ \A s \in Requests \ {r} :
                     Counted(s) /\ windowId[s] = windowId[r] => count[s] # count[r]

\* Locals are written once, and only counts within the limit are admitted.
AdmissionInv == \A r \in Requests :
                /\ pc[r] \in {"idle", "miss", "fill", "window", "incr"} => ~Counted(r)
                /\ pc[r] \in {"expire", "decide"} => Counted(r) /\ windowId[r] <= CurrentWindow
                /\ pc[r] = "admitted" => Counted(r) /\ count[r] <= limit[r]

QuotaInv == TypeOK /\ PromptInv /\ CounterInv /\ CountInv /\ AdmissionInv

\* Requests with different counts, all within l, are at most l.
LEMMA InvImpliesQuota == QuotaInv => QuotaHolds
  <1> SUFFICES ASSUME QuotaInv, NEW w \in Windows, NEW l \in Limits,
                      \A r \in Admitted(w) : limit[r] <= l
               PROVE  Cardinality(Admitted(w)) <= l
    BY DEF QuotaHolds
  <1> DEFINE f == [r \in Admitted(w) |-> count[r]]
  <1>1. l \in Nat
    BY LimitAssumption
  <1>2. f \in Injection(Admitted(w), 1 .. l)
    <2>1. \A r \in Admitted(w) : count[r] \in 1 .. l
      <3> TAKE r \in Admitted(w)
      <3>1. r \in Requests /\ count[r] > 0 /\ count[r] <= limit[r] /\ limit[r] <= l
        BY DEF QuotaInv, AdmissionInv, Counted, Admitted
      <3>2. Limits \cup {Absent} \subseteq Nat
        BY LimitAssumption
      <3>3. count[r] \in Nat /\ limit[r] \in Limits \cup {Absent}
        BY <3>1 DEF QuotaInv, TypeOK
      <3>4. count[r] \in Nat /\ limit[r] \in Nat
        BY <3>2, <3>3
      <3> QED BY <1>1, <3>1, <3>4
    <2>2. \A r, s \in Admitted(w) : r # s => count[r] # count[s]
      BY DEF QuotaInv, CountInv, AdmissionInv, Admitted
    <2> QED BY <2>1, <2>2 DEF Injection, IsInjective
  <1>3. IsFiniteSet(1 .. l) /\ Cardinality(1 .. l) = l
    BY <1>1, FS_Interval
  <1> QED BY <1>2, <1>3, FS_Injection

LEMMA InitQuotaInv == Init => QuotaInv
  <1> SUFFICES ASSUME Init PROVE QuotaInv
    OBVIOUS
  <1>1. TypeOK
    BY InitTypeOK
  <1>2. PromptInv /\ CounterInv /\ CountInv /\ AdmissionInv
    BY DEF Init, PromptInv, CounterInv, CountInv, AdmissionInv, Counted
  <1> QED BY <1>1, <1>2 DEF QuotaInv

\* The clock of a prompt limiter stands still while an INCR is due.
LEMMA TickPrompt ==
    ASSUME IncrLatency = 0, TypeOK, PromptInv, Tick
    PROVE  \A r \in Requests : pc[r] # "incr"
  BY DEF TypeOK, PromptInv, Tick, MayWait, Waiting

\* Each step of the specification keeps the invariant.
LEMMA StepQuotaInv ==
    IncrLatency = 0 /\ QuotaInv /\ [Next]_vars => QuotaInv'
  <1> SUFFICES ASSUME IncrLatency = 0, QuotaInv, [Next]_vars PROVE QuotaInv'
    OBVIOUS
  <1> USE DEF QuotaInv
  <1>0. TypeOK'
    BY StepTypeOK
  <1>t. now \in Nat /\ CurrentWindow \in Windows /\ CurrentWindow \in Nat
    BY TimeAssumption, CurrentWindowType, WindowDivision DEF TypeOK, CurrentWindow
  <1>w. \A w \in Windows : w \in Nat
    BY DEF Windows
  <1>1. ASSUME NEW r \in Requests, RequestStep(r) PROVE QuotaInv'
    <2>c. CurrentWindow' = CurrentWindow /\ now' = now
      BY <1>1 DEF RequestStep, CurrentWindow, ReadCache, ReadRow, FillCache, ComputeWindow,
                  Incr, Expire, Decide, RequestCrash
    <2>p. PromptInv'
      BY <1>1, <1>t, <2>c DEF RequestStep, PromptInv, TypeOK, Goto, ReadCache, ReadRow,
                  FillCache, ComputeWindow, Incr, Expire, Decide, RequestCrash
    <2> USE DEF Goto, redisVars, updateVars
    <2>1. CASE Incr(r)
      <3>1. windowId[r] = CurrentWindow /\ ~Counted(r)
        BY <2>1 DEF Incr, PromptInv, AdmissionInv
      <3>2. CounterInv'
        BY <2>1, <2>c DEF Incr, CounterInv
      <3>3. CountInv'
        BY <2>1, <2>c, <3>1, <1>t DEF Incr, CountInv, Counted, TypeOK
      <3>4. AdmissionInv'
        BY <2>1, <2>c, <3>1, <1>t DEF Incr, AdmissionInv, Counted, TypeOK
      <3> QED BY <1>0, <2>p, <3>2, <3>3, <3>4
    <2>2. CASE Expire(r)
      <3>1. windowId[r] <= CurrentWindow
        BY <2>2 DEF Expire, AdmissionInv
      <3>2. CounterInv'
        <4>1. (now + WindowLength) - WindowLength = now
          BY <1>t, TimeAssumption
        <4> SUFFICES ASSUME NEW w \in Windows, counterExpires'[w] # Persistent
                     PROVE  /\ counterExpires'[w] - WindowLength \in Nat
                            /\ w <= (counterExpires'[w] - WindowLength) \div WindowLength
          BY DEF CounterInv
        <4>2. CASE counterExpires'[w] = counterExpires[w]
          BY <4>2 DEF CounterInv
        <4>3. CASE counterExpires'[w] = now + WindowLength /\ w = windowId[r]
          BY <4>1, <4>3, <3>1, <1>t DEF CurrentWindow
        <4> QED BY <2>2, <4>2, <4>3 DEF Expire, TypeOK
      <3>3. CountInv' /\ AdmissionInv'
        BY <2>2, <2>c DEF Expire, CountInv, AdmissionInv, Counted, TypeOK
      <3> QED BY <1>0, <2>p, <3>2, <3>3
    <2>3. CASE Decide(r)
      <3>1. CounterInv' /\ CountInv'
        BY <2>3, <2>c DEF Decide, CounterInv, CountInv, Counted
      <3>2. AdmissionInv'
        BY <2>3, <2>c DEF Decide, AdmissionInv, Counted, TypeOK
      <3> QED BY <1>0, <2>p, <3>1, <3>2
    <2>4. CASE ComputeWindow(r)
      <3>1. ~Counted(r)
        BY <2>4 DEF ComputeWindow, AdmissionInv
      <3>2. CounterInv' /\ CountInv' /\ AdmissionInv'
        BY <2>4, <2>c, <3>1 DEF ComputeWindow, CounterInv, CountInv, AdmissionInv, Counted, TypeOK
      <3> QED BY <1>0, <2>p, <3>2
    <2>5. CASE ReadCache(r)
      BY <1>0, <2>p, <2>5, <2>c DEF ReadCache, CounterInv, CountInv, AdmissionInv, Counted, TypeOK
    <2>6. CASE ReadRow(r)
      BY <1>0, <2>p, <2>6, <2>c DEF ReadRow, CounterInv, CountInv, AdmissionInv, Counted, TypeOK
    <2>7. CASE FillCache(r)
      BY <1>0, <2>p, <2>7, <2>c DEF FillCache, CounterInv, CountInv, AdmissionInv, Counted, TypeOK
    <2>8. CASE RequestCrash(r)
      BY <1>0, <2>p, <2>8, <2>c DEF RequestCrash, CounterInv, CountInv, AdmissionInv, Counted, TypeOK
    <2> QED BY <1>1, <2>1, <2>2, <2>3, <2>4, <2>5, <2>6, <2>7, <2>8 DEF RequestStep
  <1>2. ASSUME NEW u \in Updates, UpdateStep(u) PROVE QuotaInv'
    BY <1>0, <1>2 DEF UpdateStep, LoadOrg, SaveOrg, InvalidateLimit, UpdateCrash,
         redisVars, requestVars, CurrentWindow, PromptInv, CounterInv, CountInv, AdmissionInv, Counted
  <1>3. CASE Tick
    <2>1. \A r \in Requests : pc[r] # "incr"
      BY <1>3, TickPrompt
    <2>2. now' = now + 1 /\ now' \in Nat /\ CurrentWindow' \in Nat /\ CurrentWindow <= CurrentWindow'
      BY <1>3, <1>t, WindowDivision, WindowMonotone DEF Tick, CurrentWindow
    <2>3. PromptInv'
      BY <1>3, <2>1, <2>2 DEF Tick, PromptInv, requestVars, TypeOK
    <2>4. CounterInv'
      BY <1>3 DEF Tick, CounterInv, Expired
    <2>5. CurrentWindow' = CurrentWindow => counter'[CurrentWindow] = counter[CurrentWindow]
      <3>1. SUFFICES ASSUME CurrentWindow' = CurrentWindow, Expired(CurrentWindow) PROVE FALSE
        BY <1>3, <1>t DEF Tick
      <3> DEFINE start == counterExpires[CurrentWindow] - WindowLength
      <3>2. start \in Nat /\ CurrentWindow <= start \div WindowLength
        BY <1>t, <3>1 DEF Expired, CounterInv
      <3>3. start + WindowLength <= now'
        BY <2>2, <3>1, <1>t, TimeAssumption DEF Expired, TypeOK
      <3>4. start \div WindowLength < now' \div WindowLength
        BY <3>2, <3>3, <2>2, NextWindow
      <3> QED BY <1>t, <3>1, <3>2, <3>4, <2>2, WindowDivision DEF CurrentWindow
    <2>6. CountInv'
      <3> SUFFICES ASSUME NEW r \in Requests, Counted(r)
                   PROVE  /\ windowId[r] <= CurrentWindow'
                          /\ windowId[r] = CurrentWindow' =>
                               count[r] <= counter'[CurrentWindow']
                          /\ \A s \in Requests \ {r} :
                               Counted(s) /\ windowId[s] = windowId[r] => count[s] # count[r]
        BY <1>3 DEF Tick, CountInv, Counted, requestVars
      <3>1. windowId[r] \in Nat /\ windowId[r] <= CurrentWindow
        BY <1>w DEF TypeOK, CountInv
      <3>2. windowId[r] <= CurrentWindow'
        BY <3>1, <2>2, <1>t
      <3>3. windowId[r] = CurrentWindow' => CurrentWindow' = CurrentWindow
        BY <3>1, <2>2, <1>t
      <3> QED BY <3>2, <3>3, <2>5 DEF CountInv
    <2>7. AdmissionInv'
      <3>1. \A r \in Requests : windowId[r] \in Nat
        BY <1>w DEF TypeOK
      <3>2. \A r \in Requests : windowId[r] <= CurrentWindow => windowId[r] <= CurrentWindow'
        BY <3>1, <2>2, <1>t
      <3> QED BY <1>3, <3>2 DEF Tick, AdmissionInv, Counted, requestVars
    <2> QED BY <1>0, <2>3, <2>4, <2>6, <2>7
  <1>4. CASE UNCHANGED vars
    BY <1>0, <1>4 DEF vars, redisVars, requestVars, CurrentWindow,
         PromptInv, CounterInv, CountInv, AdmissionInv, Counted
  <1> QED BY <1>1, <1>2, <1>3, <1>4 DEF Next, Finished

\* Whatever the number of requests, the instances they reach, the changes of
\* the limit and the crashes: while INCR reaches Redis in the tick that chose
\* the window, no window admits more requests than the largest limit one of
\* them was checked against.
THEOREM Quota == IncrLatency = 0 /\ Spec => []QuotaHolds
  <1>1. IncrLatency = 0 /\ QuotaInv /\ [Next]_vars => QuotaInv'
    BY StepQuotaInv
  <1>2. IncrLatency = 0 => (Init /\ [][Next]_vars => []QuotaInv)
    <2> SUFFICES ASSUME IncrLatency = 0 PROVE Init /\ [][Next]_vars => []QuotaInv
      OBVIOUS
    <2>1. QuotaInv /\ [Next]_vars => QuotaInv'
      BY <1>1
    <2> QED BY InitQuotaInv, <2>1, PTL
  <1> QED BY <1>2, InvImpliesQuota, PTL DEF Spec

-----------------------------------------------------------------------------
(* How old an enforced limit can be.                                       *)

\* What a filler holds is the row's limit, or was after the filler read it.
FillInv == \A r \in Requests : pc[r] = "fill" =>
              /\ limit[r] \in Limits
              /\ since[r] <= now /\ now - since[r] <= Latency
              /\ limit[r] = org.requestsPerMinute \/ since[r] <= heldUntil[limit[r]]

\* A live key expires within a window, and within a window and a latency of
\* the moment the row lost its value.
CacheInv == cachedLimit # Absent =>
              /\ now < cacheExpires /\ cacheExpires <= now + WindowLength
              /\ \/ cachedLimit = org.requestsPerMinute
                 \/ cacheExpires <= heldUntil[cachedLimit] + Latency + WindowLength

FreshInv == TypeOK /\ FillInv /\ CacheInv

LEMMA StepFreshInv == FreshInv /\ [Next]_vars => FreshInv'
  <1> SUFFICES ASSUME FreshInv, [Next]_vars PROVE FillInv' /\ CacheInv'
    BY StepTypeOK DEF FreshInv
  <1>0. TypeOK /\ FillInv /\ CacheInv
    BY DEF FreshInv
  <1>t. /\ now \in Nat /\ cacheExpires \in Nat /\ Latency \in Nat /\ WindowLength \in Nat
        /\ WindowLength > 0 /\ \A l \in Limits : heldUntil[l] \in Nat
        /\ \A r \in Requests : since[r] \in Nat
        /\ org.requestsPerMinute \in Limits
        /\ Absent \notin Limits
    BY <1>0, TimeAssumption, LimitAssumption DEF TypeOK, Orgs
  <1>1. ASSUME NEW r \in Requests, RequestStep(r) PROVE FillInv' /\ CacheInv'
    <2> USE <1>0, <1>t DEF Goto, redisVars, updateVars
    <2>1. CASE ReadRow(r)
      BY <2>1 DEF ReadRow, FillInv, CacheInv, TypeOK
    <2>2. CASE FillCache(r)
      BY <2>2 DEF FillCache, FillInv, CacheInv, TypeOK
    <2>3. CASE ReadCache(r)
      BY <2>3 DEF ReadCache, FillInv, CacheInv, TypeOK
    <2>4. CASE ComputeWindow(r)
      BY <2>4 DEF ComputeWindow, FillInv, CacheInv, TypeOK
    <2>5. CASE Incr(r)
      BY <2>5 DEF Incr, FillInv, CacheInv, TypeOK
    <2>6. CASE Expire(r)
      BY <2>6 DEF Expire, FillInv, CacheInv, TypeOK
    <2>7. CASE Decide(r)
      BY <2>7 DEF Decide, FillInv, CacheInv, TypeOK
    <2>8. CASE RequestCrash(r)
      BY <2>8 DEF RequestCrash, FillInv, CacheInv, TypeOK
    <2> QED BY <1>1, <2>1, <2>2, <2>3, <2>4, <2>5, <2>6, <2>7, <2>8 DEF RequestStep
  <1>2. ASSUME NEW u \in Updates, UpdateStep(u) PROVE FillInv' /\ CacheInv'
    <2> USE <1>0, <1>t DEF redisVars, requestVars
    <2>1. ASSUME NEW dto \in Dtos, LoadOrg(u, dto) PROVE FillInv' /\ CacheInv'
      BY <2>1 DEF LoadOrg, FillInv, CacheInv
    <2>2. CASE SaveOrg(u)
      <3>1. heldUntil'[org.requestsPerMinute] = now
        BY <2>2 DEF SaveOrg, TypeOK
      <3>2. \A l \in Limits \ {org.requestsPerMinute} : heldUntil'[l] = heldUntil[l]
        BY <2>2 DEF SaveOrg, TypeOK
      <3>3. FillInv'
        BY <2>2, <3>1, <3>2 DEF SaveOrg, FillInv, TypeOK
      <3>4. CacheInv'
        BY <2>2, <3>1, <3>2 DEF SaveOrg, CacheInv, TypeOK
      <3> QED BY <3>3, <3>4
    <2>3. CASE InvalidateLimit(u)
      BY <2>3 DEF InvalidateLimit, FillInv, CacheInv
    <2>4. CASE UpdateCrash(u)
      BY <2>4 DEF UpdateCrash, FillInv, CacheInv
    <2> QED BY <1>2, <2>1, <2>2, <2>3, <2>4 DEF UpdateStep
  <1>3. CASE Tick
    <2>1. FillInv'
      BY <1>0, <1>t, <1>3 DEF Tick, MayWait, Waiting, FillInv, requestVars, updateVars
    <2>2. CacheInv'
      BY <1>0, <1>t, <1>3 DEF Tick, CacheInv, requestVars, updateVars
    <2> QED BY <2>1, <2>2
  <1>4. CASE UNCHANGED vars
    BY <1>0, <1>4 DEF vars, redisVars, requestVars, FillInv, CacheInv
  <1> QED BY <1>1, <1>2, <1>3, <1>4 DEF Next, Finished

\* The cached limit is one the row had at most a window and one latency ago,
\* for any number of fills, updates and crashed invalidations.
THEOREM Staleness == Spec => []StalenessBounded
  <1>1. Init => FreshInv
    BY InitTypeOK DEF Init, FreshInv, FillInv, CacheInv
  <1>2. FreshInv => StalenessBounded
    <2> SUFFICES ASSUME FreshInv, cachedLimit \in Limits \ {org.requestsPerMinute}
                 PROVE  now - heldUntil[cachedLimit] < WindowLength + Latency
      BY DEF StalenessBounded
    <2>1. /\ now \in Nat /\ cacheExpires \in Nat /\ heldUntil[cachedLimit] \in Nat
          /\ Latency \in Nat /\ WindowLength \in Nat
      BY TimeAssumption DEF FreshInv, TypeOK
    <2>2. cachedLimit # Absent
      BY LimitAssumption
    <2>3. now < cacheExpires /\ cacheExpires <= heldUntil[cachedLimit] + Latency + WindowLength
      BY <2>2 DEF FreshInv, CacheInv
    <2> QED BY <2>1, <2>3
  <1> QED BY <1>1, <1>2, StepFreshInv, PTL DEF Spec
-----------------------------------------------------------------------------
(* Who is told of a breach.                                                *)

\* Every count up to one that was given was given, in the same window.
GapFree ==
    /\ \A w \in Windows : \A n \in 1 .. counter[w] :
          \E s \in Requests : windowId[s] = w /\ count[s] = n
    /\ \A r \in Requests : \A n \in 1 .. count[r] :
          \E s \in Requests : windowId[s] = windowId[r] /\ count[s] = n

\* Of the rejected requests those notify that are one above the limit.
NoticeInv == \A r \in Requests :
    /\ notified[r] => pc[r] = "rejected"
    /\ pc[r] = "rejected" => /\ Counted(r) /\ count[r] > limit[r]
                             /\ notified[r] <=> count[r] = limit[r] + 1

LEMMA CountsAreNat ==
    ASSUME TypeOK PROVE \A r \in Requests : count[r] \in Nat /\ limit[r] \in Nat
  <1>1. Limits \cup {Absent} \subseteq Nat
    BY LimitAssumption
  <1>2. \A r \in Requests : limit[r] \in Limits \cup {Absent}
    BY DEF TypeOK
  <1> QED BY <1>1, <1>2 DEF TypeOK

LEMMA StepGapFree == QuotaInv /\ GapFree /\ [Next]_vars => GapFree'
  <1> SUFFICES ASSUME QuotaInv, GapFree, [Next]_vars PROVE GapFree'
    OBVIOUS
  <1>0. TypeOK /\ AdmissionInv
    BY DEF QuotaInv
  <1>1. CASE UNCHANGED <<counter, windowId, count>>
    BY <1>1 DEF GapFree
  <1>2. ASSUME NEW r \in Requests, Incr(r) PROVE GapFree'
    <2> DEFINE w == windowId[r]
               new == counter[w] + 1
    <2>1. /\ w \in Windows /\ counter[w] \in Nat /\ count[r] = 0
          /\ \A s \in Requests : count[s] \in Nat
      BY <1>0, <1>2 DEF TypeOK, AdmissionInv, Counted, Incr
    <2>2. /\ windowId' = windowId
          /\ counter'[w] = new /\ \A v \in Windows \ {w} : counter'[v] = counter[v]
          /\ count'[r] = new /\ \A s \in Requests \ {r} : count'[s] = count[s]
      BY <1>0, <1>2 DEF TypeOK, Incr
    <2>3. ASSUME NEW v \in Windows, NEW n \in Nat \ {0},
                 \E s \in Requests : windowId[s] = v /\ count[s] = n
          PROVE  \E s \in Requests : windowId'[s] = v /\ count'[s] = n
      BY <2>1, <2>2, <2>3
    <2>4. \A n \in 1 .. new : \E s \in Requests : windowId'[s] = w /\ count'[s] = n
      <3> SUFFICES ASSUME NEW n \in 1 .. new
                   PROVE  \E s \in Requests : windowId'[s] = w /\ count'[s] = n
        OBVIOUS
      <3>1. CASE n = new
        BY <2>2, <3>1
      <3>2. CASE n # new
        <4>1. n \in 1 .. counter[w]
          BY <2>1, <3>2
        <4> QED BY <2>1, <2>3, <4>1 DEF GapFree
      <3> QED BY <3>1, <3>2
    <2>5. \A v \in Windows : \A n \in 1 .. counter'[v] :
              \E s \in Requests : windowId'[s] = v /\ count'[s] = n
      <3> SUFFICES ASSUME NEW v \in Windows, NEW n \in 1 .. counter'[v]
                   PROVE  \E s \in Requests : windowId'[s] = v /\ count'[s] = n
        OBVIOUS
      <3>1. CASE v = w
        BY <2>2, <2>4, <3>1
      <3>2. CASE v # w
        <4>1. n \in 1 .. counter[v] /\ n \in Nat \ {0}
          BY <1>0, <2>2, <3>2 DEF TypeOK
        <4> QED BY <2>3, <4>1 DEF GapFree
      <3> QED BY <3>1, <3>2
    <2>6. \A s \in Requests : \A n \in 1 .. count'[s] :
              \E t \in Requests : windowId'[t] = windowId'[s] /\ count'[t] = n
      <3> SUFFICES ASSUME NEW s \in Requests, NEW n \in 1 .. count'[s]
                   PROVE  \E t \in Requests : windowId'[t] = windowId'[s] /\ count'[t] = n
        OBVIOUS
      <3>1. CASE s = r
        BY <2>2, <2>4, <3>1
      <3>2. CASE s # r
        <4>1. n \in 1 .. count[s] /\ n \in Nat \ {0} /\ windowId[s] \in Windows
          BY <1>0, <2>1, <2>2, <3>2 DEF TypeOK
        <4> QED BY <2>2, <2>3, <4>1 DEF GapFree
      <3> QED BY <3>1, <3>2
    <2> QED BY <2>5, <2>6 DEF GapFree
  <1>3. ASSUME NEW r \in Requests, ComputeWindow(r) PROVE GapFree'
    <2>1. count[r] = 0 /\ \A s \in Requests : count[s] \in Nat
      BY <1>0, <1>3 DEF TypeOK, AdmissionInv, Counted, ComputeWindow
    <2>2. /\ counter' = counter /\ count' = count
          /\ \A s \in Requests \ {r} : windowId'[s] = windowId[s]
      BY <1>0, <1>3 DEF TypeOK, ComputeWindow, redisVars
    <2>3. ASSUME NEW v, NEW n \in Nat \ {0},
                 \E s \in Requests : windowId[s] = v /\ count[s] = n
          PROVE  \E s \in Requests : windowId'[s] = v /\ count'[s] = n
      BY <2>1, <2>2, <2>3
    <2>4. \A v \in Windows : \A n \in 1 .. counter[v] : n \in Nat \ {0}
      BY <1>0 DEF TypeOK
    <2>5. \A s \in Requests : \A n \in 1 .. count[s] : n \in Nat \ {0} /\ s # r
      BY <2>1
    <2> QED BY <2>2, <2>3, <2>4, <2>5 DEF GapFree
  <1>4. CASE Tick
    <2>1. /\ UNCHANGED <<windowId, count>>
          /\ \A w \in Windows : counter'[w] \in {0, counter[w]}
      BY <1>0, <1>4 DEF Tick, requestVars
    <2>2. \A w \in Windows : 1 .. counter'[w] \subseteq 1 .. counter[w]
      BY <1>0, <2>1 DEF TypeOK
    <2> QED BY <2>1, <2>2 DEF GapFree
  <1>5. ASSUME NEW u \in Updates, UpdateStep(u) PROVE UNCHANGED <<counter, windowId, count>>
    BY <1>5 DEF UpdateStep, LoadOrg, SaveOrg, InvalidateLimit, UpdateCrash, redisVars, requestVars
  <1>6. ASSUME NEW r \in Requests, RequestStep(r), ~Incr(r), ~ComputeWindow(r)
        PROVE  UNCHANGED <<counter, windowId, count>>
    BY <1>6 DEF RequestStep, ReadCache, ReadRow, FillCache, Expire, Decide, RequestCrash, redisVars
  <1> QED BY <1>1, <1>2, <1>3, <1>4, <1>5, <1>6 DEF Next, Finished, vars, redisVars, requestVars

LEMMA StepNoticeInv == QuotaInv /\ NoticeInv /\ [Next]_vars => NoticeInv'
  <1> SUFFICES ASSUME QuotaInv, NoticeInv, [Next]_vars PROVE NoticeInv'
    OBVIOUS
  <1>0. TypeOK /\ AdmissionInv
    BY DEF QuotaInv
  <1>1. ASSUME NEW r \in Requests, RequestStep(r) PROVE NoticeInv'
    <2> USE <1>0 DEF Goto, TypeOK, NoticeInv, Counted
    <2>1. CASE ReadCache(r) \/ ReadRow(r) \/ FillCache(r) \/ ComputeWindow(r)
      BY <2>1 DEF ReadCache, ReadRow, FillCache, ComputeWindow
    <2>2. CASE Incr(r)
      BY <2>2 DEF Incr
    <2>3. CASE Expire(r) \/ RequestCrash(r)
      BY <2>3 DEF Expire, RequestCrash, Waiting
    <2>4. CASE Decide(r)
      <3>1. Counted(r) /\ count[r] \in Nat /\ limit[r] \in Nat
        BY <2>4, CountsAreNat DEF Decide, AdmissionInv
      <3>2. /\ UNCHANGED <<count, limit>>
            /\ pc'[r] = (IF count[r] <= limit[r] THEN "admitted" ELSE "rejected")
            /\ notified'[r] <=> count[r] = limit[r] + 1
            /\ \A q \in Requests \ {r} : pc'[q] = pc[q] /\ notified'[q] = notified[q]
        BY <2>4 DEF Decide
      <3> QED BY <3>1, <3>2
    <2> QED BY <1>1, <2>1, <2>2, <2>3, <2>4 DEF RequestStep
  <1>2. ASSUME NEW u \in Updates, UpdateStep(u) PROVE NoticeInv'
    BY <1>2 DEF UpdateStep, LoadOrg, SaveOrg, InvalidateLimit, UpdateCrash, requestVars, NoticeInv, Counted
  <1>3. CASE Tick \/ UNCHANGED vars
    BY <1>3 DEF Tick, vars, requestVars, NoticeInv, Counted
  <1> QED BY <1>1, <1>2, <1>3 DEF Next, Finished

LEMMA NoticeOfBreach == QuotaInv /\ GapFree /\ NoticeInv => NotifiedOncePerWindow
  <1> SUFFICES ASSUME QuotaInv, GapFree, NoticeInv, NEW w \in Windows, OneLimit(w)
               PROVE  /\ Cardinality(Notifiers(w)) <= 1
                      /\ (/\ Rejected(w) # {} /\ Crashed(w) = {}
                          /\ \A r \in Requests : pc[r] \in Waiting => windowId[r] # w)
                         => Notifiers(w) # {}
    BY DEF NotifiedOncePerWindow
  <1>0. TypeOK /\ AdmissionInv /\ CountInv
    BY DEF QuotaInv
  <1>1. \A r \in Requests : count[r] \in Nat /\ limit[r] \in Nat
    BY <1>0, CountsAreNat
  <1>2. ASSUME NEW r \in Notifiers(w), NEW s \in Notifiers(w) PROVE r = s
    <2>1. \A q \in {r, s} : /\ q \in Requests /\ windowId[q] = w /\ pc[q] = "rejected"
                            /\ Counted(q) /\ count[q] = limit[q] + 1
      BY DEF Notifiers, NoticeInv
    <2>2. limit[r] = limit[s]
      BY <2>1 DEF OneLimit
    <2> QED BY <1>0, <2>1, <2>2 DEF CountInv
  <1>3. Cardinality(Notifiers(w)) <= 1
    <2>1. CASE Notifiers(w) = {}
      BY <2>1, FS_EmptySet
    <2>2. ASSUME NEW r \in Notifiers(w) PROVE Cardinality(Notifiers(w)) <= 1
      <3>1. Notifiers(w) = {r}
        BY <1>2
      <3>2. Cardinality({r}) = 1
        BY FS_Singleton
      <3> QED BY <3>1, <3>2
    <2> QED BY <2>1, <2>2
  <1>4. ASSUME NEW r \in Rejected(w), Crashed(w) = {},
               \A q \in Requests : pc[q] \in Waiting => windowId[q] # w
        PROVE  Notifiers(w) # {}
    <2>1. r \in Requests /\ windowId[r] = w /\ pc[r] = "rejected" /\ count[r] > limit[r]
      BY DEF Rejected, NoticeInv
    <2>2. limit[r] + 1 \in 1 .. count[r]
      BY <1>1, <2>1
    <2>3. PICK s \in Requests : windowId[s] = w /\ count[s] = limit[r] + 1
      BY <2>1, <2>2 DEF GapFree
    <2>4. Counted(s)
      BY <1>1, <2>1, <2>3 DEF Counted
    <2>5. pc[s] \in {"admitted", "rejected"}
      BY <1>0, <1>4, <2>3, <2>4 DEF TypeOK, AdmissionInv, Waiting, Answered, Crashed
    <2>6. limit[s] = limit[r]
      BY <2>1, <2>3, <2>5 DEF OneLimit
    <2>7. pc[s] = "rejected"
      BY <1>0, <1>1, <2>1, <2>3, <2>5, <2>6 DEF AdmissionInv
    <2>8. notified[s]
      BY <2>3, <2>6, <2>7 DEF NoticeInv
    <2> QED BY <2>3, <2>8 DEF Notifiers
  <1> QED BY <1>3, <1>4

\* One request of a window whose limit does not change is told of the breach, and
\* no other is, however many requests race on however many instances.
THEOREM Notified == IncrLatency = 0 /\ Spec => []NotifiedOncePerWindow
  <1> SUFFICES ASSUME IncrLatency = 0 PROVE Spec => []NotifiedOncePerWindow
    OBVIOUS
  <1>1. Init => GapFree /\ NoticeInv
    BY InitTypeOK DEF Init, GapFree, NoticeInv, Windows
  <1>2. QuotaInv /\ [Next]_vars => QuotaInv'
    BY StepQuotaInv
  <1> QED BY <1>1, <1>2, InitQuotaInv, StepGapFree, StepNoticeInv, NoticeOfBreach, PTL DEF Spec
-----------------------------------------------------------------------------
(* When counters go.                                                       *)

\* The first instant after a window.
EndOf(w) == (w + 1) * WindowLength

LEMMA WindowEnds ==
    ASSUME NEW t \in Nat
    PROVE  t < EndOf(t \div WindowLength) /\ EndOf(t \div WindowLength) \in Nat
  <1> DEFINE d == t \div WindowLength
  <1>1. d \in Nat /\ t = WindowLength * d + (t % WindowLength) /\ t % WindowLength \in 0 .. (WindowLength - 1)
        /\ WindowLength \in Nat \ {0}
    BY WindowDivision, TimeAssumption
  <1>2. \A m, n \in Nat : (n + 1) * m = m * n + m /\ m * n \in Nat
    OBVIOUS
  <1> HIDE DEF d
  <1>3. (d + 1) * WindowLength = WindowLength * d + WindowLength /\ WindowLength * d \in Nat
    BY <1>1, <1>2
  <1>4. t < (d + 1) * WindowLength /\ (d + 1) * WindowLength \in Nat
    BY <1>1, <1>3
  <1> QED BY <1>4 DEF EndOf, d

LEMMA NextEnds ==
    ASSUME NEW w \in Windows
    PROVE  (w + 2) * WindowLength = EndOf(w) + WindowLength /\ EndOf(w) \in Nat
  <1>1. w \in Nat /\ WindowLength \in Nat
    BY TimeAssumption DEF Windows
  <1>2. \A m, n \in Nat : (n + 2) * m = (n + 1) * m + m /\ (n + 1) * m \in Nat
    OBVIOUS
  <1> QED BY <1>1, <1>2 DEF EndOf

\* The call that is to set a counter's TTL has created it in its window.
SetterOf(r) ==
    pc[r] = "expire" => /\ since[r] <= now /\ now - since[r] <= Latency
                        /\ since[r] < EndOf(windowId[r])

\* A counter has a TTL, or is waiting for it, or its call died.
TtlOf(w) ==
    counter[w] # 0 =>
        \/ /\ counterExpires[w] # Persistent /\ now < counterExpires[w]
           /\ counterExpires[w] < EndOf(w) + WindowLength + Latency
        \/ \E r \in Requests : windowId[r] = w /\ count[r] = 1 /\ pc[r] \in {"expire", "crashed"}

TtlInv == (\A r \in Requests : SetterOf(r)) /\ (\A w \in Windows : TtlOf(w))

LEMMA StepTtlInv == QuotaInv /\ TtlInv /\ [Next]_vars => TtlInv'
  <1> SUFFICES ASSUME QuotaInv, TtlInv, [Next]_vars PROVE TtlInv'
    OBVIOUS
  <1>0. TypeOK /\ TypeOK' /\ AdmissionInv /\ PromptInv
    BY StepTypeOK DEF QuotaInv
  <1>t. /\ now \in Nat /\ Latency \in Nat /\ WindowLength \in Nat \ {0}
        /\ \A r \in Requests : since[r] \in Nat /\ windowId[r] \in Windows
        /\ \A w \in Windows : EndOf(w) \in Nat /\ counterExpires[w] \in Int
    BY <1>0, TimeAssumption, NextEnds DEF TypeOK
  <1>1. ASSUME NEW r \in Requests, RequestStep(r) PROVE TtlInv'
    <2>1. now' = now /\ \A q \in Requests \ {r} : /\ pc'[q] = pc[q] /\ since'[q] = since[q]
                                                  /\ windowId'[q] = windowId[q] /\ count'[q] = count[q]
      BY <1>0, <1>1 DEF RequestStep, ReadCache, ReadRow, FillCache, ComputeWindow, Incr, Expire, Decide,
                  RequestCrash, TypeOK, Goto
    <2>2. \A q \in Requests \ {r} : SetterOf(q)'
      BY <2>1 DEF TtlInv, SetterOf, EndOf
    <2>3. CASE Incr(r)
      <3> DEFINE w == windowId[r]
      <3>1. /\ windowId' = windowId /\ counterExpires' = counterExpires
            /\ counter' = [counter EXCEPT ![w] = counter[w] + 1]
            /\ count'[r] = counter[w] + 1 /\ since'[r] = now
            /\ pc'[r] = (IF counter[w] = 0 THEN "expire" ELSE "decide")
            /\ pc[r] = "incr" /\ count[r] = 0
        BY <1>0, <2>3 DEF Incr, TypeOK, Goto, AdmissionInv, Counted
      <3>2. w = now \div WindowLength
        BY <1>0, <3>1 DEF PromptInv, CurrentWindow
      <3>3. now < EndOf(w)
        BY <1>t, <3>2, WindowEnds
      <3>4. SetterOf(r)'
        BY <1>t, <2>1, <3>1, <3>3 DEF SetterOf, EndOf
      <3>5. ASSUME NEW v \in Windows PROVE TtlOf(v)'
        <4>1. CASE v = w /\ counter[w] = 0
          BY <3>1, <4>1 DEF TtlOf
        <4>2. CASE ~(v = w /\ counter[w] = 0)
          <5>1. counter'[v] # 0 => counter[v] # 0
            BY <1>0, <3>1, <4>2 DEF TypeOK
          <5>2. TtlOf(v)
            BY DEF TtlInv
          <5> QED BY <2>1, <3>1, <5>1, <5>2 DEF TtlOf, EndOf
        <4> QED BY <4>1, <4>2
      <3> QED BY <2>2, <3>4, <3>5 DEF TtlInv
    <2>4. CASE Expire(r)
      <3> DEFINE w == windowId[r]
      <3>1. /\ UNCHANGED <<windowId, count, counter>> /\ pc[r] = "expire" /\ pc'[r] = "decide"
            /\ w \in Windows
            /\ counter[w] = 0 \/ counterExpires'[w] = now + WindowLength
            /\ \A v \in Windows \ {w} : counterExpires'[v] = counterExpires[v]
        BY <1>0, <2>4 DEF Expire, TypeOK, Goto
      <3>2. now < EndOf(w) + Latency
        BY <1>t, <3>1 DEF TtlInv, SetterOf
      <3>3. SetterOf(r)'
        BY <3>1 DEF SetterOf
      <3>4. ASSUME NEW v \in Windows PROVE TtlOf(v)'
        <4>1. CASE v = w
          BY <1>t, <2>1, <3>1, <3>2, <4>1 DEF TtlOf, EndOf
        <4>2. CASE v # w
          <5>1. TtlOf(v)
            BY DEF TtlInv
          <5> QED BY <2>1, <3>1, <4>2, <5>1 DEF TtlOf, EndOf
        <4> QED BY <4>1, <4>2
      <3> QED BY <2>2, <3>3, <3>4 DEF TtlInv
    <2>5. CASE ~Incr(r) /\ ~Expire(r)
      <3>1. /\ UNCHANGED <<count, counter, counterExpires>>
            /\ pc'[r] # "expire" /\ (pc[r] = "expire" => pc'[r] = "crashed")
            /\ windowId'[r] = windowId[r] \/ pc[r] = "window"
        BY <1>0, <1>1, <2>5 DEF RequestStep, ReadCache, ReadRow, FillCache, ComputeWindow, Decide,
             RequestCrash, TypeOK, Goto, redisVars
      <3>2. pc[r] = "crashed" => FALSE
        BY <1>1 DEF RequestStep, ReadCache, ReadRow, FillCache, ComputeWindow, Incr, Expire, Decide,
             RequestCrash, Waiting
      <3>3. SetterOf(r)'
        BY <3>1 DEF SetterOf
      <3>4. ASSUME NEW v \in Windows PROVE TtlOf(v)'
        <4>1. TtlOf(v)
          BY DEF TtlInv
        <4>2. ASSUME NEW q \in Requests, windowId[q] = v, count[q] = 1, pc[q] \in {"expire", "crashed"}
              PROVE  windowId'[q] = v /\ count'[q] = 1 /\ pc'[q] \in {"expire", "crashed"}
          BY <2>1, <3>1, <3>2, <4>2
        <4> QED BY <2>1, <3>1, <4>1, <4>2 DEF TtlOf, EndOf
      <3> QED BY <2>2, <3>3, <3>4 DEF TtlInv
    <2> QED BY <2>3, <2>4, <2>5
  <1>2. ASSUME NEW u \in Updates, UpdateStep(u) PROVE TtlInv'
    <2>1. UNCHANGED <<now, counter, counterExpires, pc, windowId, count, since>>
      BY <1>2 DEF UpdateStep, LoadOrg, SaveOrg, InvalidateLimit, UpdateCrash, redisVars, requestVars
    <2> QED BY <2>1 DEF TtlInv, SetterOf, TtlOf, EndOf
  <1>3. CASE Tick
    <2>1. /\ now' = now + 1 /\ UNCHANGED <<pc, windowId, count, since>>
          /\ \A r \in Requests : pc[r] = "expire" => now - since[r] < Latency
      BY <1>3 DEF Tick, requestVars, MayWait, Waiting
    <2>2. \A r \in Requests : SetterOf(r)'
      BY <1>t, <2>1 DEF TtlInv, SetterOf, EndOf
    <2>3. ASSUME NEW w \in Windows PROVE TtlOf(w)'
      <3>1. TtlOf(w)
        BY DEF TtlInv
      <3>2. CASE Expired(w)
        BY <1>3, <3>2 DEF Tick, TtlOf
      <3>3. CASE ~Expired(w)
        <4>1. counter'[w] = counter[w] /\ counterExpires'[w] = counterExpires[w]
          BY <1>3, <3>3 DEF Tick
        <4> QED BY <1>t, <2>1, <3>1, <3>3, <4>1 DEF TtlOf, EndOf, Expired
      <3> QED BY <3>2, <3>3
    <2> QED BY <2>2, <2>3 DEF TtlInv
  <1>4. CASE UNCHANGED vars
    BY <1>4 DEF vars, redisVars, requestVars, TtlInv, SetterOf, TtlOf, EndOf
  <1> QED BY <1>1, <1>2, <1>3, <1>4 DEF Next, Finished

LEMMA CountersGo == QuotaInv /\ TtlInv => CountersOfEndedWindowsExpire
  <1> SUFFICES ASSUME QuotaInv, TtlInv, NEW w \in Windows, counter[w] # 0, \A r \in Crashed(w) : count[r] # 1
               PROVE  now < (w + 2) * WindowLength + Latency
    BY DEF CountersOfEndedWindowsExpire
  <1>t. /\ now \in Nat /\ Latency \in Nat /\ WindowLength \in Nat \ {0}
        /\ \A r \in Requests : since[r] \in Nat
        /\ EndOf(w) \in Nat /\ counterExpires[w] \in Int
        /\ (w + 2) * WindowLength = EndOf(w) + WindowLength
    BY TimeAssumption, NextEnds DEF QuotaInv, TypeOK
  <1>1. CASE /\ now < counterExpires[w]
             /\ counterExpires[w] < EndOf(w) + WindowLength + Latency
    BY <1>t, <1>1
  <1>2. ASSUME NEW r \in Requests, windowId[r] = w, count[r] = 1, pc[r] \in {"expire", "crashed"}
        PROVE  now < (w + 2) * WindowLength + Latency
    <2>1. pc[r] = "expire"
      BY <1>2 DEF Crashed
    <2>2. now - since[r] <= Latency /\ since[r] < EndOf(w)
      BY <1>2, <2>1 DEF TtlInv, SetterOf
    <2> QED BY <1>t, <2>2
  <1> QED BY <1>1, <1>2 DEF TtlInv, TtlOf

\* No counter outlives its window by more than a window and a latency, unless
\* the call that created it died before it gave it a TTL.
THEOREM CountersExpire == IncrLatency = 0 /\ Spec => []CountersOfEndedWindowsExpire
  <1> SUFFICES ASSUME IncrLatency = 0 PROVE Spec => []CountersOfEndedWindowsExpire
    OBVIOUS
  <1>1. Init => TtlInv
    BY DEF Init, TtlInv, SetterOf, TtlOf
  <1>2. QuotaInv /\ [Next]_vars => QuotaInv'
    BY StepQuotaInv
  <1> QED BY <1>1, <1>2, InitQuotaInv, StepTtlInv, CountersGo, PTL DEF Spec
=============================================================================
