----------------------------- MODULE RateLimit -----------------------------
(***************************************************************************)
(* The fixed-window rate limiter of the gateway for ONE organization       *)
(* (rate-limit/rate-limit.service.ts) and the owner's change of the limit  *)
(* it enforces (organizations.service.ts, updateRateLimit).  Every key and *)
(* row involved is per organization, so organizations do not interact.     *)
(*                                                                         *)
(* A step is what happens between two awaits, or one command executed by   *)
(* Redis or Postgres.  Time is a discrete clock; a window is WindowLength  *)
(* ticks.                                                                  *)
(***************************************************************************)
EXTENDS Integers, FiniteSets

CONSTANTS
    Requests,          \* gateway requests, each made once, on any app instance
    Updates,           \* calls of updateRateLimit, each made once
    Plans,             \* the Plan enum
    Enterprise,        \* Plan.ENTERPRISE
    PlanRateLimits,    \* PLAN_RATE_LIMITS
    Limits,            \* values of requestsPerMinute
    Dtos,              \* the bodies an owner sends: [plan, requestsPerMinute]
    Undefined,         \* a field the body leaves out
    InitialOrg,        \* the org row before the first step
    WindowLength,      \* WINDOW_SECONDS, in ticks
    Latency,           \* bound: ticks a request waits before its next step
    IncrLatency,       \* bound: ticks between computing windowId and INCR
    MaxTime,           \* bound: the clock stops here
    Crashable          \* requests and updates whose instance may crash

Orgs == [plan : Plans, requestsPerMinute : Limits]

ASSUME PlanAssumption == Enterprise \in Plans /\ PlanRateLimits \in [Plans -> Limits]
ASSUME LimitAssumption == Limits \subseteq Nat \ {0} /\ InitialOrg \in Orgs
ASSUME DtoAssumption ==
    /\ Dtos \subseteq [plan : Plans \cup {Undefined},
                       requestsPerMinute : Limits \cup {Undefined}]
    /\ Undefined \notin Plans \cup Limits
ASSUME TimeAssumption == /\ WindowLength \in Nat \ {0}
                         /\ {Latency, IncrLatency, MaxTime} \subseteq Nat

VARIABLES
    now,               \* the clock all instances read
    org,               \* the organizations row
    cachedLimit,       \* rl:limit:<org>, Absent when there is no such key
    cacheExpires,      \* when that key expires
    counter,           \* rl:count:<org>:<window>, 0 when there is no such key
    counterExpires,    \* when that key expires, Persistent when it has no TTL
    pc,                \* where each request is in consume()
    limit, windowId, count,  \* its locals
    since,             \* when it took its last step
    notified,          \* whether it emitted RATELIMIT_EXCEEDED_EVENT
    updatePc,          \* where each update is in updateRateLimit()
    draft,             \* the entity it holds between findOne and save
    heldUntil          \* history: when each limit was last the row's limit

redisVars   == <<cachedLimit, cacheExpires, counter, counterExpires>>
requestVars == <<pc, limit, windowId, count, since, notified>>
updateVars  == <<updatePc, draft>>
vars == <<now, org, redisVars, requestVars, updateVars, heldUntil>>

Absent     == 0
Persistent == -1
Windows    == 0 .. (MaxTime \div WindowLength)
\* Slip: the window is rounded up, not down.
CurrentWindowCeil == (now + WindowLength) \div WindowLength
CurrentWindow == now \div WindowLength

Waiting == {"miss", "fill", "window", "incr", "expire", "decide"}
Answered == {"admitted", "rejected", "crashed"}

Init ==
    /\ now = 0
    /\ org = InitialOrg
    /\ cachedLimit = Absent /\ cacheExpires = 0
    /\ counter = [w \in Windows |-> 0]
    /\ counterExpires = [w \in Windows |-> Persistent]
    /\ pc = [r \in Requests |-> "idle"]
    /\ limit = [r \in Requests |-> Absent]
    /\ windowId = [r \in Requests |-> 0]
    /\ count = [r \in Requests |-> 0]
    /\ since = [r \in Requests |-> 0]
    /\ notified = [r \in Requests |-> FALSE]
    /\ updatePc = [u \in Updates |-> "idle"]
    /\ draft = [u \in Updates |-> InitialOrg]
    /\ heldUntil = [l \in Limits |-> 0]

-----------------------------------------------------------------------------
(* consume() and getLimit().                                               *)

Goto(r, step) == /\ pc' = [pc EXCEPT ![r] = step]
                 /\ since' = [since EXCEPT ![r] = now]

\* redis.get of the cached limit: a hit is the limit, a miss goes to the row.
ReadCache(r) ==
    /\ pc[r] = "idle"
    /\ Goto(r, IF cachedLimit = Absent THEN "miss" ELSE "window")
    /\ limit' = [limit EXCEPT ![r] = cachedLimit]
    /\ UNCHANGED <<now, org, redisVars, windowId, count, notified, updateVars, heldUntil>>

\* organizationsService.getRateLimit
ReadRow(r) ==
    /\ pc[r] = "miss"
    /\ Goto(r, "fill")
    /\ limit' = [limit EXCEPT ![r] = org.requestsPerMinute]
    /\ UNCHANGED <<now, org, redisVars, windowId, count, notified, updateVars, heldUntil>>

\* Slip: the TTL is given in milliseconds.
FillCacheMillis(r) ==
    /\ pc[r] = "fill"
    /\ Goto(r, "window")
    /\ cachedLimit' = limit[r]
    /\ cacheExpires' = now + 1000 * WindowLength
    /\ UNCHANGED <<now, org, counter, counterExpires, limit, windowId, count,
                   notified, updateVars, heldUntil>>

\* SET rl:limit:<org> EX WINDOW_SECONDS, with the value read before.
FillCache(r) ==
    /\ pc[r] = "fill"
    /\ Goto(r, "window")
    /\ cachedLimit' = limit[r]
    /\ cacheExpires' = now + WindowLength
    /\ UNCHANGED <<now, org, counter, counterExpires, limit, windowId, count,
                   notified, updateVars, heldUntil>>

\* Date.now() and the counter key, once getLimit has answered.
ComputeWindow(r) ==
    /\ pc[r] = "window"
    /\ Goto(r, "incr")
    /\ windowId' = [windowId EXCEPT ![r] = CurrentWindow]
    /\ UNCHANGED <<now, org, redisVars, limit, count, notified, updateVars, heldUntil>>

\* Slip: the first request of a window is taken for a later one.
IncrNoExpire(r) ==
    /\ pc[r] = "incr"
    /\ Goto(r, "decide")
    /\ counter' = [counter EXCEPT ![windowId[r]] = @ + 1]
    /\ count' = [count EXCEPT ![r] = counter[windowId[r]] + 1]
    /\ UNCHANGED <<now, org, cachedLimit, cacheExpires, counterExpires, limit,
                   windowId, notified, updateVars, heldUntil>>

\* INCR creates the key without a TTL when there is none.
Incr(r) ==
    /\ pc[r] = "incr"
    /\ Goto(r, IF counter[windowId[r]] = 0 THEN "expire" ELSE "decide")
    /\ counter' = [counter EXCEPT ![windowId[r]] = @ + 1]
    /\ count' = [count EXCEPT ![r] = counter[windowId[r]] + 1]
    /\ UNCHANGED <<now, org, cachedLimit, cacheExpires, counterExpires, limit,
                   windowId, notified, updateVars, heldUntil>>

\* EXPIRE has no effect on a key that is gone.
Expire(r) ==
    /\ pc[r] = "expire"
    /\ Goto(r, "decide")
    /\ counterExpires' = IF counter[windowId[r]] = 0 THEN counterExpires
                         ELSE [counterExpires EXCEPT ![windowId[r]] = now + WindowLength]
    /\ UNCHANGED <<now, org, cachedLimit, cacheExpires, counter, limit, windowId,
                   count, notified, updateVars, heldUntil>>

\* Slip: the limit is compared with the requests before this one.
DecideOffByOne(r) ==
    /\ pc[r] = "decide"
    /\ Goto(r, IF count[r] - 1 <= limit[r] THEN "admitted" ELSE "rejected")
    /\ notified' = [notified EXCEPT ![r] = count[r] = limit[r] + 1]
    /\ UNCHANGED <<now, org, redisVars, limit, windowId, count, updateVars, heldUntil>>

\* Slip: every rejected request emits the event.
DecideNotifyAll(r) ==
    /\ pc[r] = "decide"
    /\ Goto(r, IF count[r] <= limit[r] THEN "admitted" ELSE "rejected")
    /\ notified' = [notified EXCEPT ![r] = count[r] > limit[r]]
    /\ UNCHANGED <<now, org, redisVars, limit, windowId, count, updateVars, heldUntil>>

\* The event, the result, and the guard's 429.
Decide(r) ==
    /\ pc[r] = "decide"
    /\ Goto(r, IF count[r] <= limit[r] THEN "admitted" ELSE "rejected")
    /\ notified' = [notified EXCEPT ![r] = count[r] = limit[r] + 1]
    /\ UNCHANGED <<now, org, redisVars, limit, windowId, count, updateVars, heldUntil>>

\* The instance serving r dies; what it sent to Redis stays done.
RequestCrash(r) ==
    /\ r \in Crashable /\ pc[r] \in Waiting
    /\ Goto(r, "crashed")
    /\ UNCHANGED <<now, org, redisVars, limit, windowId, count, notified, updateVars, heldUntil>>

-----------------------------------------------------------------------------
(* updateRateLimit().                                                      *)

\* What the body makes of the row.
ApplyDto(row, dto) ==
    LET rpm == IF dto.plan \in Plans \ {Enterprise} THEN PlanRateLimits[dto.plan]
               ELSE IF dto.requestsPerMinute # Undefined THEN dto.requestsPerMinute
               ELSE row.requestsPerMinute
    IN  [plan |-> IF dto.plan = Undefined THEN row.plan ELSE dto.plan,
         requestsPerMinute |-> rpm]

LoadOrg(u, dto) ==
    /\ updatePc[u] = "idle"
    /\ updatePc' = [updatePc EXCEPT ![u] = "loaded"]
    /\ draft' = [draft EXCEPT ![u] = ApplyDto(org, dto)]
    /\ UNCHANGED <<now, org, redisVars, requestVars, heldUntil>>

\* orgRepo.save writes the whole entity.
SaveOrg(u) ==
    /\ updatePc[u] = "loaded"
    /\ updatePc' = [updatePc EXCEPT ![u] = "saved"]
    /\ org' = draft[u]
    /\ heldUntil' = [heldUntil EXCEPT ![org.requestsPerMinute] = now]
    /\ UNCHANGED <<now, redisVars, requestVars, draft>>

InvalidateLimit(u) ==
    /\ updatePc[u] = "saved"
    /\ updatePc' = [updatePc EXCEPT ![u] = "done"]
    /\ cachedLimit' = Absent
    /\ UNCHANGED <<now, org, cacheExpires, counter, counterExpires, requestVars,
                   draft, heldUntil>>

\* The instance dies, or the DEL fails, before the call is complete.
UpdateCrash(u) ==
    /\ u \in Crashable /\ updatePc[u] \in {"loaded", "saved"}
    /\ updatePc' = [updatePc EXCEPT ![u] = "crashed"]
    /\ UNCHANGED <<now, org, redisVars, requestVars, draft, heldUntil>>

-----------------------------------------------------------------------------
(* Time, and Redis dropping the keys whose TTL is over.                    *)

MayWait(r) ==
    pc[r] \in Waiting =>
        now - since[r] < (IF pc[r] = "incr" THEN IncrLatency ELSE Latency)

Expired(w) == counterExpires[w] # Persistent /\ counterExpires[w] <= now + 1

Tick ==
    /\ now < MaxTime
    /\ \A r \in Requests : MayWait(r)
    /\ now' = now + 1
    /\ cachedLimit' = IF cacheExpires <= now + 1 THEN Absent ELSE cachedLimit
    /\ counter' = [w \in Windows |-> IF Expired(w) THEN 0 ELSE counter[w]]
    /\ counterExpires' = [w \in Windows |-> IF Expired(w) THEN Persistent ELSE counterExpires[w]]
    /\ UNCHANGED <<org, cacheExpires, requestVars, updateVars, heldUntil>>

\* The end of the modelled period: every call is over.
Finished ==
    /\ now = MaxTime
    /\ \A r \in Requests : pc[r] \in Answered
    /\ \A u \in Updates : updatePc[u] \in {"done", "crashed"}
    /\ UNCHANGED vars

RequestStep(r) ==
    \/ ReadCache(r) \/ ReadRow(r) \/ FillCache(r) \/ ComputeWindow(r)
    \/ Incr(r) \/ Expire(r) \/ Decide(r) \/ RequestCrash(r)

UpdateStep(u) ==
    \/ \E dto \in Dtos : LoadOrg(u, dto)
    \/ SaveOrg(u) \/ InvalidateLimit(u) \/ UpdateCrash(u)

Next ==
    \/ \E r \in Requests : RequestStep(r)
    \/ \E u \in Updates : UpdateStep(u)
    \/ Tick
    \/ Finished

Spec == Init /\ [][Next]_vars

-----------------------------------------------------------------------------
(* Properties.                                                             *)

\* The shapes of the row, the Redis keys and the locals of every call.
TypeOK ==
    /\ now \in 0 .. MaxTime
    /\ org \in Orgs
    /\ cachedLimit \in Limits \cup {Absent} /\ cacheExpires \in Nat
    /\ counter \in [Windows -> Nat]
    /\ counterExpires \in [Windows -> Nat \cup {Persistent}]
    /\ pc \in [Requests -> {"idle"} \cup Waiting \cup Answered]
    /\ limit \in [Requests -> Limits \cup {Absent}]
    /\ windowId \in [Requests -> Windows]
    /\ count \in [Requests -> Nat]
    /\ since \in [Requests -> 0 .. MaxTime]
    /\ notified \in [Requests -> BOOLEAN]
    /\ updatePc \in [Updates -> {"idle", "loaded", "saved", "done", "crashed"}]
    /\ draft \in [Updates -> Orgs]
    /\ heldUntil \in [Limits -> Nat]

Admitted(w) == {r \in Requests : pc[r] = "admitted" /\ windowId[r] = w}
Rejected(w) == {r \in Requests : pc[r] = "rejected" /\ windowId[r] = w}
Crashed(w)   == {r \in Requests : pc[r] = "crashed" /\ windowId[r] = w}
Notifiers(w) == {r \in Requests : notified[r] /\ windowId[r] = w}

\* All requests counted in window w read the same limit.
OneLimit(w) ==
    \A r, q \in {p \in Requests : pc[p] \notin {"idle", "miss", "fill", "window"}} :
        windowId[r] = w /\ windowId[q] = w => limit[r] = limit[q]

\* The requests admitted in a window, over all instances and whatever the
\* interleaving and the changes of the limit, are never more than the largest
\* limit one of them was checked against (rate-limit.service.ts:20-27).
QuotaHolds ==
    \A w \in Windows : \A l \in Limits :
        (\A r \in Admitted(w) : limit[r] <= l) => Cardinality(Admitted(w)) <= l

\* Under a limit that does not change within the window, an organization is
\* told of a breach exactly once: at most one request emits the event, and once
\* the calls of a window that rejected somebody are over, one has, if none of
\* them died (rate-limit.service.ts:54-58).
NotifiedOncePerWindow ==
    \A w \in Windows : OneLimit(w) =>
        /\ Cardinality(Notifiers(w)) <= 1
        /\ (/\ Rejected(w) # {} /\ Crashed(w) = {}
            /\ \A r \in Requests : pc[r] \in Waiting => windowId[r] # w)
           => Notifiers(w) # {}

\* A counter does not outlive its window by more than one window and the
\* latencies of the call that set its TTL, unless that call died before it did
\* (rate-limit.service.ts:47-60).
CountersOfEndedWindowsExpire ==
    \A w \in Windows :
        /\ counter[w] # 0
        /\ \A r \in Crashed(w) : count[r] # 1
        => now < (w + 2) * WindowLength + Latency

\* The limit the gateway enforces from the cache is one the row had at most a
\* window and one latency ago, whatever fills, updates and crashed
\* invalidations interleave (rate-limit.service.ts:78-87).
StalenessBounded ==
    cachedLimit \in Limits \ {org.requestsPerMinute} =>
        now - heldUntil[cachedLimit] < WindowLength + Latency

\* Between updates the cached limit is the limit of the row: a change applies
\* immediately (rate-limit.service.ts:75-76, organizations.service.ts:208).
ChangesApplyImmediately ==
    (\A u \in Updates : updatePc[u] \in {"idle", "done"})
        => cachedLimit \in {Absent, org.requestsPerMinute}
=============================================================================
