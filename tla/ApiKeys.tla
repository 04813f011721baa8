------------------------------ MODULE ApiKeys ------------------------------
(***************************************************************************)
(* The API keys of ONE application (api-keys/api-keys.service.ts): owners  *)
(* create, revoke and rotate them, update or remove the application        *)
(* (applications/applications.service.ts), while gateway requests pass the *)
(* guards with them (api-keys/guards/api-key.guard.ts,                     *)
(* gateway/gateway.controller.ts) and are logged.  Keys of different       *)
(* applications do not interact.                                           *)
(*                                                                         *)
(* A step is what happens between two awaits; a transaction is one step.   *)
(***************************************************************************)
EXTENDS Integers, FiniteSets

CONSTANTS
    Keys,              \* api_keys ids, each used once
    Issued,            \* those created before, without an end
    Owners,            \* calls of create, revoke, rotate and of applications.update and remove
    Requests,          \* gateway requests
    Lifetimes,         \* expiresInDays of created keys, Never for none
    Never, None,
    MaxTime,           \* bound: the clock stops here
    Crashable          \* calls and requests that may throw or die between two awaits

ASSUME LifetimesAssumption == Never \notin Nat /\ Lifetimes \subseteq (Nat \ {0}) \cup {Never}
ASSUME CallsAssumption == /\ None \notin Keys /\ Issued \subseteq Keys /\ MaxTime \in Nat
                          /\ Crashable \subseteq Owners \cup Requests

VARIABLES
    now,        \* the clock, in days
    app,        \* whether the applications row is there
    key,        \* the api_keys rows
    op,         \* what each owner's call does
    target,     \* the key each call and request is about
    pc,         \* where it is
    entity,     \* the row it has loaded
    context,    \* the key a request is authenticated by, None for none
    logs,       \* api_logs: the requests logged, with their key
    uses,       \* history: how often each key was accepted
    ended,      \* history: the lineages a key of which was revoked by revoke()
    raced       \* history: the lineages on which two rotations overlapped

vars == <<now, app, key, op, target, pc, entity, context, logs, uses, ended, raced>>

\* root is the key whose rotations led to this one.
NoKey == [state |-> "none", root |-> None, revoked |-> FALSE, expires |-> Never, usage |-> 0]

Calls == Owners \cup Requests

Init ==
    /\ now = 0
    /\ app = TRUE
    /\ key = [k \in Keys |-> IF k \in Issued THEN [NoKey EXCEPT !.state = "active", !.root = k] ELSE NoKey]
    /\ op = [p \in Owners |-> "none"]
    /\ target = [c \in Calls |-> None]
    /\ pc = [c \in Calls |-> "idle"]
    /\ entity = [c \in Calls |-> NoKey]
    /\ context = [r \in Requests |-> None]
    /\ logs = {}
    /\ uses = [k \in Keys |-> 0]
    /\ ended = {} /\ raced = {}

Ended == {"done", "failed"}

Goto(c, step) == pc' = [pc EXCEPT ![c] = step]
Set(c, e) == entity' = [entity EXCEPT ![c] = e]

\* The call is over; its locals are gone.
Leave(c, end) == /\ Goto(c, end)
                 /\ Set(c, NoKey)
                 /\ target' = [target EXCEPT ![c] = None]

-----------------------------------------------------------------------------
(* The management API.                                                     *)

Begin(p, kind, step) ==
    /\ pc[p] = "idle"
    /\ Goto(p, step)
    /\ op' = [op EXCEPT ![p] = kind]

\* Slip: the lifetime is subtracted.
FindAppSubtracts(p, lifetime) ==
    /\ app
    /\ Begin(p, "create", "insert")
    /\ Set(p, [NoKey EXCEPT !.state = "active",
                            !.expires = IF lifetime = Never THEN Never ELSE now - lifetime])
    /\ UNCHANGED <<now, app, key, target, context, logs, uses, ended, raced>>

\* create(): findOneOrThrow of the application, then a key is drawn.
FindApp(p, lifetime) ==
    /\ app
    /\ Begin(p, "create", "insert")
    /\ Set(p, [NoKey EXCEPT !.state = "active",
                            !.expires = IF lifetime = Never THEN Never ELSE now + lifetime])
    /\ UNCHANGED <<now, app, key, target, context, logs, uses, ended, raced>>

\* keyRepo.save: the foreign key fails when the application is gone.
InsertKey(p, k) ==
    /\ pc[p] = "insert" /\ key[k].state = "none"
    /\ IF app THEN /\ Leave(p, "done")
                   /\ key' = [key EXCEPT ![k] = [entity[p] EXCEPT !.root = k]]
              ELSE Leave(p, "failed") /\ UNCHANGED key
    /\ UNCHANGED <<now, app, op, context, logs, uses, ended, raced>>

\* The rotations of a lineage that have loaded their key and not yet swapped it.
Rotating(root) == {p \in Owners : pc[p] = "swap" /\ entity[p].root = root}

\* revoke() and rotate(): findKeyOrThrow, and a revoked key is refused.
LoadKey(p, kind, k) ==
    /\ kind \in {"revoke", "rotate"}
    /\ key[k].state = "active" /\ ~key[k].revoked
    /\ Begin(p, kind, IF kind = "revoke" THEN "revoke" ELSE "swap")
    /\ target' = [target EXCEPT ![p] = k]
    /\ Set(p, key[k])
    /\ raced' = IF kind = "rotate" /\ Rotating(key[k].root) # {} THEN raced \cup {key[k].root}
                ELSE raced
    /\ UNCHANGED <<now, app, key, context, logs, uses, ended>>

\* The loaded entity is saved as a whole, revoked.  A row that is gone meanwhile
\* is inserted again, unless its application, without which it fails, has gone too.
Revoked(p) == [entity[p] EXCEPT !.revoked = TRUE]

SaveRevoked(p) ==
    /\ pc[p] = "revoke"
    /\ IF app
       THEN /\ Leave(p, "done")
            /\ key' = [key EXCEPT ![target[p]] = Revoked(p)]
            /\ ended' = ended \cup {entity[p].root}
       ELSE Leave(p, "failed") /\ UNCHANGED <<key, ended>>
    /\ UNCHANGED <<now, app, op, context, logs, uses, raced>>

\* Slip: the old key is not saved in the transaction.
SwapKeysAddOnly(p, k) ==
    /\ pc[p] = "swap" /\ key[k].state = "none"
    /\ IF app
       THEN /\ Leave(p, "done")
            /\ key' = [key EXCEPT ![k] = [entity[p] EXCEPT !.usage = 0]]
       ELSE Leave(p, "failed") /\ UNCHANGED key
    /\ UNCHANGED <<now, app, op, context, logs, uses, ended, raced>>

\* The transaction of rotate(): the old key is revoked and its replacement,
\* which expires with it, is inserted.
SwapKeys(p, k) ==
    /\ pc[p] = "swap" /\ key[k].state = "none"
    /\ IF app
       THEN /\ Leave(p, "done")
            /\ key' = [key EXCEPT ![target[p]] = Revoked(p),
                                  ![k] = [entity[p] EXCEPT !.usage = 0]]
       ELSE Leave(p, "failed") /\ UNCHANGED key
    /\ UNCHANGED <<now, app, op, context, logs, uses, ended, raced>>

\* applications.update() and remove(): findOneOrThrow.
LoadApp(p, kind) ==
    /\ app
    /\ Begin(p, kind, kind)
    /\ UNCHANGED <<now, app, key, target, entity, context, logs, uses, ended, raced>>

\* save(app): a row that is gone is inserted again.
SaveApp(p) ==
    /\ pc[p] = "update"
    /\ Leave(p, "done")
    /\ app' = TRUE
    /\ UNCHANGED <<now, key, op, context, logs, uses, ended, raced>>

\* The application is deleted and, by cascade, its keys.
RemoveApp(p) ==
    /\ pc[p] = "remove"
    /\ Leave(p, "done")
    /\ app' = FALSE
    /\ key' = [k \in Keys |-> IF key[k].state = "active" THEN [key[k] EXCEPT !.state = "deleted"]
                              ELSE key[k]]
    /\ UNCHANGED <<now, op, context, logs, uses, ended, raced>>

-----------------------------------------------------------------------------
(* A gateway request: ApiKeyGuard, RateLimitGuard, the handler, the log.   *)

Valid(k) == /\ key[k].state = "active" /\ ~key[k].revoked
            /\ key[k].expires # Never => now <= key[k].expires

\* Slip: the use is recorded before the key is found invalid.
LookupRecordsAny(r, k) ==
    /\ pc[r] = "idle" /\ key[k].state # "none"
    /\ Goto(r, "usage")
    /\ target' = [target EXCEPT ![r] = k]
    /\ Set(r, key[k])
    /\ uses' = IF Valid(k) THEN [uses EXCEPT ![k] = @ + 1] ELSE uses
    /\ UNCHANGED <<now, app, key, op, context, logs, ended, raced>>

\* findValidByPlaintext; null ends in a 401.
Lookup(r, k) ==
    /\ pc[r] = "idle" /\ key[k].state # "none"
    /\ Goto(r, IF Valid(k) THEN "usage" ELSE "finish")
    /\ target' = [target EXCEPT ![r] = k]
    /\ Set(r, key[k])
    /\ uses' = IF Valid(k) THEN [uses EXCEPT ![k] = @ + 1] ELSE uses
    /\ UNCHANGED <<now, app, key, op, context, logs, ended, raced>>

\* Slip: the whole entity is saved, not the two columns.
RecordUsageWhole(r) ==
    /\ pc[r] = "usage"
    /\ Goto(r, "limit")
    /\ key' = IF key[target[r]].state = "active"
              THEN [key EXCEPT ![target[r]] = [entity[r] EXCEPT !.usage = @ + 1]] ELSE key
    /\ context' = [context EXCEPT ![r] = target[r]]
    /\ UNCHANGED <<now, app, op, target, entity, logs, uses, ended, raced>>

\* recordUsage updates two columns with what was read and one more; the guard
\* then sets apiKeyContext.
RecordUsage(r) ==
    /\ pc[r] = "usage"
    /\ Goto(r, "limit")
    /\ key' = IF key[target[r]].state = "active"
              THEN [key EXCEPT ![target[r]].usage = entity[r].usage + 1] ELSE key
    /\ context' = [context EXCEPT ![r] = target[r]]
    /\ UNCHANGED <<now, app, op, target, entity, logs, uses, ended, raced>>

\* RateLimitGuard (the module RateLimit) and the handler, which only compute
\* the status.
Respond(r) ==
    /\ pc[r] = "limit"
    /\ Goto(r, "finish")
    /\ UNCHANGED <<now, app, key, op, target, entity, context, logs, uses, ended, raced>>

\* The response is sent: one row is logged, under the key of the context; an
\* insert that fails is swallowed.
Log(r) ==
    /\ pc[r] = "finish"
    /\ Leave(r, "done")
    /\ logs' \in {logs, logs \cup {<<r, context[r]>>}}
    /\ context' = [context EXCEPT ![r] = None]
    /\ UNCHANGED <<now, app, key, op, uses, ended, raced>>

\* An await throws, or the instance dies.
Crash(c) ==
    /\ c \in Crashable /\ pc[c] \notin {"idle"} \cup Ended
    /\ Leave(c, "failed")
    /\ UNCHANGED <<now, app, key, op, context, logs, uses, ended, raced>>

-----------------------------------------------------------------------------
Tick ==
    /\ now < MaxTime
    /\ now' = now + 1
    /\ UNCHANGED <<app, key, op, target, pc, entity, context, logs, uses, ended, raced>>

\* At the end of the modelled period no call is in progress, but those for
\* which no key is left.
Finished == /\ now = MaxTime
            /\ \A c \in Calls : \/ pc[c] \in {"idle"} \cup Ended
                                \/ pc[c] \in {"insert", "swap"} /\ \A k \in Keys : key[k].state # "none"
            /\ UNCHANGED vars

OwnerStep(p) ==
    \/ \E lifetime \in Lifetimes : FindApp(p, lifetime)
    \/ \E kind \in {"revoke", "rotate"}, k \in Keys : LoadKey(p, kind, k)
    \/ \E k \in Keys : InsertKey(p, k) \/ SwapKeys(p, k)
    \/ \E kind \in {"update", "remove"} : LoadApp(p, kind)
    \/ SaveRevoked(p) \/ SaveApp(p) \/ RemoveApp(p)

RequestStep(r) ==
    \/ \E k \in Keys : Lookup(r, k)
    \/ RecordUsage(r) \/ Respond(r) \/ Log(r)

Next ==
    \/ \E p \in Owners : OwnerStep(p)
    \/ \E r \in Requests : RequestStep(r)
    \/ \E c \in Calls : Crash(c)
    \/ Tick
    \/ Finished

Spec == Init /\ [][Next]_vars

-----------------------------------------------------------------------------
(* Properties.                                                             *)

Rows == [state : {"none", "active", "deleted"}, root : Keys \cup {None}, revoked : BOOLEAN,
         expires : Nat \cup {Never}, usage : Nat]

\* The shapes of the rows, of the calls' locals and of the histories; a log
\* row bears the key that was accepted for its request.
TypeOK ==
    /\ now \in 0 .. MaxTime
    /\ app \in BOOLEAN
    /\ key \in [Keys -> Rows]
    /\ op \in [Owners -> {"none", "create", "revoke", "rotate", "update", "remove"}]
    /\ target \in [Calls -> Keys \cup {None}]
    /\ pc \in [Calls -> {"idle", "insert", "revoke", "swap", "update", "remove", "usage",
                         "limit", "finish"} \cup Ended]
    /\ entity \in [Calls -> Rows]
    /\ context \in [Requests -> Keys \cup {None}]
    /\ logs \subseteq Requests \X (Keys \cup {None})
    /\ uses \in [Keys -> Nat]
    /\ ended \subseteq Keys /\ raced \subseteq Keys

Live(root) == {k \in Keys : key[k].root = root /\ key[k].state = "active" /\ ~key[k].revoked}

\* A rotation is a clean swap: unless two of them overlap, a lineage never has
\* two keys that are not revoked, and it always has one until revoke() or the
\* removal of the application; and all its keys expire together
\* (api-keys.service.ts:121-127).
RotationIsASwap ==
    \A root \in Keys : key[root].state = "active" /\ key[root].root = root =>
        /\ root \notin raced =>
              /\ Cardinality(Live(root)) <= 1
              /\ root \notin ended => Live(root) # {}
        /\ \A k \in Keys : key[k].root = root => key[k].expires = key[root].expires

\* No save of a stale entity and no recorded use makes a revoked or deleted
\* key valid again, although one may bring its row back, in an application that
\* an update has brought back (api-keys.service.ts:110-118 and 178-183).
RevocationIsFinal ==
    [][\A k \in Keys :
         /\ key[k].revoked => key'[k].revoked
         /\ key[k].state = "deleted" => key'[k].state = "deleted" \/ key'[k].revoked]_vars

\* The usage shown for a key is never more than the requests it was accepted
\* for; it may be less (api-keys.service.ts:177-183).
UsageNeverAhead == \A k \in Keys : key[k].usage <= uses[k]
=============================================================================
