--------------------------- MODULE ApiKeysProofs ---------------------------
(***************************************************************************)
(* What holds of ApiKeys for any keys, owners, requests and lifetimes.     *)
(***************************************************************************)
EXTENDS ApiKeys, FiniteSetTheorems, TLAPS

\* A key that was never inserted is not revoked, one that was has a lineage,
\* and none shows more uses than it had.
KeyInv(k) ==
    /\ key[k].state = "none" => ~key[k].revoked
    /\ key[k].state # "none" => key[k].root \in Keys
    /\ key[k].usage <= uses[k]

\* What a call is about to save: a new or loaded key of a lineage, with a
\* usage that it had; a use about to be recorded is counted already.
CallInv(c) ==
    /\ pc[c] = "insert" => entity[c].state = "active" /\ entity[c].usage = 0
    /\ pc[c] \in {"revoke", "swap"} =>
          /\ target[c] \in Keys /\ entity[c].root \in Keys
          /\ entity[c].state = "active" /\ entity[c].usage <= uses[target[c]]
    /\ pc[c] = "usage" => target[c] \in Keys /\ entity[c].usage < uses[target[c]]

KeysInv == \A k \in Keys : KeyInv(k)
CallsInv == \A c \in Calls : CallInv(c)

Inv == TypeOK /\ KeysInv /\ CallsInv

USE LifetimesAssumption, CallsAssumption DEF Calls

LEMMA InitInv == Init => Inv
  <1> SUFFICES ASSUME Init PROVE Inv
    OBVIOUS
  <1>1. \A k \in Keys : [NoKey EXCEPT !.state = "active", !.root = k] \in Rows
    BY DEF NoKey, Rows
  <1>2. TypeOK
    <2>1. NoKey \in Rows
      BY DEF NoKey, Rows
    <2>2. key \in [Keys -> Rows] /\ entity \in [Calls -> Rows]
      BY <1>1, <2>1 DEF Init
    <2>3. /\ op \in [Owners -> {"none"}] /\ target \in [Calls -> {None}]
          /\ pc \in [Calls -> {"idle"}] /\ context \in [Requests -> {None}]
          /\ uses \in [Keys -> {0}]
      BY DEF Init
    <2>4. now = 0
      BY DEF Init
    <2>5. app \in BOOLEAN
      BY DEF Init
    <2>6. logs = {} /\ ended = {} /\ raced = {}
      BY DEF Init
    <2> QED BY <2>2, <2>3, <2>4, <2>5, <2>6 DEF TypeOK
  <1>3. ASSUME NEW k \in Keys PROVE KeyInv(k)
    <2> DEFINE issued == [NoKey EXCEPT !.state = "active", !.root = k]
    <2>1. key[k] = issued \/ key[k] = NoKey
      BY DEF Init
    <2>2. /\ issued.state = "active" /\ issued.root = k /\ issued.usage = 0
          /\ NoKey.state = "none" /\ NoKey.usage = 0 /\ NoKey.revoked = FALSE
      BY DEF NoKey
    <2>3. uses[k] = 0
      BY DEF Init
    <2> HIDE DEF issued
    <2> QED BY <2>1, <2>2, <2>3 DEF KeyInv
  <1>4. \A c \in Calls : pc[c] = "idle"
    BY DEF Init
  <1>5. CallsInv
    BY <1>4 DEF CallsInv, CallInv
  <1> QED BY <1>2, <1>3, <1>5 DEF Inv, KeysInv

\* A step of one call moves no other, and uncounts no use.
LEMMA OneCall ==
    ASSUME TypeOK, CallsInv, NEW c \in Calls, CallInv(c)',
           \A d \in Calls \ {c} : /\ pc'[d] = pc[d] /\ entity'[d] = entity[d]
                                  /\ target'[d] = target[d],
           uses' \in [Keys -> Nat], \A k \in Keys : uses[k] <= uses'[k]
    PROVE  CallsInv'
  <1> SUFFICES ASSUME NEW d \in Calls PROVE CallInv(d)'
    BY DEF CallsInv
  <1>1. CASE d = c
    BY <1>1
  <1>2. CASE d # c
    <2>1. entity[d].usage \in Nat /\ \A k \in Keys : uses[k] \in Nat /\ uses'[k] \in Nat
      BY DEF TypeOK, Rows
    <2> QED BY <1>2, <2>1 DEF CallsInv, CallInv
  <1> QED BY <1>1, <1>2

\* The end of a call leaves nothing to be saved.
LEMMA LeaveInv ==
    ASSUME TypeOK, CallsInv, NEW c \in Calls, NEW end \in Ended, Leave(c, end), uses' = uses
    PROVE  /\ CallsInv'
           /\ pc' \in [Calls -> {"idle", "insert", "revoke", "swap", "update", "remove", "usage",
                                 "limit", "finish"} \cup Ended]
           /\ entity' \in [Calls -> Rows] /\ target' \in [Calls -> Keys \cup {None}]
  <1> USE DEF Leave, Goto, Set, Ended
  <1>1. CallInv(c)'
    BY DEF CallInv, TypeOK
  <1>2. CallsInv'
    BY <1>1, OneCall DEF TypeOK
  <1> QED BY <1>2 DEF TypeOK, NoKey, Rows

\* A saved row is of a lineage and shows no more uses than its key had.
LEMMA SaveInv ==
    ASSUME KeysInv, uses' = uses,
           \A k \in Keys : key'[k] # key[k] =>
               key'[k].state # "none" /\ key'[k].root \in Keys /\ key'[k].usage <= uses[k]
    PROVE  KeysInv'
  BY DEF KeysInv, KeyInv

LEMMA OwnerInv == ASSUME Inv, NEW p \in Owners, OwnerStep(p) PROVE Inv'
  <1> USE DEF Inv
  <1>1. ASSUME NEW lifetime \in Lifetimes, FindApp(p, lifetime) PROVE Inv'
    <2> DEFINE new == [NoKey EXCEPT !.state = "active",
                              !.expires = IF lifetime = Never THEN Never ELSE now + lifetime]
    <2>0. new \in Rows
      <3>1. now + lifetime \in Nat \/ lifetime = Never
        BY DEF TypeOK
      <3> QED BY <3>1 DEF NoKey, Rows
    <2>4. entity' = [entity EXCEPT ![p] = new]
      BY <1>1 DEF FindApp, Set
    <2> HIDE DEF new
    <2>1. TypeOK'
      BY <1>1, <2>0, <2>4 DEF FindApp, Begin, Goto, TypeOK
    <2>2. CallInv(p)'
      BY <1>1 DEF FindApp, Begin, Goto, Set, TypeOK, CallInv, NoKey
    <2>3. CallsInv'
      BY <1>1, <2>2, OneCall DEF FindApp, Begin, Goto, Set, TypeOK
    <2> QED BY <1>1, <2>1, <2>3 DEF FindApp, KeysInv, KeyInv
  <1>2. ASSUME NEW kind \in {"revoke", "rotate"}, NEW k \in Keys, LoadKey(p, kind, k)
        PROVE  Inv'
    <2>1. key[k] \in Rows /\ key[k].root \in Keys /\ key[k].usage <= uses[k]
      BY <1>2 DEF LoadKey, KeysInv, KeyInv, TypeOK
    <2>2. TypeOK'
      BY <1>2, <2>1 DEF LoadKey, Begin, Goto, Set, TypeOK
    <2>3. CallInv(p)'
      BY <1>2, <2>1 DEF LoadKey, Begin, Goto, Set, TypeOK, CallInv
    <2>4. CallsInv'
      BY <1>2, <2>3, OneCall DEF LoadKey, Begin, Goto, Set, TypeOK
    <2> QED BY <1>2, <2>2, <2>4 DEF LoadKey, KeysInv, KeyInv
  <1>3. ASSUME NEW k \in Keys, InsertKey(p, k) PROVE Inv'
    <2> USE <1>3 DEF InsertKey
    <2>1. CallsInv'
      BY LeaveInv DEF Ended
    <2>2. entity[p] \in Rows /\ entity[p].usage = 0
      BY DEF CallsInv, CallInv, TypeOK
    <2>5. [entity[p] EXCEPT !.root = k] \in Rows
      BY <2>2 DEF Rows
    <2>3. TypeOK'
      BY <2>5, LeaveInv DEF Ended, TypeOK
    <2>4. KeysInv'
      <3>1. key'[k] = [entity[p] EXCEPT !.root = k] \/ key'[k] = key[k]
        BY DEF TypeOK
      <3>2. \A j \in Keys \ {k} : key'[j] = key[j]
        BY DEF TypeOK
      <3>3. LET e == [entity[p] EXCEPT !.root = k]
            IN  e.state = "active" /\ e.root = k /\ e.usage = 0
        BY <2>2 DEF CallsInv, CallInv, Rows
      <3>4. 0 <= uses[k] /\ uses' = uses
        BY DEF TypeOK
      <3> QED BY <3>1, <3>2, <3>3, <3>4, SaveInv
    <2> QED BY <2>1, <2>3, <2>4
  <1>4. ASSUME NEW k \in Keys, SwapKeys(p, k) PROVE Inv'
    <2> USE <1>4 DEF SwapKeys
    <2>1. CallsInv'
      BY LeaveInv DEF Ended
    <2>2. /\ entity[p] \in Rows /\ entity[p].state = "active" /\ entity[p].root \in Keys
          /\ target[p] \in Keys /\ entity[p].usage <= uses[target[p]]
      BY DEF CallsInv, CallInv, TypeOK
    <2>3. [entity[p] EXCEPT !.usage = 0] \in Rows /\ Revoked(p) \in Rows
      BY <2>2 DEF Rows, Revoked
    <2>4. TypeOK'
      BY <2>2, <2>3, LeaveInv DEF Ended, TypeOK
    <2>5. KeysInv'
      <3> DEFINE new == [entity[p] EXCEPT !.usage = 0]
      <3>0. \/ key' = key
            \/ key' = [key EXCEPT ![target[p]] = Revoked(p), ![k] = new]
        OBVIOUS
      <3>1. \A j \in Keys : \/ key'[j] = key[j]
                            \/ j = k /\ key'[j] = new
                            \/ j = target[p] /\ key'[j] = Revoked(p)
        <4> HIDE DEF new
        <4> QED BY <2>2, <3>0 DEF TypeOK
      <3>3. /\ Revoked(p).state = "active" /\ Revoked(p).root \in Keys
            /\ Revoked(p).usage = entity[p].usage
        BY <2>2 DEF Revoked, Rows
      <3>4. new.state = "active" /\ new.root \in Keys /\ new.usage = 0
        BY <2>2 DEF Rows
      <3>5. 0 <= uses[k] /\ uses' = uses
        BY DEF TypeOK
      <3> HIDE DEF new
      <3> QED BY <2>2, <3>1, <3>3, <3>4, <3>5, SaveInv
    <2> QED BY <2>1, <2>4, <2>5
  <1>5. CASE SaveRevoked(p)
    <2> USE <1>5 DEF SaveRevoked
    <2>1. CallsInv'
      BY LeaveInv DEF Ended
    <2>2. /\ entity[p] \in Rows /\ entity[p].state = "active" /\ entity[p].root \in Keys
          /\ target[p] \in Keys /\ entity[p].usage <= uses[target[p]]
      BY DEF CallsInv, CallInv, TypeOK
    <2>3. Revoked(p) \in Rows
      BY <2>2 DEF Rows, Revoked
    <2>4. TypeOK'
      BY <2>2, <2>3, LeaveInv DEF Ended, TypeOK
    <2>5. KeysInv'
      <3>1. \A j \in Keys : key'[j] # key[j] => j = target[p] /\ key'[j] = Revoked(p)
        BY <2>2 DEF TypeOK
      <3>2. /\ Revoked(p).state = "active" /\ Revoked(p).root \in Keys
            /\ Revoked(p).usage = entity[p].usage
        BY <2>2 DEF Revoked, Rows
      <3> QED BY <2>2, <3>1, <3>2, SaveInv
    <2> QED BY <2>1, <2>4, <2>5
  <1>6. ASSUME NEW kind \in {"update", "remove"}, LoadApp(p, kind) PROVE Inv'
    <2>1. TypeOK'
      BY <1>6 DEF LoadApp, Begin, Goto, TypeOK
    <2>2. CallInv(p)'
      BY <1>6 DEF LoadApp, Begin, Goto, TypeOK, CallInv
    <2>3. CallsInv'
      BY <1>6, <2>2, OneCall DEF LoadApp, Begin, Goto, TypeOK
    <2> QED BY <1>6, <2>1, <2>3 DEF LoadApp, KeysInv, KeyInv
  <1>7. CASE RemoveApp(p)
    <2> USE <1>7 DEF RemoveApp
    <2>1. CallsInv'
      BY LeaveInv DEF Ended
    <2>4. \A e \in Rows : [e EXCEPT !.state = "deleted"] \in Rows
      BY DEF Rows
    <2>2. TypeOK'
      BY <2>4, LeaveInv DEF Ended, TypeOK
    <2>3. KeysInv'
      BY DEF KeysInv, KeyInv, TypeOK, Rows
    <2> QED BY <2>1, <2>2, <2>3
  <1>8. CASE SaveApp(p)
    <2> USE <1>8 DEF SaveApp
    <2>1. CallsInv'
      BY LeaveInv DEF Ended
    <2>2. TypeOK'
      BY LeaveInv DEF Ended, TypeOK
    <2> QED BY <2>1, <2>2 DEF KeysInv, KeyInv
  <1> QED BY <1>1, <1>2, <1>3, <1>4, <1>5, <1>6, <1>7, <1>8 DEF OwnerStep

LEMMA RequestInv == ASSUME Inv, NEW r \in Requests, RequestStep(r) PROVE Inv'
  <1> USE DEF Inv
  <1>1. ASSUME NEW k \in Keys, Lookup(r, k) PROVE Inv'
    <2> USE <1>1 DEF Lookup, Goto, Set
    <2>1. TypeOK'
      BY DEF TypeOK
    <2>2. uses' \in [Keys -> Nat] /\ \A j \in Keys : uses[j] <= uses'[j]
      BY DEF TypeOK
    <2>3. CallInv(r)'
      BY DEF TypeOK, CallInv, KeysInv, KeyInv, Rows
    <2>4. CallsInv'
      BY <2>2, <2>3, OneCall DEF TypeOK
    <2>5. KeysInv'
      <3> SUFFICES ASSUME NEW j \in Keys PROVE KeyInv(j)'
        BY DEF KeysInv
      <3>1. key[j].usage \in Nat /\ uses[j] \in Nat /\ uses'[j] \in Nat
        BY <2>2 DEF TypeOK, Rows
      <3> QED BY <2>2, <3>1 DEF KeysInv, KeyInv
    <2> QED BY <2>1, <2>4, <2>5
  <1>2. CASE RecordUsage(r)
    <2> USE <1>2 DEF RecordUsage, Goto
    <2>1. target[r] \in Keys /\ entity[r].usage < uses[target[r]] /\ entity[r].usage \in Nat
      BY DEF CallsInv, CallInv, TypeOK, Rows
    <2>6. \A e \in Rows, n \in Nat : [e EXCEPT !.usage = n] \in Rows
      BY DEF Rows
    <2>7. key' \in [Keys -> Rows]
      <3>1. /\ key \in [Keys -> Rows] /\ key[target[r]] \in Rows
            /\ entity[r].usage + 1 \in Nat
        BY <2>1 DEF TypeOK
      <3>2. [key[target[r]] EXCEPT !.usage = entity[r].usage + 1] \in Rows
        BY <2>6, <3>1
      <3> QED BY <3>1, <3>2
    <2>2. TypeOK'
      BY <2>1, <2>7 DEF TypeOK
    <2>3. CallInv(r)'
      BY DEF TypeOK, CallInv
    <2>4. CallsInv'
      BY <2>3, OneCall DEF TypeOK
    <2>5. KeysInv'
      <3>1. \A j \in Keys : key'[j] # key[j] =>
              /\ j = target[r] /\ key[j].state = "active"
              /\ key'[j] = [key[j] EXCEPT !.usage = entity[r].usage + 1]
        BY <2>1 DEF TypeOK
      <3>2. key \in [Keys -> Rows] /\ uses[target[r]] \in Nat
        BY <2>1 DEF TypeOK
      <3>3. \A e \in Rows, n \in Nat :
              LET f == [e EXCEPT !.usage = n]
              IN  f.state = e.state /\ f.root = e.root /\ f.usage = n
        BY DEF Rows
      <3>4. entity[r].usage + 1 \in Nat /\ entity[r].usage + 1 <= uses[target[r]]
        BY <2>1, <3>2
      <3>5. \A j \in Keys : key[j].state = "active" => key[j].root \in Keys
        BY DEF KeysInv, KeyInv
      <3>6. ASSUME NEW j \in Keys, key'[j] # key[j]
            PROVE  key'[j].state # "none" /\ key'[j].root \in Keys /\ key'[j].usage <= uses[j]
        <4>1. /\ key'[j].state = key[j].state /\ key'[j].root = key[j].root
              /\ key'[j].usage = entity[r].usage + 1
          BY <3>1, <3>2, <3>3, <3>4, <3>6
        <4> QED BY <3>1, <3>4, <3>5, <3>6, <4>1
      <3> QED BY <3>6, SaveInv
    <2> QED BY <2>2, <2>4, <2>5
  <1>3. CASE Respond(r)
    <2> USE <1>3 DEF Respond, Goto
    <2>1. TypeOK'
      BY DEF TypeOK
    <2>2. CallInv(r)'
      BY DEF TypeOK, CallInv
    <2>3. CallsInv'
      BY <2>2, OneCall DEF TypeOK
    <2> QED BY <2>1, <2>3 DEF KeysInv, KeyInv
  <1>4. CASE Log(r)
    <2> USE <1>4 DEF Log
    <2>1. CallsInv'
      BY LeaveInv DEF Ended
    <2>2. TypeOK'
      BY LeaveInv DEF Ended, TypeOK
    <2> QED BY <2>1, <2>2 DEF KeysInv, KeyInv
  <1> QED BY <1>1, <1>2, <1>3, <1>4 DEF RequestStep

LEMMA StepInv == Inv /\ [Next]_vars => Inv'
  <1> SUFFICES ASSUME Inv, [Next]_vars PROVE Inv'
    OBVIOUS
  <1>1. ASSUME NEW c \in Calls, Crash(c) PROVE Inv'
    <2> USE <1>1 DEF Inv, Crash
    <2>1. CallsInv'
      BY LeaveInv DEF Ended
    <2>2. TypeOK'
      BY LeaveInv DEF Ended, TypeOK
    <2> QED BY <2>1, <2>2 DEF KeysInv, KeyInv
  <1>2. CASE Tick
    BY <1>2 DEF Inv, Tick, TypeOK, KeysInv, KeyInv, CallsInv, CallInv
  <1>3. CASE UNCHANGED vars
    BY <1>3 DEF Inv, vars, TypeOK, KeysInv, KeyInv, CallsInv, CallInv
  <1> QED BY <1>1, <1>2, <1>3, OwnerInv, RequestInv DEF Next, Finished

\* The application, its keys and the calls on them keep their shapes.
THEOREM TypeCorrect == Spec => []TypeOK
  BY InitInv, StepInv, PTL DEF Inv, Spec

\* The usage of a key is never overstated, although recordUsage, revoke and
\* rotate write back what they read before other requests recorded theirs.
THEOREM UsageSound == Spec => []UsageNeverAhead
  <1>1. Inv => UsageNeverAhead
    BY DEF Inv, KeysInv, KeyInv, UsageNeverAhead
  <1> QED BY <1>1, InitInv, StepInv, PTL DEF Spec

\* What no step may take back.
Stays(k) == /\ key[k].revoked => key'[k].revoked
            /\ key[k].state = "deleted" => key'[k].state = "deleted" \/ key'[k].revoked

\* No step of any call, however old what it loaded, takes back a revocation or
\* a deletion.
LEMMA RevokedStaysStep ==
    ASSUME Inv, Next, NEW k \in Keys PROVE Stays(k)
  <1> USE DEF Inv, Stays
  <1>1. ASSUME NEW p \in Owners, NEW j \in Keys, InsertKey(p, j) \/ SwapKeys(p, j)
        PROVE  Stays(k)
    <2>1. ~key[j].revoked /\ key[j].state = "none"
      BY <1>1 DEF InsertKey, SwapKeys, KeysInv, KeyInv
    <2>2. k = j \/ key'[k] = key[k] \/ key'[k] = Revoked(p)
      BY <1>1 DEF InsertKey, SwapKeys, TypeOK
    <2>3. Revoked(p).revoked
      BY DEF Revoked, TypeOK, Rows
    <2> QED BY <2>1, <2>2, <2>3
  <1>2. ASSUME NEW p \in Owners, SaveRevoked(p)
        PROVE  Stays(k)
    <2>1. key'[k] = key[k] \/ key'[k] = Revoked(p)
      BY <1>2 DEF SaveRevoked, TypeOK
    <2>2. Revoked(p).revoked
      BY DEF Revoked, TypeOK, Rows
    <2> QED BY <2>1, <2>2
  <1>3. ASSUME NEW p \in Owners, RemoveApp(p)
        PROVE  Stays(k)
    BY <1>3 DEF RemoveApp, TypeOK, Rows
  <1>4. ASSUME NEW r \in Requests, RecordUsage(r)
        PROVE  Stays(k)
    BY <1>4 DEF RecordUsage, TypeOK, Rows
  <1>5. ASSUME key' = key
        PROVE  Stays(k)
    BY <1>5
  <1> QED BY <1>1, <1>2, <1>3, <1>4, <1>5
          DEF Next, OwnerStep, RequestStep, FindApp, LoadKey, LoadApp, SaveApp, Lookup, Respond,
              Log, Crash, Tick, Finished, vars

\* A revoked key is never valid again, and neither is a deleted one.
THEOREM RevocationHolds == Spec => RevocationIsFinal
  <1>1. Inv /\ [Next]_vars =>
          [\A k \in Keys : Stays(k)]_vars
    BY RevokedStaysStep
  <1> QED BY <1>1, InitInv, StepInv, PTL DEF Spec, RevocationIsFinal, Stays
-----------------------------------------------------------------------------
(* Rotation.                                                               *)

\* The key whose rotations led to a key is of its own lineage and expires with it.
LineageOf(k) ==
    IF key[k].state = "none" THEN key[k] = NoKey
    ELSE LET root == key[k].root
         IN  /\ root \in Keys /\ key[root].state # "none" /\ key[root].root = root
             /\ key[k].expires = key[root].expires

\* What is about to be saved is not revoked, and of the lineage of its row.
SavesOf(p) ==
    /\ pc[p] = "insert" => entity[p].state = "active" /\ ~entity[p].revoked
    /\ pc[p] \in {"revoke", "swap"} =>
          /\ entity[p].state = "active" /\ ~entity[p].revoked
          /\ target[p] \in Keys /\ key[target[p]].state # "none"
          /\ entity[p].root = key[target[p]].root /\ entity[p].expires = key[target[p]].expires

\* Unless rotations overlapped there is one key that is not revoked and one
\* rotation, which is about to replace it.
SwapOf(root) ==
    /\ root \notin raced =>
          /\ \A j, k \in Live(root) : j = k
          /\ \A p, q \in Rotating(root) : p = q
          /\ \A p \in Rotating(root) : Live(root) \subseteq {target[p]}
    /\ root \notin ended /\ key[root].state = "active" /\ key[root].root = root => Live(root) # {}

LineageInv ==
    /\ \A k \in Keys : LineageOf(k) /\ SwapOf(k)
    /\ \A p \in Owners : SavesOf(p)

\* Rows are written over by rows of their lineage, and new ones extend one.
WritesKept ==
    \A k \in Keys :
        IF key[k].state # "none"
        THEN /\ key'[k].state # "none" /\ key'[k].root = key[k].root
             /\ key'[k].expires = key[k].expires
        ELSE \/ key'[k] = key[k]
             \/ LET root == key'[k].root
                IN  /\ key'[k].state # "none" /\ root \in Keys
                    /\ key'[root].state # "none" /\ key'[root].root = root
                    /\ key'[k].expires = key'[root].expires

LEMMA LineagesKept ==
    ASSUME LineageInv, WritesKept
    PROVE  /\ \A k \in Keys : LineageOf(k)'
           /\ \A p \in Owners :
                 pc'[p] = pc[p] /\ entity'[p] = entity[p] /\ target'[p] = target[p] => SavesOf(p)'
  <1>1. ASSUME NEW k \in Keys PROVE LineageOf(k)'
    <2>1. CASE key[k].state = "none"
      BY <2>1 DEF LineageInv, LineageOf, WritesKept
    <2>2. CASE key[k].state # "none"
      <3>1. /\ key[k].root \in Keys /\ key[key[k].root].state # "none"
            /\ key[key[k].root].root = key[k].root /\ key[k].expires = key[key[k].root].expires
        BY <2>2 DEF LineageInv, LineageOf
      <3> QED BY <2>2, <3>1 DEF LineageOf, WritesKept
    <2> QED BY <2>1, <2>2
  <1>2. ASSUME NEW p \in Owners, pc'[p] = pc[p], entity'[p] = entity[p], target'[p] = target[p]
        PROVE  SavesOf(p)'
    BY <1>2 DEF LineageInv, SavesOf, WritesKept
  <1> QED BY <1>1, <1>2

\* Steps that change no lineage and start or end no rotation of it.
LEMMA SwapKept ==
    ASSUME NEW root \in Keys, SwapOf(root), Live(root)' \subseteq Live(root),
           Rotating(root)' \subseteq Rotating(root),
           \A p \in Rotating(root)' : target'[p] = target[p],
           raced \subseteq raced',
           root \notin ended' /\ key'[root].state = "active" /\ key'[root].root = root => Live(root)' # {}
    PROVE  SwapOf(root)'
  BY DEF SwapOf

LEMMA QuietLineage ==
    ASSUME LineageInv, UNCHANGED <<raced, ended>>,
           \A k \in Keys :
               \/ key'[k] = key[k]
               \/ /\ key[k].state = "active" /\ key'[k].state = "active" /\ key'[k].root = key[k].root
                  /\ key'[k].revoked = key[k].revoked /\ key'[k].expires = key[k].expires,
           \A p \in Owners :
               \/ pc'[p] = pc[p] /\ entity'[p] = entity[p] /\ target'[p] = target[p]
               \/ pc'[p] # "swap" /\ (SavesOf(p)' \/ pc'[p] \notin {"insert", "revoke"})
    PROVE  LineageInv'
  <1>1. WritesKept
    BY DEF WritesKept
  <1>2. \A k \in Keys : LineageOf(k)'
    BY <1>1, LineagesKept
  <1>3. ASSUME NEW p \in Owners PROVE SavesOf(p)'
    <2>1. CASE pc'[p] = pc[p] /\ entity'[p] = entity[p] /\ target'[p] = target[p]
      BY <1>1, <2>1, LineagesKept
    <2>2. CASE pc'[p] \notin {"insert", "revoke", "swap"}
      BY <2>2 DEF SavesOf
    <2> QED BY <2>1, <2>2
  <1>4. ASSUME NEW root \in Keys PROVE SwapOf(root)'
    <2>1. Live(root)' = Live(root)
      BY DEF Live
    <2>2. /\ Rotating(root)' \subseteq Rotating(root)
          /\ \A p \in Rotating(root)' : target'[p] = target[p]
      BY DEF Rotating
    <2>3. root \notin ended' /\ key'[root].state = "active" /\ key'[root].root = root => Live(root)' # {}
      BY <2>1 DEF LineageInv, SwapOf
    <2>4. SwapOf(root)
      BY DEF LineageInv
    <2> QED BY <2>1, <2>2, <2>3, <2>4, SwapKept
  <1> QED BY <1>2, <1>3, <1>4 DEF LineageInv

LEMMA LoadLineage ==
    ASSUME Inv, LineageInv, NEW p \in Owners, NEW k \in Keys, NEW kind, LoadKey(p, kind, k)
    PROVE  LineageInv'
  <1>1. /\ key[k].state = "active" /\ ~key[k].revoked /\ key' = key /\ ended' = ended
        /\ pc[p] = "idle" /\ pc'[p] \in {"revoke", "swap"} /\ target'[p] = k /\ entity'[p] = key[k]
        /\ \A q \in Owners \ {p} : pc'[q] = pc[q] /\ target'[q] = target[q] /\ entity'[q] = entity[q]
    BY DEF LoadKey, Begin, Goto, Set, Inv, TypeOK
  <1>2. SavesOf(p)'
    BY <1>1 DEF SavesOf
  <1>3. CASE pc'[p] = "revoke"
    <2>1. raced' = raced
      BY <1>3 DEF LoadKey, Begin, Goto, Inv, TypeOK
    <2> QED BY <1>1, <1>2, <1>3, <2>1, QuietLineage
  <1>4. CASE pc'[p] = "swap"
    <2>1. raced' = IF Rotating(key[k].root) # {} THEN raced \cup {key[k].root} ELSE raced
      BY <1>4 DEF LoadKey, Begin, Goto, Inv, TypeOK
    <2>2. WritesKept
      BY <1>1 DEF WritesKept
    <2>3. /\ \A j \in Keys : LineageOf(j)'
          /\ \A q \in Owners \ {p} : SavesOf(q)'
      BY <1>1, <2>2, LineagesKept
    <2>4. ASSUME NEW root \in Keys PROVE SwapOf(root)'
      <3>1. SwapOf(root) /\ Live(root)' = Live(root)
        BY <1>1 DEF LineageInv, Live
      <3>2. CASE root # key[k].root
        <4>1. Rotating(root)' \subseteq Rotating(root) /\ p \notin Rotating(root)'
          BY <1>1, <3>2 DEF Rotating
        <4> QED BY <1>1, <2>1, <3>1, <4>1 DEF SwapOf, Rotating
      <3>3. CASE root = key[k].root
        <4>1. Rotating(root)' \subseteq Rotating(root) \cup {p}
          BY <1>1 DEF Rotating
        <4>2. k \in Live(root)
          BY <1>1, <3>3 DEF Live
        <4>3. root \notin raced' => Rotating(root) = {} /\ root \notin raced
          BY <2>1, <3>3
        <4> QED BY <1>1, <3>1, <4>1, <4>2, <4>3 DEF SwapOf
      <3> QED BY <3>2, <3>3
    <2> QED BY <1>2, <2>3, <2>4 DEF LineageInv
  <1> QED BY <1>1, <1>3, <1>4
\* The end of an owner's call, seen from the others.
LEMMA LeaveFrame ==
    ASSUME Inv, NEW p \in Owners, NEW end \in Ended, Leave(p, end)
    PROVE  /\ pc'[p] = end /\ SavesOf(p)'
           /\ \A q \in Owners \ {p} : pc'[q] = pc[q] /\ target'[q] = target[q] /\ entity'[q] = entity[q]
           /\ \A root : Rotating(root)' = Rotating(root) \ {p}
  <1>1. /\ pc'[p] = end /\ end \notin {"insert", "revoke", "swap"}
        /\ \A q \in Owners \ {p} : pc'[q] = pc[q] /\ target'[q] = target[q] /\ entity'[q] = entity[q]
    BY DEF Leave, Goto, Set, Inv, TypeOK, Ended
  <1> QED BY <1>1 DEF SavesOf, Rotating

LEMMA InsertLineage ==
    ASSUME Inv, LineageInv, NEW p \in Owners, NEW k \in Keys, InsertKey(p, k), app
    PROVE  LineageInv'
  <1> DEFINE new == [entity[p] EXCEPT !.root = k]
  <1>1. /\ pc[p] = "insert" /\ Leave(p, "done") /\ UNCHANGED <<raced, ended>>
        /\ key[k].state = "none" /\ key' = [key EXCEPT ![k] = new]
    BY DEF InsertKey
  <1>2. /\ entity[p].state = "active" /\ ~entity[p].revoked /\ entity[p] \in Rows
    BY <1>1 DEF LineageInv, SavesOf, Inv, TypeOK
  <1>3. new.state = "active" /\ new.root = k /\ ~new.revoked
    BY <1>2 DEF Rows
  <1> HIDE DEF new
  <1>4. key'[k] = new /\ \A j \in Keys \ {k} : key'[j] = key[j]
    BY <1>1 DEF Inv, TypeOK
  <1>5. WritesKept
    BY <1>1, <1>3, <1>4 DEF WritesKept
  <1>6. /\ SavesOf(p)'
        /\ \A q \in Owners \ {p} : pc'[q] = pc[q] /\ target'[q] = target[q] /\ entity'[q] = entity[q]
        /\ \A root : Rotating(root)' = Rotating(root) \ {p}
    BY <1>1, LeaveFrame DEF Ended
  <1>7. /\ \A j \in Keys : LineageOf(j)'
        /\ \A q \in Owners : SavesOf(q)'
    BY <1>5, <1>6, LineagesKept
  <1>8. /\ \A j \in Keys : key[j].root # k
        /\ Rotating(k) = {}
    <2>1. \A j \in Keys : key[j].root # k
      BY <1>1, CallsAssumption DEF LineageInv, LineageOf, NoKey
    <2> QED BY <2>1 DEF Rotating, LineageInv, SavesOf
  <1>9. ASSUME NEW root \in Keys PROVE SwapOf(root)'
    <2>1. CASE root = k
      <3>1. Live(k)' = {k}
        BY <1>3, <1>4, <1>8 DEF Live
      <3>2. Rotating(k)' = {}
        BY <1>6, <1>8
      <3> QED BY <2>1, <3>1, <3>2 DEF SwapOf
    <2>2. CASE root # k
      <3>1. Live(root)' = Live(root) /\ key'[root] = key[root]
        BY <1>1, <1>3, <1>4, <2>2 DEF Live
      <3>2. /\ Rotating(root)' \subseteq Rotating(root) /\ \A q \in Rotating(root)' : target'[q] = target[q]
        BY <1>6 DEF Rotating
      <3>3. SwapOf(root)
        BY DEF LineageInv
      <3> QED BY <1>1, <3>1, <3>2, <3>3 DEF SwapOf
    <2> QED BY <2>1, <2>2
  <1> QED BY <1>7, <1>9 DEF LineageInv

\* What revoke and rotate write over a row is of its lineage.
LEMMA RevokedRow ==
    ASSUME Inv, LineageInv, NEW p \in Owners, pc[p] \in {"revoke", "swap"}
    PROVE  LET t == target[p]
           IN  /\ t \in Keys /\ key[t].state # "none" /\ entity[p] \in Rows
               /\ entity[p].state = "active" /\ ~entity[p].revoked
               /\ entity[p].root = key[t].root /\ entity[p].expires = key[t].expires
               /\ key[t].root \in Keys /\ key[key[t].root].state # "none"
               /\ key[key[t].root].root = key[t].root /\ key[key[t].root].expires = key[t].expires
               /\ Revoked(p).state = "active" /\ Revoked(p).revoked
               /\ Revoked(p).root = key[t].root /\ Revoked(p).expires = key[t].expires
  <1>1. /\ entity[p] \in Rows /\ SavesOf(p) /\ \A k \in Keys : LineageOf(k)
    BY DEF LineageInv, Inv, TypeOK
  <1>2. /\ Revoked(p).state = entity[p].state /\ Revoked(p).revoked
        /\ Revoked(p).root = entity[p].root /\ Revoked(p).expires = entity[p].expires
    BY <1>1 DEF Revoked, Rows
  <1> QED BY <1>1, <1>2 DEF SavesOf, LineageOf

LEMMA SwapLineage ==
    ASSUME Inv, LineageInv, NEW p \in Owners, NEW k \in Keys, SwapKeys(p, k), app
    PROVE  LineageInv'
  <1> DEFINE new == [entity[p] EXCEPT !.usage = 0]
  <1>0. PICK t, r : t = target[p] /\ r = key[t].root
    OBVIOUS
  <1>1. /\ pc[p] = "swap" /\ Leave(p, "done") /\ UNCHANGED <<raced, ended>>
        /\ key[k].state = "none" /\ key' = [key EXCEPT ![t] = Revoked(p), ![k] = new]
    BY <1>0 DEF SwapKeys
  <1>2. /\ t \in Keys /\ key[t].state # "none" /\ entity[p] \in Rows /\ r \in Keys
        /\ entity[p].state = "active" /\ ~entity[p].revoked
        /\ entity[p].root = r /\ entity[p].expires = key[t].expires
        /\ key[r].state # "none" /\ key[r].root = r /\ key[r].expires = key[t].expires
        /\ Revoked(p).state = "active" /\ Revoked(p).revoked
        /\ Revoked(p).root = r /\ Revoked(p).expires = key[t].expires
    BY <1>0, <1>1, RevokedRow
  <1>3. new.state = "active" /\ new.root = r /\ ~new.revoked /\ new.expires = key[t].expires
    BY <1>2 DEF Rows
  <1> HIDE DEF new
  <1>4. key'[k] = new /\ key'[t] = Revoked(p) /\ k # t
        /\ \A j \in Keys \ {k, t} : key'[j] = key[j]
    BY <1>1, <1>2 DEF Inv, TypeOK
  <1>5. WritesKept
    <2>1. /\ key'[r].state # "none" /\ key'[r].root = r /\ key'[r].expires = key[t].expires
      BY <1>1, <1>2, <1>4
    <2>2. ASSUME NEW j \in Keys, key[j].state # "none"
          PROVE  key'[j].state # "none" /\ key'[j].root = key[j].root /\ key'[j].expires = key[j].expires
      <3>1. CASE j = t
        BY <1>0, <1>2, <1>4, <3>1
      <3>2. CASE j # t
        <4>1. j # k
          BY <1>1, <2>2
        <4> QED BY <1>4, <2>2, <3>2, <4>1
      <3> QED BY <3>1, <3>2
    <2>3. ASSUME NEW j \in Keys, key[j].state = "none"
          PROVE  key'[j] = key[j] \/ j = k
      BY <1>2, <1>4, <2>3
    <2> QED BY <1>2, <1>3, <1>4, <2>1, <2>2, <2>3 DEF WritesKept
  <1>6. /\ SavesOf(p)'
        /\ \A q \in Owners \ {p} : pc'[q] = pc[q] /\ target'[q] = target[q] /\ entity'[q] = entity[q]
        /\ \A root : Rotating(root)' = Rotating(root) \ {p}
    BY <1>1, LeaveFrame DEF Ended
  <1>7. /\ \A j \in Keys : LineageOf(j)'
        /\ \A q \in Owners : SavesOf(q)'
    BY <1>5, <1>6, LineagesKept
  <1>8. ASSUME NEW root \in Keys PROVE SwapOf(root)'
    <2>0. SwapOf(root)
      BY DEF LineageInv
    <2>1. CASE root = r
      <3>1. p \in Rotating(r)
        BY <1>1, <1>2 DEF Rotating
      <3>2. Live(r)' = (Live(r) \ {t}) \cup {k}
        <4>1. k \in Live(r)' /\ t \notin Live(r)' /\ k \notin Live(r)
          BY <1>1, <1>2, <1>3, <1>4 DEF Live
        <4>2. \A j \in Keys \ {k, t} : j \in Live(r)' <=> j \in Live(r)
          BY <1>4 DEF Live
        <4>3. Live(r) \subseteq Keys /\ Live(r)' \subseteq Keys
          BY DEF Live
        <4> QED BY <1>4, <4>1, <4>2, <4>3
      <3>3. r \notin raced => Live(r)' = {k} /\ Rotating(r)' = {}
        BY <1>0, <1>6, <2>0, <2>1, <3>1, <3>2 DEF SwapOf
      <3>4. Live(r)' # {}
        BY <3>2
      <3> QED BY <1>1, <2>1, <3>3, <3>4 DEF SwapOf
    <2>2. CASE root # r
      <3>1. key[k] = NoKey
        BY <1>1 DEF LineageInv, LineageOf
      <3>2. key[k].root # root /\ key[t].root # root
        BY <1>0, <2>2, <3>1, CallsAssumption DEF NoKey
      <3>3. Live(root)' = Live(root)
        BY <1>2, <1>3, <1>4, <2>2, <3>2 DEF Live
      <3>4. key'[root].state = "active" /\ key'[root].root = root => key[root] = key'[root]
        BY <1>2, <1>3, <1>4, <2>2
      <3>5. /\ Rotating(root)' \subseteq Rotating(root) /\ \A q \in Rotating(root)' : target'[q] = target[q]
        BY <1>6 DEF Rotating
      <3> QED BY <1>1, <2>0, <3>3, <3>4, <3>5 DEF SwapOf
    <2> QED BY <2>1, <2>2
  <1> QED BY <1>7, <1>8 DEF LineageInv

LEMMA RevokeLineage ==
    ASSUME Inv, LineageInv, NEW p \in Owners, SaveRevoked(p), app
    PROVE  LineageInv'
  <1>0. PICK t, r : t = target[p] /\ r = key[t].root
    OBVIOUS
  <1>1. /\ pc[p] = "revoke" /\ Leave(p, "done") /\ raced' = raced
        /\ key' = [key EXCEPT ![t] = Revoked(p)] /\ ended' = ended \cup {entity[p].root}
    BY <1>0 DEF SaveRevoked
  <1>2. /\ t \in Keys /\ key[t].state # "none" /\ r \in Keys /\ entity[p].root = r
        /\ Revoked(p).state = "active" /\ Revoked(p).revoked
        /\ Revoked(p).root = r /\ Revoked(p).expires = key[t].expires
    BY <1>0, <1>1, RevokedRow
  <1>4. key'[t] = Revoked(p) /\ \A j \in Keys \ {t} : key'[j] = key[j]
    BY <1>1, <1>2 DEF Inv, TypeOK
  <1>5. WritesKept
    <2>1. ASSUME NEW j \in Keys, key[j].state # "none"
          PROVE  key'[j].state # "none" /\ key'[j].root = key[j].root /\ key'[j].expires = key[j].expires
      BY <1>0, <1>2, <1>4, <2>1
    <2>2. ASSUME NEW j \in Keys, key[j].state = "none" PROVE key'[j] = key[j]
      BY <1>2, <1>4, <2>2
    <2> QED BY <2>1, <2>2 DEF WritesKept
  <1>6. /\ SavesOf(p)'
        /\ \A q \in Owners \ {p} : pc'[q] = pc[q] /\ target'[q] = target[q] /\ entity'[q] = entity[q]
        /\ \A root : Rotating(root)' = Rotating(root) \ {p}
    BY <1>1, LeaveFrame DEF Ended
  <1>7. /\ \A j \in Keys : LineageOf(j)'
        /\ \A q \in Owners : SavesOf(q)'
    BY <1>5, <1>6, LineagesKept
  <1>8. ASSUME NEW root \in Keys PROVE SwapOf(root)'
    <2>0. SwapOf(root)
      BY DEF LineageInv
    <2>1. /\ Rotating(root)' \subseteq Rotating(root) /\ \A q \in Rotating(root)' : target'[q] = target[q]
      BY <1>6 DEF Rotating
    <2>2. Live(root)' = Live(root) \ {t}
      BY <1>0, <1>2, <1>4 DEF Live
    <2>3. CASE root = r
      BY <1>1, <1>2, <2>0, <2>1, <2>2, <2>3, SwapKept
    <2>4. CASE root # r
      <3>1. t \notin Live(root)
        BY <1>0, <2>4 DEF Live
      <3>2. key'[root].state = "active" /\ key'[root].root = root => key[root] = key'[root]
        BY <1>2, <1>4, <2>4
      <3>3. Live(root)' = Live(root) /\ ended \subseteq ended' /\ raced' = raced
        BY <1>1, <2>2, <3>1
      <3> QED BY <2>0, <2>1, <3>2, <3>3 DEF SwapOf
    <2> QED BY <2>3, <2>4
  <1> QED BY <1>7, <1>8 DEF LineageInv

LEMMA RemoveLineage ==
    ASSUME Inv, LineageInv, NEW p \in Owners, RemoveApp(p)
    PROVE  LineageInv'
  <1>1. /\ Leave(p, "done") /\ UNCHANGED <<raced, ended>>
        /\ key' = [k \in Keys |-> IF key[k].state = "active" THEN [key[k] EXCEPT !.state = "deleted"]
                                  ELSE key[k]]
    BY DEF RemoveApp
  <1>2. ASSUME NEW k \in Keys
        PROVE  /\ key'[k].state # "active"
               /\ key[k].state # "active" => key'[k] = key[k]
               /\ key'[k].root = key[k].root /\ key'[k].expires = key[k].expires
               /\ key[k].state = "active" => key'[k].state = "deleted"
    <2> DEFINE gone == [key[k] EXCEPT !.state = "deleted"]
    <2>1. key[k] \in Rows
      BY DEF Inv, TypeOK
    <2>2. gone.state = "deleted" /\ gone.root = key[k].root /\ gone.expires = key[k].expires
      BY <2>1 DEF Rows
    <2>3. key'[k] = IF key[k].state = "active" THEN gone ELSE key[k]
      BY <1>1
    <2> HIDE DEF gone
    <2> QED BY <2>2, <2>3
  <1>3. WritesKept
    BY <1>2 DEF WritesKept
  <1>4. /\ SavesOf(p)'
        /\ \A q \in Owners \ {p} : pc'[q] = pc[q] /\ target'[q] = target[q] /\ entity'[q] = entity[q]
        /\ \A root : Rotating(root)' = Rotating(root) \ {p}
    BY <1>1, LeaveFrame DEF Ended
  <1>5. /\ \A j \in Keys : LineageOf(j)'
        /\ \A q \in Owners : SavesOf(q)'
    BY <1>3, <1>4, LineagesKept
  <1>6. ASSUME NEW root \in Keys PROVE SwapOf(root)'
    <2>1. /\ Rotating(root)' \subseteq Rotating(root) /\ \A q \in Rotating(root)' : target'[q] = target[q]
      BY <1>4 DEF Rotating
    <2>2. Live(root)' = {} /\ key'[root].state # "active"
      BY <1>2 DEF Live
    <2>3. SwapOf(root)
      BY DEF LineageInv
    <2> QED BY <1>1, <2>1, <2>2, <2>3, SwapKept
  <1> QED BY <1>5, <1>6 DEF LineageInv

LEMMA StepLineageInv == Inv /\ LineageInv /\ [Next]_vars => LineageInv'
  <1> SUFFICES ASSUME Inv, LineageInv, [Next]_vars PROVE LineageInv'
    OBVIOUS
  <1>1. ASSUME NEW c \in Calls, NEW step, Goto(c, step), key' = key, UNCHANGED <<raced, ended>>,
               step = "insert" => c \in Owners /\ entity'[c].state = "active" /\ ~entity'[c].revoked,
               step \notin {"revoke", "swap"},
               \A d \in Calls \ {c} : entity'[d] = entity[d] /\ target'[d] = target[d]
        PROVE  LineageInv'
    <2>1. pc'[c] = step /\ \A d \in Calls \ {c} : pc'[d] = pc[d]
      BY <1>1 DEF Goto, Inv, TypeOK
    <2>2. \A p \in Owners :
               \/ pc'[p] = pc[p] /\ entity'[p] = entity[p] /\ target'[p] = target[p]
               \/ pc'[p] # "swap" /\ (SavesOf(p)' \/ pc'[p] \notin {"insert", "revoke"})
      BY <1>1, <2>1 DEF SavesOf
    <2> QED BY <1>1, <2>2, QuietLineage
  <1>2. ASSUME NEW c \in Calls, NEW end \in Ended, Leave(c, end), key' = key, UNCHANGED <<raced, ended>>
        PROVE  LineageInv'
    BY <1>1, <1>2 DEF Leave, Set, Ended, Inv, TypeOK
  <1>3. ASSUME NEW p \in Owners, OwnerStep(p) PROVE LineageInv'
    <2>1. ASSUME NEW lifetime \in Lifetimes, FindApp(p, lifetime) PROVE LineageInv'
      <3> DEFINE e == [NoKey EXCEPT !.state = "active",
                              !.expires = IF lifetime = Never THEN Never ELSE now + lifetime]
      <3>1. e.state = "active" /\ ~e.revoked
        BY DEF NoKey
      <3>2. /\ Goto(p, "insert") /\ entity' = [entity EXCEPT ![p] = e]
            /\ UNCHANGED <<key, target, raced, ended>>
        BY <2>1 DEF FindApp, Begin, Set
      <3> HIDE DEF e
      <3>3. entity'[p] = e /\ \A d \in Calls \ {p} : entity'[d] = entity[d]
        BY <3>2 DEF Inv, TypeOK
      <3> QED BY <1>1, <3>1, <3>2, <3>3
    <2>2. ASSUME NEW kind \in {"revoke", "rotate"}, NEW k \in Keys, LoadKey(p, kind, k) PROVE LineageInv'
      BY <2>2, LoadLineage
    <2>3. ASSUME NEW k \in Keys, InsertKey(p, k) PROVE LineageInv'
      <3>1. CASE app
        BY <2>3, <3>1, InsertLineage
      <3>2. CASE ~app
        BY <1>2, <2>3, <3>2 DEF InsertKey, Ended
      <3> QED BY <3>1, <3>2
    <2>4. ASSUME NEW k \in Keys, SwapKeys(p, k) PROVE LineageInv'
      <3>1. CASE app
        BY <2>4, <3>1, SwapLineage
      <3>2. CASE ~app
        BY <1>2, <2>4, <3>2 DEF SwapKeys, Ended
      <3> QED BY <3>1, <3>2
    <2>5. ASSUME NEW kind \in {"update", "remove"}, LoadApp(p, kind) PROVE LineageInv'
      BY <1>1, <2>5 DEF LoadApp, Begin
    <2>6. CASE SaveRevoked(p)
      <3>1. CASE app
        BY <2>6, <3>1, RevokeLineage
      <3>2. CASE ~app
        BY <1>2, <2>6, <3>2 DEF SaveRevoked, Ended
      <3> QED BY <3>1, <3>2
    <2>7. CASE SaveApp(p)
      BY <1>2, <2>7 DEF SaveApp, Ended
    <2>8. CASE RemoveApp(p)
      BY <2>8, RemoveLineage
    <2> QED BY <1>3, <2>1, <2>2, <2>3, <2>4, <2>5, <2>6, <2>7, <2>8 DEF OwnerStep
  <1>4. ASSUME NEW r \in Requests, RequestStep(r) PROVE LineageInv'
    <2>1. ASSUME NEW k \in Keys, Lookup(r, k) PROVE LineageInv'
      BY <1>1, <2>1 DEF Lookup, Set, Inv, TypeOK
    <2>2. CASE RecordUsage(r)
      <3>1. /\ Goto(r, "limit") /\ UNCHANGED <<entity, target, raced, ended>>
            /\ \/ key' = key
               \/ /\ key[target[r]].state = "active" /\ target[r] \in Keys
                  /\ key' = [key EXCEPT ![target[r]] = [key[target[r]] EXCEPT !.usage = entity[r].usage + 1]]
        BY <2>2 DEF RecordUsage, Inv, CallsInv, CallInv
      <3>2. ASSUME NEW e \in Rows, NEW n
            PROVE  LET f == [e EXCEPT !.usage = n]
                   IN  f.state = e.state /\ f.root = e.root /\ f.revoked = e.revoked /\ f.expires = e.expires
        BY DEF Rows
      <3>3. ASSUME NEW k \in Keys
            PROVE  \/ key'[k] = key[k]
                   \/ /\ key[k].state = "active" /\ key'[k].state = "active" /\ key'[k].root = key[k].root
                      /\ key'[k].revoked = key[k].revoked /\ key'[k].expires = key[k].expires
        <4> DEFINE f == [key[target[r]] EXCEPT !.usage = entity[r].usage + 1]
        <4>1. target[r] \in Keys => /\ f.state = key[target[r]].state /\ f.root = key[target[r]].root
                                    /\ f.revoked = key[target[r]].revoked /\ f.expires = key[target[r]].expires
          BY <3>2 DEF Inv, TypeOK
        <4> HIDE DEF f
        <4>2. \/ key' = key
              \/ /\ key[target[r]].state = "active" /\ target[r] \in Keys
                 /\ key' = [key EXCEPT ![target[r]] = f]
          BY <3>1 DEF f
        <4> QED BY <4>1, <4>2 DEF Inv, TypeOK
      <3>4. \A p \in Owners : pc'[p] = pc[p] \/ pc'[p] = "limit"
        BY <3>1 DEF Goto, Inv, TypeOK
      <3> QED BY <3>1, <3>3, <3>4, QuietLineage
    <2>3. CASE Respond(r)
      BY <1>1, <2>3 DEF Respond
    <2>4. CASE Log(r)
      BY <1>2, <2>4 DEF Log, Ended
    <2> QED BY <1>4, <2>1, <2>2, <2>3, <2>4 DEF RequestStep
  <1>5. ASSUME NEW c \in Calls, Crash(c) PROVE LineageInv'
    BY <1>2, <1>5 DEF Crash, Ended
  <1>6. CASE Tick \/ UNCHANGED vars
    BY <1>6, QuietLineage DEF Tick, vars
  <1> QED BY <1>3, <1>4, <1>5, <1>6 DEF Next, Finished

LEMMA InitLineageInv == Init => LineageInv
  <1> SUFFICES ASSUME Init PROVE LineageInv
    OBVIOUS
  <1>1. ASSUME NEW k \in Keys PROVE LineageOf(k) /\ SwapOf(k)
    <2> DEFINE issued(j) == [NoKey EXCEPT !.state = "active", !.root = j]
    <2>1. \A j \in Keys : /\ issued(j).state = "active" /\ issued(j).root = j
                          /\ issued(j).revoked = FALSE /\ issued(j).expires = Never
      BY DEF NoKey
    <2>2. NoKey.state = "none" /\ NoKey.root = None /\ None \notin Keys
      BY CallsAssumption DEF NoKey
    <2>3. \A j \in Keys : key[j] = IF j \in Issued THEN issued(j) ELSE NoKey
      BY DEF Init
    <2>4. Rotating(k) = {}
      BY DEF Init, Rotating
    <2> HIDE DEF issued
    <2>5. Live(k) = IF k \in Issued THEN {k} ELSE {}
      BY <2>1, <2>2, <2>3 DEF Live
    <2>6. LineageOf(k)
      BY <2>1, <2>2, <2>3 DEF LineageOf
    <2>7. SwapOf(k)
      BY <2>1, <2>2, <2>3, <2>4, <2>5 DEF SwapOf
    <2> QED BY <2>6, <2>7
  <1>2. \A p \in Owners : SavesOf(p)
    BY DEF Init, SavesOf
  <1> QED BY <1>1, <1>2 DEF LineageInv

\* A rotation is a clean swap: a lineage has one key that is not revoked, unless
\* rotations overlap or it is revoked, and its keys expire together.
THEOREM RotationSwaps == Spec => []RotationIsASwap
  <1>1. LineageInv => RotationIsASwap
    <2> SUFFICES ASSUME LineageInv, NEW root \in Keys, key[root].state = "active", key[root].root = root
                 PROVE  /\ root \notin raced =>
                              /\ Cardinality(Live(root)) <= 1
                              /\ root \notin ended => Live(root) # {}
                        /\ \A k \in Keys : key[k].root = root => key[k].expires = key[root].expires
      BY DEF RotationIsASwap
    <2>1. ASSUME root \notin raced PROVE Cardinality(Live(root)) <= 1
      <3>1. CASE Live(root) = {}
        BY <3>1, FS_EmptySet
      <3>2. ASSUME NEW k \in Live(root) PROVE Cardinality(Live(root)) <= 1
        <4>1. Live(root) = {k}
          BY <2>1, <3>2 DEF LineageInv, SwapOf
        <4>2. Cardinality({k}) = 1
          BY FS_Singleton
        <4> QED BY <4>1, <4>2
      <3> QED BY <3>1, <3>2
    <2>2. root \notin ended => Live(root) # {}
      BY DEF LineageInv, SwapOf
    <2>3. \A k \in Keys : key[k].root = root => key[k].expires = key[root].expires
      BY CallsAssumption DEF LineageInv, LineageOf, NoKey
    <2> QED BY <2>1, <2>2, <2>3
  <1> QED BY <1>1, InitInv, StepInv, InitLineageInv, StepLineageInv, PTL DEF Spec
=============================================================================
