-------------------------- MODULE WorkspacesProofs --------------------------
(***************************************************************************)
(* What holds of Workspaces for any calls, names and accounts.             *)
(***************************************************************************)
EXTENDS Workspaces, SequenceTheorems, TLAPS

USE CallsAssumption, RequestsAssumption, NamesAssumption, FoundersAssumption

\* A call tries one of the candidates for its name.
TriesInv == \A c \in Calls : tries[c] \in 1 .. Len(Candidates[ask[c].name])

\* What a call asks for is something its kind may ask for, and it is on the way
\* of its kind.
Fits(kind, step) ==
    /\ step \in {"insertUser", "createApp", "enqueue"} => kind = "register"
    /\ step \in {"trySlug", "insertOrg"} => kind \in {"register", "create"}
    /\ step \in {"findInvitee", "checkMember", "insertMember"} => kind = "invite"
    /\ step \in {"findFlag", "saveFlag"} => kind = "setFlag"
    /\ step \in {"feature", "assertType", "tryApi", "insertApi"} => kind = "publish"

AskInv ==
    \A c \in Calls : /\ ask[c] \in Requests
                     /\ Fits(ask[c].kind, pc[c])
                     /\ pc[c] = "createApp" => slug[c] \in Slugs

TypeInv == TypeOK /\ TriesInv /\ AskInv

LEMMA CandidateSlug == ASSUME TypeInv, NEW c \in Calls PROVE Candidate(c) \in Slugs
  <1>1. Candidates[ask[c].name] \in Seq(Slugs)
    BY DEF TypeInv, TypeOK, Asks
  <1>2. tries[c] \in 1 .. Len(Candidates[ask[c].name])
    BY DEF TypeInv, TriesInv
  <1> QED BY <1>1, <1>2, ElementOfSeq DEF Candidate

LEMMA InitType == Init => TypeInv
  <1> SUFFICES ASSUME Init PROVE TypeInv
    OBVIOUS
  <1>1. AskInv
    BY DEF Init, AskInv, Fits
  <1>2. TriesInv
    <2> SUFFICES ASSUME NEW c \in Calls PROVE tries[c] \in 1 .. Len(Candidates[ask[c].name])
      BY DEF TriesInv
    <2>1. Candidates[ask[c].name] \in Seq(Slugs) /\ Candidates[ask[c].name] # <<>>
      BY <1>1 DEF AskInv, Asks
    <2>2. Len(Candidates[ask[c].name]) \in Nat \ {0}
      BY <2>1, EmptySeq
    <2> QED BY <2>2 DEF Init
  <1>3. TypeOK
    <2>1. users \subseteq Emails /\ mails \subseteq Emails /\ apps \subseteq Slugs
      BY DEF Init
    <2>2. org \in [Slugs -> Types \cup {None}] /\ role \in [Slugs -> [Emails -> Roles \cup {None}]]
      BY DEF Init, Roles
    <2>3. flag \in [Slugs -> {"on", "off", "unset"}] /\ api \in [Slugs -> Slugs \cup {None}]
      BY DEF Init
    <2>4. ask \in [Calls -> Asks] /\ pc \in [Calls -> {"idle"} \cup Steps \cup Ended]
      BY DEF Init
    <2>5. /\ tries \in [Calls -> Nat] /\ slug \in [Calls -> Slugs \cup {None}]
          /\ found \in [Calls -> BOOLEAN]
          /\ before \in [Calls -> SUBSET Calls] /\ beaten \subseteq Calls
      BY DEF Init
    <2> QED BY <2>1, <2>2, <2>3, <2>4, <2>5 DEF TypeOK
  <1> QED BY <1>1, <1>2, <1>3 DEF TypeInv

PCs == {"idle"} \cup Steps \cup Ended

\* Where a call is tells what it asks for.
LEMMA Kinds ==
    ASSUME TypeInv, NEW c \in Calls
    PROVE  /\ Fits(ask[c].kind, pc[c])
           /\ \A step \in {"idle"} \cup Ended : Fits(ask[c].kind, step)
  BY DEF TypeInv, AskInv, Fits, Ended

\* The moves of a call keep what is not a table in its place.
LEMMA MoveType ==
    ASSUME TypeInv, NEW c \in Calls, NEW next \in PCs, Fits(ask[c].kind, next), Goto(c, next),
           ask' = ask, slug' \in [Calls -> Slugs \cup {None}],
           \A d \in Calls : slug[d] \in Slugs => slug'[d] \in Slugs,
           next = "createApp" => slug'[c] \in Slugs
    PROVE  pc' \in [Calls -> PCs] /\ AskInv'
  BY DEF Goto, TypeInv, TypeOK, AskInv, PCs

LEMMA ArriveType ==
    ASSUME TypeInv, NEW c \in Calls, NEW kinds, NEW step \in PCs \ {"createApp"},
           Fits(ask[c].kind, step), Arrive(c, kinds, step)
    PROVE  TypeInv'
  <1>1. pc' \in [Calls -> PCs] /\ AskInv'
    BY MoveType DEF Arrive, TypeInv, TypeOK
  <1>2. before' \in [Calls -> SUBSET Calls]
    BY DEF Arrive, TypeInv, TypeOK
  <1> QED BY <1>1, <1>2 DEF TypeInv, TypeOK, TriesInv, Arrive, PCs, tables

LEMMA CheckType ==
    ASSUME TypeInv, NEW c \in Calls, NEW step, NEW ok, NEW next \in PCs \ {"createApp"},
           Fits(ask[c].kind, next), Check(c, step, ok, next)
    PROVE  TypeInv'
  <1>1. CASE Goto(c, next)
    <2>1. pc' \in [Calls -> PCs] /\ AskInv'
      BY <1>1, MoveType DEF Check, TypeInv, TypeOK
    <2> QED BY <2>1 DEF TypeInv, TypeOK, TriesInv, Check, PCs, tables, history
  <1>2. CASE Goto(c, "refused")
    <2>1. pc' \in [Calls -> PCs] /\ AskInv'
      BY <1>2, Kinds, MoveType DEF Check, TypeInv, TypeOK, PCs, Ended
    <2> QED BY <2>1 DEF TypeInv, TypeOK, TriesInv, Check, PCs, tables, history
  <1> QED BY <1>1, <1>2 DEF Check

LEMMA TryType ==
    ASSUME TypeInv, NEW c \in Calls, NEW step, NEW taken, NEW next \in PCs \ {"createApp"},
           Fits(ask[c].kind, next), Try(c, step, taken, next)
    PROVE  TypeInv'
  <1>1. Len(Candidates[ask[c].name]) \in Nat
    BY LenProperties DEF TypeInv, TypeOK, Asks
  <1>2. UNCHANGED <<tables, ask, slug, found, history>>
    BY DEF Try
  <1>3. pc' \in [Calls -> PCs] /\ AskInv'
    <2>1. CASE pc' = pc
      BY <1>2, <2>1 DEF TypeInv, TypeOK, AskInv, PCs
    <2>2. CASE Goto(c, next)
      BY <1>2, <2>2, MoveType DEF TypeInv, TypeOK
    <2> QED BY <2>1, <2>2 DEF Try
  <1>4. tries' \in [Calls -> Nat] /\ TriesInv'
    BY <1>1 DEF Try, Goto, TypeInv, TypeOK, TriesInv
  <1> QED BY <1>2, <1>3, <1>4 DEF TypeInv, TypeOK, PCs, tables, history

LEMMA InsertType ==
    ASSUME TypeInv, NEW c \in Calls, NEW clash, NEW next \in PCs, Fits(ask[c].kind, next),
           Insert(c, clash, next),
           users' \subseteq Emails, org' \in [Slugs -> Types \cup {None}],
           role' \in [Slugs -> [Emails -> Roles \cup {None}]],
           apps' = apps, mails' = mails, flag' \in [Slugs -> {"on", "off", "unset"}],
           api' \in [Slugs -> Slugs \cup {None}], slug' \in [Calls -> Slugs \cup {None}],
           \A d \in Calls : slug[d] \in Slugs => slug'[d] \in Slugs,
           ~clash /\ next = "createApp" => slug'[c] \in Slugs
    PROVE  TypeInv'
  <1>1. pc' \in [Calls -> PCs] /\ AskInv'
    <2>1. CASE clash
      BY <2>1, Kinds, MoveType DEF Insert, PCs, Ended
    <2>2. CASE ~clash
      BY <2>2, MoveType DEF Insert
    <2> QED BY <2>1, <2>2
  <1>2. beaten' \subseteq Calls
    BY DEF Insert, Busy, TypeInv, TypeOK
  <1> QED BY <1>1, <1>2 DEF TypeInv, TypeOK, TriesInv, Insert, PCs

LEMMA StepType == ASSUME TypeInv, NEW c \in Calls, Step(c) \/ Die(c) PROVE TypeInv'
  <1>0. /\ ask[c] \in Requests /\ ask[c] \in Asks
        /\ ask[c].by \in Emails /\ ask[c].org \in Slugs /\ ask[c].whom \in Emails
        /\ ask[c].kind \in {"register", "create", "invite", "setFlag", "publish"}
    BY DEF TypeInv, TypeOK, AskInv, Asks
  <1> USE DEF PCs, Steps, Ended
  <1>1. CASE CheckEmail(c)
    <2>1. PICK step \in {"refused", "insertUser"} : Arrive(c, {"register"}, step)
      BY <1>1 DEF CheckEmail
    <2>2. Fits(ask[c].kind, step)
      BY <2>1 DEF Arrive, Fits
    <2> QED BY <2>1, <2>2, ArriveType
  <1>2. CASE InsertUser(c)
    <2>1. Fits(ask[c].kind, "trySlug")
      BY <1>2, Kinds DEF InsertUser, Fits
    <2> QED BY <1>0, <1>2, <2>1, InsertType DEF InsertUser, TypeInv, TypeOK
  <1>3. CASE Create(c)
    <2>1. Arrive(c, {"create"}, "trySlug") /\ Fits(ask[c].kind, "trySlug")
      BY <1>3 DEF Create, Arrive, Fits
    <2> QED BY <2>1, ArriveType
  <1>4. CASE TrySlug(c)
    <2>1. Fits(ask[c].kind, "insertOrg")
      BY <1>4, Kinds DEF TrySlug, Try, Fits
    <2> QED BY <1>4, <2>1, TryType DEF TrySlug
  <1>5. CASE InsertOrg(c)
    <2> DEFINE s == Candidate(c)
    <2>1. s \in Slugs /\ ask[c].kind \in {"register", "create"} /\ ask[c].what \in Types
      BY <1>0, <1>5, CandidateSlug, Kinds DEF InsertOrg, Fits
    <2>2. PICK next \in {"done", "createApp", "enqueue"} :
            Insert(c, org[s] # None, next) /\ (ask[c].kind = "create" => next = "done")
      BY <1>5 DEF InsertOrg
    <2>3. Fits(ask[c].kind, next)
      BY <2>1, <2>2 DEF Fits
    <2>4. /\ UNCHANGED <<users, apps, mails, flag, api>>
          /\ org[s] # None => UNCHANGED <<org, role, slug>>
          /\ org[s] = None => /\ org' = [org EXCEPT ![s] = ask[c].what]
                              /\ role' = [role EXCEPT ![s][ask[c].by] = "owner"]
                              /\ slug' = [slug EXCEPT ![c] = s]
      BY <1>5 DEF InsertOrg
    <2> HIDE DEF s
    <2>5. CASE org[s] # None
      BY <2>2, <2>3, <2>4, <2>5, InsertType DEF TypeInv, TypeOK
    <2>6. CASE org[s] = None
      <3>1. /\ org \in [Slugs -> Types \cup {None}] /\ slug \in [Calls -> Slugs \cup {None}]
            /\ role \in [Slugs -> [Emails -> Roles \cup {None}]] /\ "owner" \in Roles
        BY DEF TypeInv, TypeOK, Roles
      <3>2. org' \in [Slugs -> Types \cup {None}]
        BY <2>1, <2>4, <2>6, <3>1
      <3>3. /\ slug' \in [Calls -> Slugs \cup {None}] /\ slug'[c] \in Slugs
            /\ \A d \in Calls : slug[d] \in Slugs => slug'[d] \in Slugs
        <4>1. slug' = [slug EXCEPT ![c] = s]
          BY <2>4, <2>6
        <4>2. slug'[c] = s /\ \A d \in Calls \ {c} : slug'[d] = slug[d]
          BY <3>1, <4>1
        <4>3. slug' \in [Calls -> Slugs \cup {None}]
          BY <2>1, <3>1, <4>1
        <4> QED BY <2>1, <4>2, <4>3
      <3>4. role' \in [Slugs -> [Emails -> Roles \cup {None}]]
        <4>1. role[s] \in [Emails -> Roles \cup {None}]
          BY <2>1, <3>1
        <4>2. [role[s] EXCEPT ![ask[c].by] = "owner"] \in [Emails -> Roles \cup {None}]
          BY <1>0, <3>1, <4>1
        <4>3. role' = [role EXCEPT ![s] = [role[s] EXCEPT ![ask[c].by] = "owner"]]
          BY <2>4, <2>6
        <4> QED BY <2>1, <3>1, <4>2, <4>3
      <3> QED BY <2>2, <2>3, <2>4, <3>2, <3>3, <3>4, InsertType DEF TypeInv, TypeOK
    <2> QED BY <2>5, <2>6
  <1>6. CASE CreateApp(c)
    <2>1. slug[c] \in Slugs
      BY <1>6 DEF CreateApp, TypeInv, AskInv
    <2>2. Fits(ask[c].kind, "enqueue")
      BY <1>6, Kinds DEF CreateApp, Fits
    <2>3. pc' \in [Calls -> PCs] /\ AskInv'
      BY <1>6, <2>2, MoveType DEF CreateApp, TypeInv, TypeOK
    <2> QED BY <1>6, <2>1, <2>3 DEF CreateApp, TypeInv, TypeOK, TriesInv, history
  <1>7. CASE Enqueue(c)
    <2>1. pc' \in [Calls -> PCs] /\ AskInv'
      BY <1>7, Kinds, MoveType DEF Enqueue, TypeInv, TypeOK
    <2> QED BY <1>0, <1>7, <2>1 DEF Enqueue, TypeInv, TypeOK, TriesInv, history
  <1>8. CASE Guard(c)
    <2>1. PICK step \in {"refused", "findInvitee", "findFlag", "feature"} :
            /\ Arrive(c, {"invite", "setFlag", "publish"}, step)
            /\ Fits(ask[c].kind, step)
      <3>1. ask[c].kind \in {"invite", "setFlag", "publish"}
        BY <1>8 DEF Guard, Arrive
      <3> QED BY <1>8, <3>1 DEF Guard, Fits
    <2> QED BY <2>1, ArriveType
  <1>9. CASE FindInvitee(c) \/ CheckMember(c) \/ Feature(c) \/ AssertType(c)
    <2>1. CASE FindInvitee(c)
      <3>1. Fits(ask[c].kind, "checkMember")
        BY <2>1, Kinds DEF FindInvitee, Check, Fits
      <3> QED BY <2>1, <3>1, CheckType DEF FindInvitee
    <2>2. CASE CheckMember(c)
      <3>1. Fits(ask[c].kind, "insertMember")
        BY <2>2, Kinds DEF CheckMember, Check, Fits
      <3> QED BY <2>2, <3>1, CheckType DEF CheckMember
    <2>3. CASE Feature(c)
      <3>1. Fits(ask[c].kind, "assertType")
        BY <2>3, Kinds DEF Feature, Check, Fits
      <3> QED BY <2>3, <3>1, CheckType DEF Feature
    <2>4. CASE AssertType(c)
      <3>1. Fits(ask[c].kind, "tryApi")
        BY <2>4, Kinds DEF AssertType, Check, Fits
      <3> QED BY <2>4, <3>1, CheckType DEF AssertType
    <2> QED BY <1>9, <2>1, <2>2, <2>3, <2>4
  <1>10. CASE InsertMember(c)
    <2>1. ask[c].what \in Roles
      BY <1>0, <1>10, Kinds DEF InsertMember, Fits
    <2>2. role' \in [Slugs -> [Emails -> Roles \cup {None}]]
      BY <1>0, <1>10, <2>1 DEF InsertMember, TypeInv, TypeOK
    <2> QED BY <1>10, <2>2, Kinds, InsertType DEF InsertMember, TypeInv, TypeOK
  <1>11. CASE FindFlag(c)
    <2>1. Fits(ask[c].kind, "saveFlag")
      BY <1>11, Kinds DEF FindFlag, Fits
    <2>2. pc' \in [Calls -> PCs] /\ AskInv'
      BY <1>11, <2>1, MoveType DEF FindFlag, TypeInv, TypeOK
    <2>3. found' \in [Calls -> BOOLEAN]
      BY <1>11 DEF FindFlag, TypeInv, TypeOK
    <2> QED BY <1>11, <2>2, <2>3 DEF FindFlag, TypeInv, TypeOK, TriesInv, tables, history
  <1>12. CASE SaveFlag(c)
    <2>1. ask[c].what \in {"on", "off"}
      BY <1>0, <1>12, Kinds DEF SaveFlag, Fits
    <2>2. flag' \in [Slugs -> {"on", "off", "unset"}]
      BY <1>0, <1>12, <2>1 DEF SaveFlag, TypeInv, TypeOK
    <2> QED BY <1>12, <2>2, Kinds, InsertType DEF SaveFlag, TypeInv, TypeOK
  <1>13. CASE TryApi(c)
    <2>1. Fits(ask[c].kind, "insertApi")
      BY <1>13, Kinds DEF TryApi, Try, Fits
    <2> QED BY <1>13, <2>1, TryType DEF TryApi
  <1>14. CASE InsertApi(c)
    <2> DEFINE s == Candidate(c)
    <2>1. s \in Slugs
      BY CandidateSlug
    <2>2. Insert(c, api[s] # None, "done")
      BY <1>14 DEF InsertApi
    <2>3. /\ UNCHANGED <<users, org, role, apps, mails, flag>>
          /\ \/ UNCHANGED <<api, slug>>
             \/ api' = [api EXCEPT ![s] = ask[c].org] /\ slug' = [slug EXCEPT ![c] = s]
      BY <1>14 DEF InsertApi
    <2> HIDE DEF s
    <2>4. api \in [Slugs -> Slugs \cup {None}] /\ slug \in [Calls -> Slugs \cup {None}]
      BY DEF TypeInv, TypeOK
    <2>5. /\ api' \in [Slugs -> Slugs \cup {None}] /\ slug' \in [Calls -> Slugs \cup {None}]
          /\ \A d \in Calls : slug[d] \in Slugs => slug'[d] \in Slugs
      <3>1. CASE UNCHANGED <<api, slug>>
        BY <2>4, <3>1
      <3>2. CASE api' = [api EXCEPT ![s] = ask[c].org] /\ slug' = [slug EXCEPT ![c] = s]
        <4>1. api' \in [Slugs -> Slugs \cup {None}]
          BY <1>0, <2>1, <2>4, <3>2
        <4>2. slug' \in [Calls -> Slugs \cup {None}]
          BY <2>1, <2>4, <3>2
        <4>3. slug'[c] = s /\ \A d \in Calls \ {c} : slug'[d] = slug[d]
          BY <2>4, <3>2
        <4> QED BY <2>1, <4>1, <4>2, <4>3
      <3> QED BY <2>3, <3>1, <3>2
    <2> QED BY <2>2, <2>3, <2>5, Kinds, InsertType DEF TypeInv, TypeOK
  <1>15. CASE Die(c)
    <2>1. pc' \in [Calls -> PCs] /\ AskInv'
      BY <1>15, Kinds, MoveType DEF Die, TypeInv, TypeOK
    <2> QED BY <1>15, <2>1 DEF Die, TypeInv, TypeOK, TriesInv, tables, history
  <1> QED BY <1>1, <1>2, <1>3, <1>4, <1>5, <1>6, <1>7, <1>8, <1>9, <1>10, <1>11, <1>12,
             <1>13, <1>14, <1>15 DEF Step

\* Tables, calls and histories keep their shapes.
THEOREM TypeCorrect == Spec => []TypeOK
  <1>1. TypeInv /\ [Next]_vars => TypeInv'
    <2> SUFFICES ASSUME TypeInv, [Next]_vars PROVE TypeInv'
      OBVIOUS
    <2>1. CASE Next
      BY <2>1, StepType DEF Next
    <2>2. CASE UNCHANGED vars
      BY <2>2 DEF vars, tables, history, TypeInv, TypeOK, TriesInv, AskInv
    <2> QED BY <2>1, <2>2
  <1>2. TypeInv => TypeOK
    BY DEF TypeInv
  <1> QED BY InitType, <1>1, <1>2, PTL DEF Spec

-----------------------------------------------------------------------------
(* What no step undoes, and what it leaves to the other calls.             *)

\* The calls that only look.
Looks(c) == \/ CheckEmail(c) \/ Create(c) \/ TrySlug(c) \/ Guard(c) \/ FindInvitee(c) \/ CheckMember(c)
            \/ FindFlag(c) \/ Feature(c) \/ AssertType(c) \/ TryApi(c) \/ Die(c)

LEMMA LooksFrame ==
    ASSUME TypeInv, NEW c \in Calls, Looks(c)
    PROVE  /\ UNCHANGED <<tables, ask, slug, beaten>>
           /\ \A d \in Calls \ {c} : pc'[d] = pc[d] /\ tries'[d] = tries[d] /\ found'[d] = found[d]
  <1>1. \A kinds, step : Arrive(c, kinds, step) =>
           /\ UNCHANGED <<tables, ask, slug, beaten, tries, found>>
           /\ \A d \in Calls \ {c} : pc'[d] = pc[d]
    BY DEF Arrive, Goto, TypeInv, TypeOK
  <1>2. \A step, ok, next : Check(c, step, ok, next) =>
           /\ UNCHANGED <<tables, ask, slug, beaten, tries, found>>
           /\ \A d \in Calls \ {c} : pc'[d] = pc[d]
    BY DEF Check, Goto, TypeInv, TypeOK, history
  <1>3. \A step, taken, next : Try(c, step, taken, next) =>
           /\ UNCHANGED <<tables, ask, slug, beaten, found>>
           /\ \A d \in Calls \ {c} : pc'[d] = pc[d] /\ tries'[d] = tries[d]
    BY DEF Try, Goto, TypeInv, TypeOK, history
  <1>4. CASE CheckEmail(c) \/ Create(c) \/ Guard(c)
    BY <1>1, <1>4 DEF CheckEmail, Create, Guard
  <1>5. CASE FindInvitee(c) \/ CheckMember(c) \/ Feature(c) \/ AssertType(c)
    BY <1>2, <1>5 DEF FindInvitee, CheckMember, Feature, AssertType
  <1>6. CASE TrySlug(c) \/ TryApi(c)
    BY <1>3, <1>6 DEF TrySlug, TryApi
  <1>7. CASE FindFlag(c) \/ Die(c)
    BY <1>7 DEF FindFlag, Die, Goto, TypeInv, TypeOK, history
  <1> QED BY <1>4, <1>5, <1>6, <1>7 DEF Looks

\* What stays of the tables, and of the calls other than c.
Frame(c) ==
    /\ ask' = ask
    /\ \A d \in Calls \ {c} : /\ pc'[d] = pc[d] /\ tries'[d] = tries[d]
                              /\ slug'[d] = slug[d] /\ found'[d] = found[d]
    /\ users \subseteq users' /\ mails \subseteq mails' /\ apps \subseteq apps' /\ beaten \subseteq beaten'
    /\ \A o \in Slugs : org[o] # None => org'[o] = org[o]
    /\ \A o \in Slugs : api[o] # None => api'[o] = api[o]
    /\ \A o \in Slugs, u \in Emails : role[o][u] # None => role'[o][u] = role[o][u]

LEMMA InsertFrame ==
    ASSUME TypeInv, NEW c \in Calls, NEW clash, NEW next, Insert(c, clash, next)
    PROVE  /\ ask' = ask /\ beaten \subseteq beaten' /\ UNCHANGED <<tries, found>>
           /\ \A d \in Calls \ {c} : pc'[d] = pc[d]
           /\ clash => pc'[c] = "failed" /\ beaten' = beaten
           /\ ~clash => pc'[c] = next /\ Busy \ {c} \subseteq beaten'
  BY DEF Insert, Goto, TypeInv, TypeOK

LEMMA StepFrame == ASSUME TypeInv, OwnedByOne, NEW c \in Calls, Step(c) \/ Die(c) PROVE Frame(c)
  <1>0. /\ ask[c].by \in Emails /\ ask[c].org \in Slugs /\ ask[c].whom \in Emails
        /\ role \in [Slugs -> [Emails -> Roles \cup {None}]] /\ org \in [Slugs -> Types \cup {None}]
        /\ api \in [Slugs -> Slugs \cup {None}] /\ slug \in [Calls -> Slugs \cup {None}]
        /\ pc \in [Calls -> PCs]
    BY DEF TypeInv, TypeOK, Asks, PCs
  <1>1. CASE Looks(c)
    BY <1>1, LooksFrame DEF Frame, tables
  <1>2. CASE InsertUser(c)
    BY <1>2, InsertFrame DEF InsertUser, Frame
  <1>3. CASE InsertOrg(c)
    <2> DEFINE s == Candidate(c)
    <2>1. s \in Slugs
      BY CandidateSlug
    <2>2. PICK next : Insert(c, org[s] # None, next)
      BY <1>3 DEF InsertOrg
    <2>3. /\ UNCHANGED <<users, apps, mails, flag, api>>
          /\ org[s] # None => UNCHANGED <<org, role, slug>>
          /\ org[s] = None => /\ org' = [org EXCEPT ![s] = ask[c].what]
                              /\ role' = [role EXCEPT ![s][ask[c].by] = "owner"]
                              /\ slug' = [slug EXCEPT ![c] = s]
      BY <1>3 DEF InsertOrg
    <2> HIDE DEF s
    <2>4. \A d \in Calls \ {c} : slug'[d] = slug[d]
      BY <1>0, <2>3
    <2>5. \A o \in Slugs : org[o] # None => org'[o] = org[o]
      BY <1>0, <2>1, <2>3
    <2>6. \A o \in Slugs, u \in Emails : role[o][u] # None => role'[o][u] = role[o][u]
      <3>1. CASE org[s] # None
        BY <2>3, <3>1
      <3>2. CASE org[s] = None
        <4>1. \A u \in Emails : role[s][u] = None
          BY <2>1, <3>2 DEF OwnedByOne
        <4>2. \A o \in Slugs : o # s => role'[o] = role[o]
          BY <1>0, <2>3, <3>2
        <4> QED BY <4>1, <4>2
      <3> QED BY <3>1, <3>2
    <2> QED BY <2>2, <2>3, <2>4, <2>5, <2>6, InsertFrame DEF Frame
  <1>4. CASE CreateApp(c) \/ Enqueue(c)
    BY <1>0, <1>4 DEF CreateApp, Enqueue, Goto, Frame, history
  <1>5. CASE InsertMember(c)
    <2> DEFINE o == ask[c].org
               u == ask[c].whom
    <2>1. \A p \in Slugs, v \in Emails : role[p][v] # None => role'[p][v] = role[p][v]
      <3>1. CASE role[o][u] # None
        BY <1>5, <3>1 DEF InsertMember
      <3>2. CASE role[o][u] = None
        <4>1. role' = [role EXCEPT ![o] = [role[o] EXCEPT ![u] = ask[c].what]]
          BY <1>5, <3>2 DEF InsertMember
        <4>2. role[o] \in [Emails -> Roles \cup {None}]
          BY <1>0
        <4> QED BY <1>0, <3>2, <4>1, <4>2
      <3> QED BY <3>1, <3>2
    <2> QED BY <1>5, <2>1, InsertFrame DEF InsertMember, Frame
  <1>6. CASE SaveFlag(c)
    BY <1>6, InsertFrame DEF SaveFlag, Frame
  <1>7. CASE InsertApi(c)
    <2> DEFINE s == Candidate(c)
    <2>1. s \in Slugs /\ Insert(c, api[s] # None, "done")
      BY <1>7, CandidateSlug DEF InsertApi
    <2>2. /\ UNCHANGED <<users, org, role, apps, mails, flag>>
          /\ api[s] # None => UNCHANGED <<api, slug>>
          /\ api[s] = None => /\ api' = [api EXCEPT ![s] = ask[c].org]
                              /\ slug' = [slug EXCEPT ![c] = s]
      BY <1>7 DEF InsertApi
    <2> HIDE DEF s
    <2>3. /\ \A d \in Calls \ {c} : slug'[d] = slug[d]
          /\ \A o \in Slugs : api[o] # None => api'[o] = api[o]
      BY <1>0, <2>1, <2>2
    <2> QED BY <2>1, <2>2, <2>3, InsertFrame DEF Frame
  <1> QED BY <1>1, <1>2, <1>3, <1>4, <1>5, <1>6, <1>7 DEF Step, Looks

\* How a call gets where it is.
LEMMA Route ==
    ASSUME TypeInv, NEW c \in Calls, Step(c) \/ Die(c)
    PROVE  /\ pc'[c] = "insertUser" => CheckEmail(c)
           /\ pc'[c] = "trySlug" => InsertUser(c) \/ Create(c) \/ TrySlug(c)
           /\ pc'[c] = "insertOrg" => TrySlug(c)
           /\ pc'[c] = "createApp" => InsertOrg(c)
           /\ pc'[c] = "enqueue" => InsertOrg(c) \/ CreateApp(c)
           /\ pc'[c] \in {"findInvitee", "findFlag", "feature"} => Guard(c)
           /\ pc'[c] = "checkMember" => FindInvitee(c)
           /\ pc'[c] = "insertMember" => CheckMember(c)
           /\ pc'[c] = "saveFlag" => FindFlag(c)
           /\ pc'[c] = "assertType" => Feature(c)
           /\ pc'[c] = "tryApi" => AssertType(c) \/ TryApi(c)
           /\ pc'[c] = "insertApi" => TryApi(c)
           /\ pc'[c] = "done" => \/ InsertOrg(c) \/ Enqueue(c) \/ InsertMember(c)
                                 \/ SaveFlag(c) \/ InsertApi(c)
           /\ pc'[c] = "failed" => \/ InsertUser(c) \/ InsertOrg(c) \/ InsertMember(c)
                                   \/ SaveFlag(c) \/ InsertApi(c)
           /\ pc'[c] # "idle"
  <1>0. \A step : Goto(c, step) => pc'[c] = step
    BY DEF Goto, TypeInv, TypeOK
  <1>1. \A kinds, step : Arrive(c, kinds, step) => pc'[c] = step /\ ask[c].kind \in kinds
    BY <1>0 DEF Arrive
  <1>2. \A step, ok, next : Check(c, step, ok, next) => pc'[c] \in {next, "refused"}
    BY <1>0 DEF Check
  <1>3. \A step, taken, next : Try(c, step, taken, next) => pc[c] = step /\ pc'[c] \in {step, next}
    BY <1>0 DEF Try
  <1>4. \A clash, next : Insert(c, clash, next) => pc'[c] \in {"failed", next}
    BY <1>0 DEF Insert
  <1>5. CASE CheckEmail(c) \/ Create(c)
    <2>1. /\ CheckEmail(c) => pc'[c] \in {"refused", "insertUser"}
          /\ Create(c) => pc'[c] = "trySlug"
      BY <1>1 DEF CheckEmail, Create
    <2> QED BY <1>5, <2>1
  <1>6. CASE Guard(c)
    <2>1. pc'[c] \in {"refused", "findInvitee", "findFlag", "feature"}
      <3>1. ask[c].kind \in {"invite", "setFlag", "publish"}
        BY <1>1, <1>6 DEF Guard
      <3> QED BY <1>1, <1>6, <3>1 DEF Guard
    <2> QED BY <1>6, <2>1
  <1>7. CASE FindInvitee(c) \/ CheckMember(c) \/ Feature(c) \/ AssertType(c)
    <2>1. /\ FindInvitee(c) => pc'[c] \in {"checkMember", "refused"}
          /\ CheckMember(c) => pc'[c] \in {"insertMember", "refused"}
          /\ Feature(c) => pc'[c] \in {"assertType", "refused"}
          /\ AssertType(c) => pc'[c] \in {"tryApi", "refused"}
      BY <1>2 DEF FindInvitee, CheckMember, Feature, AssertType
    <2> QED BY <1>7, <2>1
  <1>8. CASE TrySlug(c) \/ TryApi(c)
    <2>1. /\ TrySlug(c) => pc'[c] \in {"trySlug", "insertOrg"}
          /\ TryApi(c) => pc'[c] \in {"tryApi", "insertApi"}
      BY <1>3 DEF TrySlug, TryApi
    <2> QED BY <1>8, <2>1
  <1>9. CASE FindFlag(c) \/ Die(c) \/ CreateApp(c) \/ Enqueue(c)
    <2>1. /\ FindFlag(c) => pc'[c] = "saveFlag"
          /\ Die(c) => pc'[c] = "died"
          /\ CreateApp(c) => pc'[c] = "enqueue"
          /\ Enqueue(c) => pc'[c] = "done"
      BY <1>0 DEF FindFlag, Die, CreateApp, Enqueue
    <2> QED BY <1>9, <2>1
  <1>10. CASE InsertUser(c) \/ InsertMember(c) \/ SaveFlag(c) \/ InsertApi(c)
    <2>1. /\ InsertUser(c) => pc'[c] \in {"trySlug", "failed"}
          /\ InsertMember(c) \/ SaveFlag(c) \/ InsertApi(c) => pc'[c] \in {"done", "failed"}
      BY <1>4 DEF InsertUser, InsertMember, SaveFlag, InsertApi
    <2> QED BY <1>10, <2>1
  <1>11. CASE InsertOrg(c)
    <2>1. pc'[c] \in {"done", "createApp", "enqueue", "failed"}
      BY <1>4, <1>11 DEF InsertOrg
    <2> QED BY <1>11, <2>1
  <1> QED BY <1>5, <1>6, <1>7, <1>8, <1>9, <1>10, <1>11 DEF Step

-----------------------------------------------------------------------------
(* One OWNER.                                                              *)

\* An invitation that passed the guard is to an organization and makes nobody an OWNER.
InviteInv ==
    \A c \in Calls : pc[c] \in {"findInvitee", "checkMember", "insertMember"} =>
        org[ask[c].org] # None /\ ask[c].what # "owner"

OwnedInv == OwnedByOne /\ InviteInv

LEMMA OwnedStep ==
    ASSUME TypeInv, OwnedInv, NEW c \in Calls, Step(c) \/ Die(c)
    PROVE  OwnedInv'
  <1> USE DEF OwnedInv
  <1>f. Frame(c)
    BY StepFrame
  <1>0. /\ \A d \in Calls : ask[d].by \in Emails /\ ask[d].org \in Slugs /\ ask[d].whom \in Emails
        /\ role \in [Slugs -> [Emails -> Roles \cup {None}]] /\ org \in [Slugs -> Types \cup {None}]
    BY DEF TypeInv, TypeOK, Asks
  <1>1. InviteInv'
    <2> SUFFICES ASSUME NEW d \in Calls, pc'[d] \in {"findInvitee", "checkMember", "insertMember"}
                 PROVE  org'[ask[d].org] # None /\ ask[d].what # "owner"
      BY <1>f DEF InviteInv, Frame
    <2>1. org[ask[d].org] # None /\ ask[d].what # "owner"
      <3>1. CASE d # c
        BY <1>f, <3>1 DEF InviteInv, Frame
      <3>2. CASE d = c /\ pc'[c] = "findInvitee"
        <4>1. Guard(c)
          BY <3>2, Route
        <4>2. /\ Reaches(ask[c].by, ask[c].org, Lowest[ask[c].kind])
              /\ ask[c].kind = "invite" => ask[c].what # "owner"
          <5>1. \A kinds, step : Arrive(c, kinds, step) => pc'[c] = step
            BY DEF Arrive, Goto, TypeInv, TypeOK
          <5> QED BY <3>2, <4>1, <5>1 DEF Guard
        <4>3. ask[c].kind = "invite"
          BY <1>f, <3>2, StepType DEF TypeInv, AskInv, Fits, Frame
        <4>4. role[ask[c].org][ask[c].by] # None
          BY <4>2 DEF Reaches
        <4> QED BY <1>0, <3>2, <4>2, <4>3, <4>4 DEF OwnedByOne
      <3>3. CASE d = c /\ pc'[c] \in {"checkMember", "insertMember"}
        <4>1. pc[c] \in {"findInvitee", "checkMember"}
          BY <3>3, Route DEF FindInvitee, CheckMember, Check
        <4> QED BY <3>3, <4>1 DEF InviteInv
      <3> QED BY <3>1, <3>2, <3>3
    <2> QED BY <1>0, <1>f, <2>1 DEF Frame
  <1>2. CASE UNCHANGED <<org, role>>
    BY <1>1, <1>2 DEF OwnedByOne
  <1>3. CASE InsertOrg(c)
    <2> DEFINE s == Candidate(c)
    <2>1. s \in Slugs
      BY CandidateSlug
    <2>2. /\ org[s] # None => UNCHANGED <<org, role>>
          /\ org[s] = None => /\ org' = [org EXCEPT ![s] = ask[c].what]
                              /\ role' = [role EXCEPT ![s] = [role[s] EXCEPT ![ask[c].by] = "owner"]]
      BY <1>3 DEF InsertOrg
    <2> HIDE DEF s
    <2>3. CASE org[s] # None
      BY <1>2, <2>2, <2>3
    <2>4. CASE org[s] = None
      <3>1. \A v \in Emails : role[s][v] = None
        BY <2>1, <2>4 DEF OwnedByOne
      <3>2. role[s] \in [Emails -> Roles \cup {None}] /\ None # "owner"
        BY <1>0, <2>1 DEF Roles
      <3>3. \A v \in Emails : role'[s][v] = "owner" <=> v = ask[c].by
        BY <1>0, <2>1, <2>2, <2>4, <3>1, <3>2
      <3>4. org'[s] # None
        <4>1. ask[c].kind \in {"register", "create"} /\ ask[c] \in Requests
          BY <1>3, Kinds DEF InsertOrg, Fits, TypeInv, AskInv
        <4> QED BY <1>0, <2>1, <2>2, <2>4, <4>1
      <3>5. \A o \in Slugs \ {s} : org'[o] = org[o] /\ role'[o] = role[o]
        BY <1>0, <2>1, <2>2, <2>4
      <3>6. OwnedByOne'
        <4>1. ASSUME NEW o \in Slugs \ {s}
              PROVE  IF org'[o] = None THEN \A u \in Emails : role'[o][u] = None
                     ELSE \E u \in Emails : \A v \in Emails : role'[o][v] = "owner" <=> v = u
          BY <3>5 DEF OwnedByOne
        <4>2. \E u \in Emails : \A v \in Emails : role'[s][v] = "owner" <=> v = u
          BY <1>0, <3>3
        <4> QED BY <3>4, <4>1, <4>2 DEF OwnedByOne
      <3> QED BY <1>1, <3>6
    <2> QED BY <2>3, <2>4
  <1>4. CASE InsertMember(c)
    <2> DEFINE o == ask[c].org
               u == ask[c].whom
    <2>1. CASE role[o][u] # None
      BY <1>2, <1>4, <2>1 DEF InsertMember
    <2>2. CASE role[o][u] = None
      <3>1. role' = [role EXCEPT ![o] = [role[o] EXCEPT ![u] = ask[c].what]] /\ org' = org
        BY <1>4, <2>2 DEF InsertMember
      <3>2. role[o] \in [Emails -> Roles \cup {None}] /\ None # "owner"
        BY <1>0 DEF Roles
      <3>3. org[o] # None /\ ask[c].what # "owner"
        BY <1>4 DEF InsertMember, InviteInv
      <3>4. \A p \in Slugs, v \in Emails : role'[p][v] = "owner" <=> role[p][v] = "owner"
        BY <1>0, <2>2, <3>1, <3>2, <3>3
      <3>5. \A p \in Slugs : org[p] = None => role'[p] = role[p]
        BY <1>0, <3>1, <3>3
      <3>6. OwnedByOne'
        BY <3>1, <3>4, <3>5 DEF OwnedByOne
      <3> QED BY <1>1, <3>6
    <2> QED BY <2>1, <2>2
  <1>5. CASE Looks(c)
    BY <1>2, <1>5, LooksFrame DEF tables
  <1>6. CASE InsertUser(c) \/ CreateApp(c) \/ Enqueue(c) \/ SaveFlag(c) \/ InsertApi(c)
    BY <1>2, <1>6 DEF InsertUser, CreateApp, Enqueue, SaveFlag, InsertApi
  <1> QED BY <1>3, <1>4, <1>5, <1>6 DEF Step, Looks

LEMMA InitOwned == Init => OwnedInv
  <1> SUFFICES ASSUME Init PROVE OwnedInv
    OBVIOUS
  <1>1. InviteInv
    BY DEF Init, InviteInv
  <1>2. ASSUME NEW s \in Slugs
        PROVE  IF org[s] = None THEN \A u \in Emails : role[s][u] = None
               ELSE \E u \in Emails : \A v \in Emails : role[s][v] = "owner" <=> v = u
    <2>1. /\ org[s] = IF Founders[s] = None THEN None ELSE FoundedAs[s]
          /\ \A u \in Emails : role[s][u] = IF Founders[s] = u THEN "owner" ELSE None
      BY DEF Init
    <2>2. None # "owner" /\ None \notin Emails /\ Founders[s] \in Emails \cup {None}
          /\ FoundedAs[s] # None
      BY DEF Roles
    <2> QED BY <2>1, <2>2
  <1> QED BY <1>1, <1>2 DEF OwnedInv, OwnedByOne

TenantInv == TypeInv /\ OwnedInv

LEMMA TenantStep == TenantInv /\ [Next]_vars => TenantInv'
  <1> SUFFICES ASSUME TenantInv, [Next]_vars PROVE TenantInv'
    OBVIOUS
  <1>1. CASE Next
    BY <1>1, StepType, OwnedStep DEF Next, TenantInv
  <1>2. CASE UNCHANGED vars
    BY <1>2 DEF vars, tables, history, TenantInv, TypeInv, TypeOK, TriesInv, AskInv,
                OwnedInv, OwnedByOne, InviteInv
  <1> QED BY <1>1, <1>2

\* Whatever interleaves or dies, an organization has exactly one OWNER, and only
\* an organization has members.
THEOREM OneOwner == Spec => []OwnedByOne
  <1>1. TenantInv => OwnedByOne
    BY DEF TenantInv, OwnedInv
  <1>2. Init => TenantInv
    BY InitType, InitOwned DEF TenantInv
  <1> QED BY <1>1, <1>2, TenantStep, PTL DEF Spec

-----------------------------------------------------------------------------
(* Collisions are races.                                                   *)

\* Unless another call wrote meanwhile, what a call is about to insert is free.
RaceInv(c) ==
    c \notin beaten =>
        /\ pc[c] = "insertUser" => ask[c].by \notin users
        /\ pc[c] = "insertOrg" => org[Candidate(c)] = None
        /\ pc[c] = "insertMember" => role[ask[c].org][ask[c].whom] = None
        /\ pc[c] = "saveFlag" /\ ~found[c] => flag[ask[c].org] = "unset"
        /\ pc[c] = "insertApi" => api[Candidate(c)] = None
        /\ pc[c] # "failed"

RacesInv == \A c \in Calls : RaceInv(c)

\* A step that writes a row is noted by every call under way.
LEMMA Writes ==
    ASSUME TypeInv, NEW c \in Calls, Step(c) \/ Die(c)
    PROVE  UNCHANGED <<users, org, role, flag, api>> \/ Busy \ {c} \subseteq beaten'
  <1>1. CASE Looks(c)
    BY <1>1, LooksFrame DEF tables
  <1>2. CASE CreateApp(c) \/ Enqueue(c)
    BY <1>2 DEF CreateApp, Enqueue
  <1>3. CASE InsertUser(c)
    <2>1. CASE ask[c].by \in users
      BY <1>3, <2>1 DEF InsertUser
    <2>2. CASE ask[c].by \notin users
      BY <1>3, <2>2 DEF InsertUser, Insert
    <2> QED BY <2>1, <2>2
  <1>4. CASE InsertOrg(c)
    <2>1. CASE org[Candidate(c)] # None
      BY <1>4, <2>1 DEF InsertOrg
    <2>2. CASE org[Candidate(c)] = None
      BY <1>4, <2>2, InsertFrame DEF InsertOrg
    <2> QED BY <2>1, <2>2
  <1>5. CASE InsertMember(c)
    <2>1. CASE role[ask[c].org][ask[c].whom] # None
      BY <1>5, <2>1 DEF InsertMember
    <2>2. CASE role[ask[c].org][ask[c].whom] = None
      BY <1>5, <2>2, InsertFrame DEF InsertMember
    <2> QED BY <2>1, <2>2
  <1>6. CASE SaveFlag(c)
    <2>1. CASE ~found[c] /\ flag[ask[c].org] # "unset"
      BY <1>6, <2>1 DEF SaveFlag
    <2>2. CASE ~(~found[c] /\ flag[ask[c].org] # "unset")
      BY <1>6, <2>2, InsertFrame DEF SaveFlag
    <2> QED BY <2>1, <2>2
  <1>7. CASE InsertApi(c)
    <2>1. CASE api[Candidate(c)] # None
      BY <1>7, <2>1 DEF InsertApi
    <2>2. CASE api[Candidate(c)] = None
      BY <1>7, <2>2, InsertFrame DEF InsertApi
    <2> QED BY <2>1, <2>2
  <1> QED BY <1>1, <1>2, <1>3, <1>4, <1>5, <1>6, <1>7 DEF Step, Looks

\* An insert that fails was one of a row that was there.
LEMMA Failures ==
    ASSUME TypeInv, NEW c \in Calls, RaceInv(c), Step(c) \/ Die(c), pc'[c] = "failed"
    PROVE  c \in beaten
  <1>0. \A step : Goto(c, step) => pc'[c] = step
    BY DEF Goto, TypeInv, TypeOK
  <1>1. CASE InsertUser(c)
    BY <1>0, <1>1 DEF InsertUser, Insert, RaceInv
  <1>2. CASE InsertOrg(c)
    <2>1. pc[c] = "insertOrg" /\ org[Candidate(c)] # None
      <3>1. Goto(c, IF org[Candidate(c)] # None THEN "failed"
                    ELSE IF ask[c].kind = "create" THEN "done"
                    ELSE IF ask[c].what = "subscriber" THEN "createApp" ELSE "enqueue")
        BY <1>2 DEF InsertOrg, Insert
      <3> QED BY <1>0, <1>2, <3>1 DEF InsertOrg
    <2> QED BY <2>1 DEF RaceInv
  <1>3. CASE InsertMember(c)
    BY <1>0, <1>3 DEF InsertMember, Insert, RaceInv
  <1>4. CASE SaveFlag(c)
    BY <1>0, <1>4 DEF SaveFlag, Insert, RaceInv
  <1>5. CASE InsertApi(c)
    BY <1>0, <1>5 DEF InsertApi, Insert, RaceInv
  <1> QED BY <1>1, <1>2, <1>3, <1>4, <1>5, Route

LEMMA RaceStep ==
    ASSUME TenantInv, RacesInv, NEW c \in Calls, Step(c) \/ Die(c)
    PROVE  RacesInv'
  <1>f. TypeInv /\ Frame(c)
    BY StepFrame DEF TenantInv, OwnedInv
  <1>1. ASSUME NEW d \in Calls \ {c} PROVE RaceInv(d)'
    <2>1. /\ ask'[d] = ask[d] /\ pc'[d] = pc[d] /\ tries'[d] = tries[d] /\ found'[d] = found[d]
          /\ beaten \subseteq beaten'
      BY <1>f DEF Frame
    <2>2. Candidate(d)' = Candidate(d)
      BY <2>1 DEF Candidate
    <2>3. CASE UNCHANGED <<users, org, role, flag, api>>
      BY <2>1, <2>2, <2>3 DEF RacesInv, RaceInv
    <2>4. CASE Busy \ {c} \subseteq beaten'
      <3>1. d \in Busy => d \in beaten'
        BY <2>4
      <3>2. d \notin Busy => pc[d] \notin {"insertUser", "insertOrg", "insertMember", "saveFlag", "insertApi"}
        BY DEF Busy, Ended
      <3> QED BY <2>1, <3>1, <3>2 DEF RacesInv, RaceInv
    <2> QED BY <1>f, <2>3, <2>4, Writes
  <1>2. RaceInv(c)'
    <2>r. RaceInv(c) /\ beaten \subseteq beaten' /\ ask' = ask
      BY <1>f DEF RacesInv, Frame
    <2>1. CASE pc'[c] = "failed"
      BY <1>f, <2>1, <2>r, Failures DEF RaceInv
    <2>2. CASE pc'[c] = "insertUser"
      <3>1. CheckEmail(c)
        BY <1>f, <2>2, Route
      <3>2. UNCHANGED tables /\ pc'[c] = IF ask[c].by \in users THEN "refused" ELSE "insertUser"
        BY <1>f, <3>1 DEF CheckEmail, Arrive, Goto, TypeInv, TypeOK
      <3> QED BY <2>2, <2>r, <3>2 DEF RaceInv, tables
    <2>3. CASE pc'[c] = "insertOrg"
      <3>1. TrySlug(c)
        BY <1>f, <2>3, Route
      <3>2. org[Candidate(c)] = None /\ tries' = tries /\ org' = org
        BY <1>f, <2>3, <3>1 DEF TrySlug, Try, tables
      <3> QED BY <2>3, <2>r, <3>2 DEF RaceInv, Candidate
    <2>4. CASE pc'[c] = "insertMember"
      <3>1. CheckMember(c)
        BY <1>f, <2>4, Route
      <3>2. role[ask[c].org][ask[c].whom] = None /\ role' = role
        BY <1>f, <2>4, <3>1 DEF CheckMember, Check, Goto, tables, TypeInv, TypeOK
      <3> QED BY <2>4, <2>r, <3>2 DEF RaceInv
    <2>5. CASE pc'[c] = "saveFlag"
      <3>1. FindFlag(c)
        BY <1>f, <2>5, Route
      <3>2. found'[c] = (flag[ask[c].org] # "unset") /\ flag' = flag
        BY <1>f, <3>1 DEF FindFlag, tables, TypeInv, TypeOK
      <3> QED BY <2>5, <2>r, <3>2 DEF RaceInv
    <2>6. CASE pc'[c] = "insertApi"
      <3>1. TryApi(c)
        BY <1>f, <2>6, Route
      <3>2. api[Candidate(c)] = None /\ tries' = tries /\ api' = api
        BY <1>f, <2>6, <3>1 DEF TryApi, Try, tables
      <3> QED BY <2>6, <2>r, <3>2 DEF RaceInv, Candidate
    <2> QED BY <2>1, <2>2, <2>3, <2>4, <2>5, <2>6 DEF RaceInv
  <1> QED BY <1>1, <1>2 DEF RacesInv

\* A request fails at a unique index only when another one wrote during it.
THEOREM Collisions == Spec => []CollisionsAreRaces
  <1>1. Init => TenantInv /\ RacesInv
    <2>1. Init => RacesInv
      BY DEF Init, RacesInv, RaceInv
    <2> QED BY <2>1, InitType, InitOwned DEF TenantInv
  <1>2. TenantInv /\ RacesInv /\ [Next]_vars => TenantInv' /\ RacesInv'
    <2> SUFFICES ASSUME TenantInv, RacesInv, [Next]_vars PROVE RacesInv'
      BY TenantStep
    <2>1. CASE Next
      BY <2>1, RaceStep DEF Next
    <2>2. CASE UNCHANGED vars
      BY <2>2 DEF vars, tables, history, RacesInv, RaceInv, Candidate
    <2> QED BY <2>1, <2>2
  <1>3. RacesInv => CollisionsAreRaces
    BY DEF RacesInv, RaceInv, CollisionsAreRaces
  <1> QED BY <1>1, <1>2, <1>3, PTL DEF Spec

-----------------------------------------------------------------------------
(* Publishing.                                                             *)

\* A call about a feature that passed the guard is one of a member of the rank.
GuardedInv ==
    \A c \in Calls : ask[c].kind \in {"setFlag", "publish"} /\ pc[c] \notin {"idle", "refused"} =>
        Reaches(ask[c].by, ask[c].org, Lowest[ask[c].kind])

\* An ADMIN had the feature switched on.
SwitchedOn(o) ==
    \E d \in Calls : /\ ask[d].kind = "setFlag" /\ ask[d].org = o
                     /\ ask[d].what = "on" /\ pc[d] \in {"done", "died"}
                     /\ Reaches(ask[d].by, o, Lowest.setFlag)

FlagInv == \A o \in Slugs : flag[o] = "on" => SwitchedOn(o)

Published(c) == ask[c].kind = "publish" /\ pc[c] = "done"

\* What the checks of a publication found still is so.
PublishInv ==
    \A c \in Calls :
        /\ pc[c] \in {"assertType", "tryApi", "insertApi"} \/ Published(c) => SwitchedOn(ask[c].org)
        /\ pc[c] \in {"tryApi", "insertApi"} \/ Published(c) => org[ask[c].org] = "publisher"
        /\ Published(c) => slug[c] \in Slugs /\ api[slug[c]] = ask[c].org

EntitledInv == GuardedInv /\ FlagInv /\ PublishInv

\* A call that ended takes no step, and one that has not arrived only arrives.
LEMMA Departs ==
    ASSUME NEW c \in Calls, Step(c) \/ Die(c)
    PROVE  /\ pc[c] \notin Ended
           /\ pc[c] = "idle" => CheckEmail(c) \/ Create(c) \/ Guard(c)
  <1> USE DEF Ended
  <1>1. CheckEmail(c) \/ Create(c) \/ Guard(c) => pc[c] = "idle"
    BY DEF CheckEmail, Create, Guard, Arrive
  <1>2. /\ FindInvitee(c) => pc[c] = "findInvitee"
        /\ CheckMember(c) => pc[c] = "checkMember"
        /\ Feature(c) => pc[c] = "feature"
        /\ AssertType(c) => pc[c] = "assertType"
    BY DEF FindInvitee, CheckMember, Feature, AssertType, Check
  <1>3. (TrySlug(c) => pc[c] = "trySlug") /\ (TryApi(c) => pc[c] = "tryApi")
    BY DEF TrySlug, TryApi, Try
  <1>4. /\ InsertUser(c) => pc[c] = "insertUser"
        /\ InsertOrg(c) => pc[c] = "insertOrg"
        /\ CreateApp(c) => pc[c] = "createApp"
        /\ Enqueue(c) => pc[c] = "enqueue"
        /\ InsertMember(c) => pc[c] = "insertMember"
        /\ FindFlag(c) => pc[c] = "findFlag"
        /\ SaveFlag(c) => pc[c] = "saveFlag"
        /\ InsertApi(c) => pc[c] = "insertApi"
    BY DEF InsertUser, InsertOrg, CreateApp, Enqueue, InsertMember, FindFlag, SaveFlag, InsertApi
  <1>5. Die(c) => pc[c] \notin {"idle", "done", "refused", "failed", "died"}
    BY DEF Die, Busy
  <1> QED BY <1>1, <1>2, <1>3, <1>4, <1>5 DEF Step

\* What a call ends with.
LEMMA Finishes ==
    ASSUME TypeInv, NEW c \in Calls, Step(c) \/ Die(c), pc'[c] = "done"
    PROVE  /\ ask[c].kind = "register" => Enqueue(c)
           /\ ask[c].kind = "invite" => InsertMember(c)
           /\ ask[c].kind = "setFlag" => SaveFlag(c)
           /\ ask[c].kind = "publish" => InsertApi(c)
  <1>1. Fits(ask[c].kind, pc[c])
    BY Kinds
  <1>2. /\ Enqueue(c) => pc[c] = "enqueue"
        /\ InsertMember(c) => pc[c] = "insertMember"
        /\ SaveFlag(c) => pc[c] = "saveFlag"
        /\ InsertApi(c) => pc[c] = "insertApi"
    BY DEF Enqueue, InsertMember, SaveFlag, InsertApi
  <1>3. InsertOrg(c) => pc[c] = "insertOrg" /\ ask[c].kind = "create"
    <2> SUFFICES ASSUME InsertOrg(c), ask[c].kind # "create" PROVE FALSE
      BY DEF InsertOrg
    <2>1. PICK next \in {"createApp", "enqueue"} : Insert(c, org[Candidate(c)] # None, next)
      BY DEF InsertOrg
    <2> QED BY <2>1, InsertFrame
  <1> QED BY <1>1, <1>2, <1>3, Route DEF Fits

\* A role that was reached is not lost, nor a feature switched on unsaid.
LEMMA Lasting ==
    ASSUME TenantInv, NEW c \in Calls, Step(c) \/ Die(c)
    PROVE  /\ \A o \in Slugs, u \in Emails, r \in Roles : Reaches(u, o, r) => Reaches(u, o, r)'
           /\ \A o \in Slugs : SwitchedOn(o) => SwitchedOn(o)'
  <1>f. Frame(c)
    BY StepFrame DEF TenantInv, OwnedInv
  <1>1. \A o \in Slugs, u \in Emails, r \in Roles : Reaches(u, o, r) => Reaches(u, o, r)'
    BY <1>f DEF Frame, Reaches
  <1>2. ASSUME NEW o \in Slugs, SwitchedOn(o) PROVE SwitchedOn(o)'
    <2>1. PICK d \in Calls : /\ ask[d].kind = "setFlag" /\ ask[d].org = o
                             /\ ask[d].what = "on" /\ pc[d] \in {"done", "died"}
                             /\ Reaches(ask[d].by, o, Lowest.setFlag)
      BY <1>2 DEF SwitchedOn
    <2>2. d # c
      BY <2>1, Departs DEF Ended
    <2>3. ask[d].by \in Emails /\ Lowest.setFlag \in Roles
      BY DEF TenantInv, TypeInv, TypeOK, Asks, Lowest, Roles
    <2>4. Reaches(ask[d].by, o, Lowest.setFlag)'
      <3>1. Reaches(ask[d].by, o, Lowest.setFlag) => role'[o][ask[d].by] = role[o][ask[d].by]
        BY <1>f, <2>3 DEF Frame, Reaches
      <3> QED BY <1>f, <2>1, <3>1 DEF Frame, Reaches
    <2> QED BY <1>f, <2>1, <2>2, <2>4 DEF Frame, SwitchedOn
  <1> QED BY <1>1, <1>2

LEMMA GuardedStep ==
    ASSUME TenantInv, GuardedInv, NEW c \in Calls, Step(c) \/ Die(c)
    PROVE  GuardedInv'
  <1>f. TypeInv /\ Frame(c)
    BY StepFrame DEF TenantInv, OwnedInv
  <1> SUFFICES ASSUME NEW d \in Calls, ask[d].kind \in {"setFlag", "publish"},
                      pc'[d] \notin {"idle", "refused"}
               PROVE  Reaches(ask[d].by, ask[d].org, Lowest[ask[d].kind])'
    BY <1>f DEF GuardedInv, Frame, Reaches
  <1>1. Reaches(ask[d].by, ask[d].org, Lowest[ask[d].kind])
    <2>1. CASE d # c
      BY <1>f, <2>1 DEF GuardedInv, Frame
    <2>2. CASE d = c /\ pc[c] \notin {"idle", "refused"}
      BY <2>2 DEF GuardedInv
    <2>3. CASE d = c /\ pc[c] \in {"idle", "refused"}
      <3>1. \A kinds, step : Arrive(c, kinds, step) => ask[c].kind \in kinds /\ pc'[c] = step
        BY <1>f DEF Arrive, Goto, TypeInv, TypeOK
      <3>2. Guard(c)
        BY <2>3, <3>1, Departs DEF Ended, CheckEmail, Create
      <3> QED BY <2>3, <3>1, <3>2 DEF Guard
    <2> QED BY <2>1, <2>2, <2>3
  <1>2. ask[d].org \in Slugs /\ ask[d].by \in Emails
    BY <1>f DEF TypeInv, TypeOK, Asks
  <1>3. role'[ask[d].org][ask[d].by] = role[ask[d].org][ask[d].by]
    BY <1>f, <1>1, <1>2 DEF Frame, Reaches
  <1> QED BY <1>f, <1>1, <1>3 DEF Frame, Reaches

LEMMA FlagStep ==
    ASSUME TenantInv, GuardedInv', FlagInv, NEW c \in Calls, Step(c) \/ Die(c)
    PROVE  FlagInv'
  <1>f. TypeInv /\ Frame(c) /\ ask[c].org \in Slugs
    BY StepFrame DEF TenantInv, OwnedInv, TypeInv, TypeOK, Asks
  <1> SUFFICES ASSUME NEW o \in Slugs, flag'[o] = "on" PROVE SwitchedOn(o)'
    BY DEF FlagInv
  <1>1. CASE flag[o] = "on"
    BY <1>1, Lasting DEF FlagInv
  <1>2. CASE flag[o] # "on"
    <2>1. SaveFlag(c)
      <3>1. CASE Looks(c)
        BY <1>f, <1>2, <3>1, LooksFrame DEF tables
      <3>2. CASE InsertUser(c) \/ InsertOrg(c) \/ CreateApp(c) \/ Enqueue(c) \/ InsertMember(c) \/ InsertApi(c)
        BY <1>2, <3>2 DEF InsertUser, InsertOrg, CreateApp, Enqueue, InsertMember, InsertApi
      <3> QED BY <3>1, <3>2 DEF Step, Looks
    <2>2. /\ ~(~found[c] /\ flag[ask[c].org] # "unset")
          /\ flag' = [flag EXCEPT ![ask[c].org] = ask[c].what]
      BY <1>2, <2>1 DEF SaveFlag
    <2>3. o = ask[c].org /\ ask[c].what = "on"
      BY <1>2, <1>f, <2>2 DEF TypeInv, TypeOK
    <2>4. pc'[c] = "done" /\ ask[c].kind = "setFlag"
      <3>1. ask[c].kind = "setFlag"
        BY <1>f, <2>1, Kinds DEF SaveFlag, Fits
      <3>2. Insert(c, ~found[c] /\ flag[ask[c].org] # "unset", "done")
        BY <2>1 DEF SaveFlag
      <3>3. Goto(c, "done")
        BY <2>2, <3>2 DEF Insert
      <3> QED BY <1>f, <3>1, <3>3 DEF Goto, TypeInv, TypeOK
    <2>5. Reaches(ask[c].by, ask[c].org, Lowest[ask[c].kind])'
      BY <1>f, <2>4 DEF GuardedInv, Frame
    <2>6. Reaches(ask[c].by, o, Lowest.setFlag)'
      BY <1>f, <2>3, <2>4, <2>5 DEF Frame, Reaches
    <2> QED BY <1>f, <2>3, <2>4, <2>6 DEF SwitchedOn, Frame
  <1> QED BY <1>1, <1>2

LEMMA PublishStep ==
    ASSUME TenantInv, FlagInv, PublishInv, NEW c \in Calls, Step(c) \/ Die(c)
    PROVE  PublishInv'
  <1>f. TypeInv /\ Frame(c)
    BY StepFrame DEF TenantInv, OwnedInv
  <1>0. /\ \A d \in Calls : ask[d].org \in Slugs
        /\ api \in [Slugs -> Slugs \cup {None}] /\ slug \in [Calls -> Slugs \cup {None}]
        /\ None \notin Slugs
    BY <1>f DEF TypeInv, TypeOK, Asks
  <1>1. \A d \in Calls : Published(d)' => ask[d].kind = "publish" /\ pc'[d] = "done"
    BY <1>f DEF Published, Frame
  <1>2. ASSUME NEW d \in Calls,
               pc'[d] \in {"assertType", "tryApi", "insertApi"} \/ (ask[d].kind = "publish" /\ pc'[d] = "done")
        PROVE  /\ SwitchedOn(ask[d].org)
               /\ pc'[d] # "assertType" => org[ask[d].org] = "publisher"
               /\ pc'[d] = "done" => slug'[d] \in Slugs /\ api'[slug'[d]] = ask[d].org
    <2>1. CASE d # c
      <3>1. pc'[d] = pc[d] /\ slug'[d] = slug[d]
        BY <1>f, <2>1 DEF Frame
      <3>2. /\ SwitchedOn(ask[d].org) /\ (pc[d] # "assertType" => org[ask[d].org] = "publisher")
            /\ pc[d] = "done" => slug[d] \in Slugs /\ api[slug[d]] = ask[d].org
        BY <1>2, <3>1 DEF PublishInv, Published
      <3>3. pc[d] = "done" => api'[slug[d]] = api[slug[d]]
        BY <1>0, <1>f, <3>2 DEF Frame
      <3> QED BY <3>1, <3>2, <3>3
    <2>2. CASE d = c /\ pc'[c] = "assertType"
      <3>1. \A step, ok, next : Check(c, step, ok, next) => pc'[c] = IF ok THEN next ELSE "refused"
        BY <1>f DEF Check, Goto, TypeInv, TypeOK
      <3>2. Feature(c)
        BY <1>f, <2>2, Route
      <3>3. flag[ask[c].org] = "on"
        BY <2>2, <3>1, <3>2 DEF Feature
      <3> QED BY <1>0, <2>2, <3>3 DEF FlagInv
    <2>3. CASE d = c /\ pc'[c] \in {"tryApi", "insertApi"}
      <3>1. \A step, ok, next : Check(c, step, ok, next) =>
               pc[c] = step /\ pc'[c] = IF ok THEN next ELSE "refused"
        BY <1>f DEF Check, Goto, TypeInv, TypeOK
      <3>2. AssertType(c) \/ TryApi(c)
        BY <1>f, <2>3, Route
      <3>3. CASE AssertType(c)
        BY <2>3, <3>1, <3>3 DEF AssertType, PublishInv
      <3>4. CASE TryApi(c)
        BY <2>3, <3>4 DEF TryApi, Try, PublishInv
      <3> QED BY <3>2, <3>3, <3>4
    <2>4. CASE d = c /\ ask[c].kind = "publish" /\ pc'[c] = "done"
      <3>1. InsertApi(c)
        BY <1>f, <2>4, Finishes
      <3>2. /\ pc[c] = "insertApi" /\ Candidate(c) \in Slugs
            /\ Insert(c, api[Candidate(c)] # None, "done")
        BY <1>f, <3>1, CandidateSlug DEF InsertApi
      <3>3. api[Candidate(c)] = None
        BY <1>f, <2>4, <3>2, InsertFrame
      <3>4. /\ api' = [api EXCEPT ![Candidate(c)] = ask[c].org]
            /\ slug' = [slug EXCEPT ![c] = Candidate(c)]
        BY <3>1, <3>3 DEF InsertApi
      <3>5. slug'[c] = Candidate(c) /\ api'[Candidate(c)] = ask[c].org
        BY <1>0, <3>2, <3>4
      <3> QED BY <2>4, <3>2, <3>5 DEF PublishInv
    <2> QED BY <1>2, <2>1, <2>2, <2>3, <2>4
  <1>3. ASSUME NEW d \in Calls
        PROVE  /\ (pc[d] \in {"assertType", "tryApi", "insertApi"} \/ Published(d))' => SwitchedOn(ask[d].org)'
               /\ (pc[d] \in {"tryApi", "insertApi"} \/ Published(d))' => (org[ask[d].org] = "publisher")'
               /\ Published(d)' => slug'[d] \in Slugs /\ api'[slug'[d]] = (ask[d].org)'
    <2>1. ask'[d] = ask[d] /\ ask[d].org \in Slugs
      BY <1>0, <1>f DEF Frame
    <2>2. SwitchedOn(ask[d].org) => SwitchedOn(ask[d].org)'
      <3>1. SwitchedOn(ask[d].org)' <=> \E e \in Calls :
               /\ ask'[e].kind = "setFlag" /\ ask'[e].org = ask[d].org
               /\ ask'[e].what = "on" /\ pc'[e] \in {"done", "died"}
               /\ Reaches(ask[e].by, ask[d].org, Lowest.setFlag)'
        BY <1>f, <2>1 DEF SwitchedOn, Frame, Reaches
      <3> QED BY <2>1, <3>1, Lasting DEF SwitchedOn
    <2>3. org[ask[d].org] = "publisher" => org'[ask[d].org] = "publisher"
      BY <1>f, <2>1 DEF Frame, Types
    <2> QED BY <1>1, <1>2, <2>1, <2>2, <2>3
  <1> QED BY <1>3 DEF PublishInv

\* An API that was published belongs to a publisher, was published by a member of
\* DEVELOPER rank and after an ADMIN had the feature switched on, whatever other
\* requests changed between the guards and the insert.
THEOREM Entitled == Spec => []PublishedByEntitled
  <1>1. Init => TenantInv /\ EntitledInv
    <2>1. Init => EntitledInv
      BY DEF Init, EntitledInv, GuardedInv, FlagInv, PublishInv, Published
    <2> QED BY <2>1, InitType, InitOwned DEF TenantInv
  <1>2. TenantInv /\ EntitledInv /\ [Next]_vars => TenantInv' /\ EntitledInv'
    <2> SUFFICES ASSUME TenantInv, EntitledInv, [Next]_vars PROVE EntitledInv'
      BY TenantStep
    <2>1. CASE Next
      BY <2>1, GuardedStep, FlagStep, PublishStep DEF Next, EntitledInv
    <2>2. CASE UNCHANGED vars
      <3>1. UNCHANGED <<ask, pc, role, flag, org, slug, api>>
        BY <2>2 DEF vars, tables, history
      <3>2. GuardedInv'
        BY <3>1 DEF EntitledInv, GuardedInv, Reaches
      <3>3. \A o : SwitchedOn(o)' <=> SwitchedOn(o)
        BY <3>1 DEF SwitchedOn, Reaches
      <3>4. FlagInv'
        BY <3>1, <3>3 DEF EntitledInv, FlagInv
      <3>5. \A c \in Calls : Published(c)' <=> Published(c)
        BY <3>1 DEF Published
      <3>6. \A c \in Calls : ask'[c] = ask[c]
        BY <3>1
      <3>7. PublishInv'
        BY <3>1, <3>3, <3>5, <3>6 DEF EntitledInv, PublishInv
      <3> QED BY <3>2, <3>4, <3>7 DEF EntitledInv
    <2> QED BY <2>1, <2>2
  <1>3. EntitledInv => PublishedByEntitled
    BY DEF EntitledInv, GuardedInv, PublishInv, Published, SwitchedOn, PublishedByEntitled, Lowest
  <1> QED BY <1>1, <1>2, <1>3, PTL DEF Spec

-----------------------------------------------------------------------------
(* Answers.                                                                *)

\* The calls that were over when one arrived are over.
BeforeInv == \A c \in Calls : \A d \in before[c] : pc[d] \in Ended

AnswersInv == BeforeInv /\ AnswersStand

\* A call notes what is over when it arrives, and no later.
LEMMA Arrivals ==
    ASSUME TypeInv, NEW c \in Calls, Step(c) \/ Die(c), NEW d \in Calls
    PROVE  \/ before'[d] = before[d]
           \/ d = c /\ pc[c] = "idle" /\ before'[d] = {e \in Calls : pc[e] \in Ended}
  <1>1. \A kinds, step : Arrive(c, kinds, step) =>
           \/ before'[d] = before[d]
           \/ d = c /\ pc[c] = "idle" /\ before'[d] = {e \in Calls : pc[e] \in Ended}
    BY DEF Arrive, TypeInv, TypeOK
  <1>2. CASE CheckEmail(c) \/ Create(c) \/ Guard(c)
    BY <1>1, <1>2 DEF CheckEmail, Create, Guard
  <1>3. CASE FindInvitee(c) \/ CheckMember(c) \/ Feature(c) \/ AssertType(c) \/ TrySlug(c) \/ TryApi(c)
    BY <1>3 DEF FindInvitee, CheckMember, Feature, AssertType, TrySlug, TryApi, Check, Try, history
  <1>4. CASE InsertUser(c) \/ InsertMember(c) \/ SaveFlag(c) \/ InsertApi(c) \/ InsertOrg(c)
    BY <1>4 DEF InsertUser, InsertMember, SaveFlag, InsertApi, InsertOrg, Insert
  <1>5. CASE FindFlag(c) \/ CreateApp(c) \/ Enqueue(c) \/ Die(c)
    BY <1>5 DEF FindFlag, CreateApp, Enqueue, Die, history
  <1> QED BY <1>2, <1>3, <1>4, <1>5 DEF Step

LEMMA BeforeStep ==
    ASSUME TenantInv, BeforeInv, NEW c \in Calls, Step(c) \/ Die(c)
    PROVE  BeforeInv'
  <1>f. TypeInv /\ Frame(c)
    BY StepFrame DEF TenantInv, OwnedInv
  <1>1. \A d \in Calls : pc[d] \in Ended => pc'[d] = pc[d]
    BY <1>f, Departs DEF Frame
  <1>2. \A d \in Calls : before'[d] = before[d] \/ before'[d] = {e \in Calls : pc[e] \in Ended}
    BY <1>f, Arrivals
  <1>3. \A d \in Calls : before[d] \subseteq Calls
    BY <1>f DEF TypeInv, TypeOK
  <1> SUFFICES ASSUME NEW d \in Calls, NEW e \in before'[d] PROVE pc'[e] \in Ended
    BY DEF BeforeInv, Ended
  <1>4. e \in Calls /\ pc[e] \in Ended
    <2>1. CASE before'[d] = before[d]
      BY <1>3, <2>1 DEF BeforeInv
    <2>2. CASE before'[d] = {x \in Calls : pc[x] \in Ended}
      BY <2>2
    <2> QED BY <1>2, <2>1, <2>2
  <1> QED BY <1>1, <1>4

\* The switch is as a call left it that was not over when d arrived.
LeftBy(d) ==
    \E e \in Calls : /\ ask[e].kind = "setFlag" /\ ask[e].org = ask[d].org /\ pc[e] \in {"done", "died"}
                     /\ flag[ask[d].org] = ask[e].what /\ e \notin before[d]

LEMMA AnswersLeft ==
    AnswersStand <=> \A d \in Calls : pc[d] = "done" =>
        /\ ask[d].kind = "invite" => role[ask[d].org][ask[d].whom] = ask[d].what
        /\ ask[d].kind = "setFlag" => LeftBy(d)
  BY DEF AnswersStand, LeftBy

LEMMA LeftStep ==
    ASSUME TenantInv, BeforeInv, NEW c \in Calls, Step(c) \/ Die(c), NEW d \in Calls,
           before'[d] = before[d],
           LeftBy(d) \/ (SaveFlag(c) /\ d = c /\ pc'[c] = "done")
    PROVE  LeftBy(d)'
  <1>f. TypeInv /\ Frame(c)
    BY StepFrame DEF TenantInv, OwnedInv
  <1>0. \A e \in Calls : ask[e].org \in Slugs
    BY <1>f DEF TypeInv, TypeOK, Asks
  <1>1. CASE SaveFlag(c) /\ pc'[c] = "done" /\ ask[c].org = ask[d].org
    <2>1. ask[c].kind = "setFlag" /\ c \notin before[d]
      BY <1>1, <1>f, Kinds, Departs DEF SaveFlag, Fits, BeforeInv
    <2>2. ~(~found[c] /\ flag[ask[c].org] # "unset")
      <3>1. Insert(c, ~found[c] /\ flag[ask[c].org] # "unset", "done")
        BY <1>1 DEF SaveFlag
      <3> QED BY <1>1, <1>f, <3>1, InsertFrame
    <2>3. flag'[ask[d].org] = ask[c].what
      BY <1>0, <1>1, <1>f, <2>2 DEF SaveFlag, TypeInv, TypeOK
    <2> QED BY <1>1, <1>f, <2>1, <2>3 DEF LeftBy, Frame
  <1>2. CASE LeftBy(d) /\ flag'[ask[d].org] = flag[ask[d].org]
    <2>1. PICK e \in Calls :
            /\ ask[e].kind = "setFlag" /\ ask[e].org = ask[d].org /\ pc[e] \in {"done", "died"}
            /\ flag[ask[d].org] = ask[e].what /\ e \notin before[d]
      BY <1>2 DEF LeftBy
    <2>2. e # c
      BY <2>1, Departs DEF Ended
    <2> QED BY <1>2, <1>f, <2>1, <2>2 DEF LeftBy, Frame
  <1>3. ~(SaveFlag(c) /\ pc'[c] = "done" /\ ask[c].org = ask[d].org) => flag'[ask[d].org] = flag[ask[d].org]
    <2>1. CASE Looks(c)
      BY <1>f, <2>1, LooksFrame DEF tables
    <2>2. CASE InsertUser(c) \/ InsertOrg(c) \/ CreateApp(c) \/ Enqueue(c) \/ InsertMember(c) \/ InsertApi(c)
      BY <2>2 DEF InsertUser, InsertOrg, CreateApp, Enqueue, InsertMember, InsertApi
    <2>3. CASE SaveFlag(c) /\ ask[c].org # ask[d].org
      BY <1>0, <1>f, <2>3 DEF SaveFlag, TypeInv, TypeOK
    <2>4. CASE SaveFlag(c) /\ pc'[c] # "done"
      <3>1. Insert(c, ~found[c] /\ flag[ask[c].org] # "unset", "done")
        BY <2>4 DEF SaveFlag
      <3>2. ~found[c] /\ flag[ask[c].org] # "unset"
        BY <1>f, <2>4, <3>1 DEF Insert, Goto, TypeInv, TypeOK
      <3> QED BY <2>4, <3>2 DEF SaveFlag
    <2> QED BY <2>1, <2>2, <2>3, <2>4 DEF Step, Looks
  <1> QED BY <1>1, <1>2, <1>3

LEMMA AnswersStep ==
    ASSUME TenantInv, AnswersInv, NEW c \in Calls, Step(c) \/ Die(c)
    PROVE  AnswersStand'
  <1>f. TypeInv /\ Frame(c) /\ BeforeInv
    BY StepFrame DEF TenantInv, OwnedInv, AnswersInv
  <1>0. \A d \in Calls : ask[d].org \in Slugs /\ ask[d].whom \in Emails /\ ask[d] \in Requests
    BY <1>f DEF TypeInv, TypeOK, AskInv, Asks
  <1> SUFFICES ASSUME NEW d \in Calls, pc'[d] = "done"
               PROVE  /\ ask[d].kind = "invite" => role'[ask[d].org][ask[d].whom] = ask[d].what
                      /\ ask[d].kind = "setFlag" => LeftBy(d)'
    <2>1. ask' = ask
      BY <1>f DEF Frame
    <2>2. AnswersStand' <=> \A d \in Calls : pc'[d] = "done" =>
             /\ ask'[d].kind = "invite" => role'[ask'[d].org][ask'[d].whom] = ask'[d].what
             /\ ask'[d].kind = "setFlag" => LeftBy(d)'
      BY DEF AnswersStand, LeftBy
    <2> QED BY <2>1, <2>2
  <1>1. d # c => pc[d] = "done"
    BY <1>f DEF Frame
  <1>2. ASSUME ask[d].kind = "invite" PROVE role'[ask[d].org][ask[d].whom] = ask[d].what
    <2>1. CASE d # c
      <3>1. role[ask[d].org][ask[d].whom] = ask[d].what
        BY <1>1, <1>2, <2>1, AnswersLeft DEF AnswersInv
      <3>2. ask[d].what # None
        BY <1>0, <1>2
      <3> QED BY <1>0, <1>f, <3>1, <3>2 DEF Frame
    <2>2. CASE d = c
      <3>1. InsertMember(c)
        BY <1>2, <1>f, <2>2, Finishes
      <3>2. Insert(c, role[ask[c].org][ask[c].whom] # None, "done")
        BY <3>1 DEF InsertMember
      <3>3. role[ask[c].org][ask[c].whom] = None
        BY <1>f, <2>2, <3>2, InsertFrame
      <3> QED BY <1>0, <1>f, <2>2, <3>1, <3>3 DEF InsertMember, TypeInv, TypeOK
    <2> QED BY <2>1, <2>2
  <1>3. ASSUME ask[d].kind = "setFlag" PROVE LeftBy(d)'
    <2>1. LeftBy(d) \/ (SaveFlag(c) /\ d = c)
      BY <1>1, <1>3, <1>f, AnswersLeft, Finishes DEF AnswersInv
    <2>2. before'[d] = before[d]
      <3>1. d = c => pc[c] # "idle"
        BY <1>3, <1>f, Finishes DEF SaveFlag
      <3> QED BY <1>f, <3>1, Arrivals
    <2> QED BY <1>f, <2>1, <2>2, LeftStep
  <1> QED BY <1>2, <1>3

\* What a request was answered stands: the role a member was invited with, and the
\* switch, unless a call that did not end before it has set it.
THEOREM Answers == Spec => []AnswersStand
  <1>1. Init => TenantInv /\ AnswersInv
    <2>1. Init => AnswersInv
      BY DEF Init, AnswersInv, BeforeInv, AnswersStand
    <2> QED BY <2>1, InitType, InitOwned DEF TenantInv
  <1>2. TenantInv /\ AnswersInv /\ [Next]_vars => TenantInv' /\ AnswersInv'
    <2> SUFFICES ASSUME TenantInv, AnswersInv, [Next]_vars PROVE AnswersInv'
      BY TenantStep
    <2>1. CASE Next
      BY <2>1, BeforeStep, AnswersStep DEF Next, AnswersInv
    <2>2. CASE UNCHANGED vars
      BY <2>2 DEF vars, tables, history, AnswersInv, BeforeInv, AnswersStand
    <2> QED BY <2>1, <2>2
  <1>3. AnswersInv => AnswersStand
    BY DEF AnswersInv
  <1> QED BY <1>1, <1>2, <1>3, PTL DEF Spec

-----------------------------------------------------------------------------
(* Registration.                                                           *)

\* A registration that has its user row, and one that has its workspace.
HasUser(c) ==
    ask[c].kind = "register" /\ pc[c] \in {"trySlug", "insertOrg", "createApp", "enqueue", "done"}
HasOrg(c) == ask[c].kind = "register" /\ pc[c] \in {"createApp", "enqueue", "done"}

\* What a registration has made.
MadeInv ==
    \A c \in Calls :
        /\ HasUser(c) => ask[c].by \in users
        /\ HasOrg(c) => /\ slug[c] \in Slugs /\ org[slug[c]] = ask[c].what
                        /\ role[slug[c]][ask[c].by] = "owner"
        /\ HasOrg(c) /\ pc[c] = "createApp" => ask[c].what = "subscriber"
        /\ HasOrg(c) /\ pc[c] # "createApp" /\ ask[c].what = "subscriber" => slug[c] \in apps
        /\ HasOrg(c) /\ pc[c] = "done" => ask[c].by \in mails

AppsInv == \A s \in apps : org[s] = "subscriber"

\* The address is taken by one registration.
OnceInv == \A c, d \in Calls : HasUser(c) /\ HasUser(d) /\ ask[c].by = ask[d].by => c = d

\* An account has a workspace, or a registration that is under way or broke off.
Housed(u) == \/ \E s \in Slugs : role[s][u] = "owner"
             \/ \E c \in Calls : /\ ask[c].kind = "register" /\ ask[c].by = u
                                 /\ c \in Busy \/ pc[c] \in {"failed", "died"}
HousedInv == \A u \in users : Housed(u)

RegisterInv == MadeInv /\ AppsInv /\ OnceInv /\ HousedInv

\* How a registration comes to have its user row, and its workspace.
LEMMA Milestones ==
    ASSUME TypeInv, OwnedByOne, NEW c \in Calls, Step(c) \/ Die(c)
    PROVE  /\ HasUser(c)' => HasUser(c) \/ (InsertUser(c) /\ ask[c].by \notin users)
           /\ HasOrg(c)' => HasOrg(c) \/ (InsertOrg(c) /\ org[Candidate(c)] = None)
  <1>f. Frame(c)
    BY StepFrame
  <1>1. ASSUME HasUser(c)' PROVE HasUser(c) \/ (InsertUser(c) /\ ask[c].by \notin users)
    <2>0. ask[c].kind = "register" /\ pc'[c] \in {"trySlug", "insertOrg", "createApp", "enqueue", "done"}
      BY <1>1, <1>f DEF HasUser, Frame
    <2>1. \/ InsertUser(c) \/ Create(c) \/ TrySlug(c) \/ InsertOrg(c) \/ CreateApp(c) \/ Enqueue(c)
      BY <2>0, Route, Finishes
    <2>2. ~Create(c)
      BY <2>0 DEF Create, Arrive
    <2>3. /\ TrySlug(c) => pc[c] = "trySlug"
          /\ InsertOrg(c) => pc[c] = "insertOrg"
          /\ CreateApp(c) => pc[c] = "createApp"
          /\ Enqueue(c) => pc[c] = "enqueue"
      BY DEF TrySlug, Try, InsertOrg, CreateApp, Enqueue
    <2>4. InsertUser(c) => ask[c].by \notin users
      BY <2>0 DEF InsertUser, Insert, Goto, TypeInv, TypeOK
    <2> QED BY <2>0, <2>1, <2>2, <2>3, <2>4 DEF HasUser
  <1>2. ASSUME HasOrg(c)' PROVE HasOrg(c) \/ (InsertOrg(c) /\ org[Candidate(c)] = None)
    <2>0. ask[c].kind = "register" /\ pc'[c] \in {"createApp", "enqueue", "done"}
      BY <1>2, <1>f DEF HasOrg, Frame
    <2>1. InsertOrg(c) \/ CreateApp(c) \/ Enqueue(c)
      BY <2>0, Route, Finishes
    <2>2. /\ CreateApp(c) => pc[c] = "createApp"
          /\ Enqueue(c) => pc[c] = "enqueue"
      BY DEF CreateApp, Enqueue
    <2>3. InsertOrg(c) => org[Candidate(c)] = None
      <3> SUFFICES ASSUME InsertOrg(c), org[Candidate(c)] # None PROVE FALSE
        OBVIOUS
      <3>1. PICK next : Insert(c, org[Candidate(c)] # None, next)
        BY DEF InsertOrg
      <3> QED BY <2>0, <3>1 DEF Insert, Goto, TypeInv, TypeOK
    <2> QED BY <2>0, <2>1, <2>2, <2>3 DEF HasOrg
  <1> QED BY <1>1, <1>2

LEMMA AppsStep ==
    ASSUME TenantInv, MadeInv, AppsInv, NEW c \in Calls, Step(c) \/ Die(c)
    PROVE  AppsInv'
  <1>f. TypeInv /\ Frame(c)
    BY StepFrame DEF TenantInv, OwnedInv
  <1>0. \A s \in apps : s \in Slugs /\ org'[s] = org[s]
    BY <1>f DEF AppsInv, Frame, TypeInv, TypeOK, Types
  <1>1. CASE CreateApp(c)
    <2>1. HasOrg(c) /\ pc[c] = "createApp" /\ org' = org /\ apps' = apps \cup {slug[c]}
      BY <1>1, <1>f, Kinds DEF CreateApp, HasOrg, Fits
    <2>2. org[slug[c]] = "subscriber"
      BY <2>1 DEF MadeInv
    <2> QED BY <2>1, <2>2 DEF AppsInv
  <1>2. CASE apps' = apps
    BY <1>0, <1>2 DEF AppsInv
  <1>3. ~CreateApp(c) => apps' = apps
    <2>1. CASE Looks(c)
      BY <1>f, <2>1, LooksFrame DEF tables
    <2>2. CASE InsertUser(c) \/ InsertOrg(c) \/ Enqueue(c) \/ InsertMember(c) \/ SaveFlag(c) \/ InsertApi(c)
      BY <2>2 DEF InsertUser, InsertOrg, Enqueue, InsertMember, SaveFlag, InsertApi
    <2> QED BY <2>1, <2>2 DEF Step, Looks
  <1> QED BY <1>1, <1>2, <1>3

LEMMA OnceStep ==
    ASSUME TenantInv, MadeInv, OnceInv, NEW c \in Calls, Step(c) \/ Die(c)
    PROVE  OnceInv'
  <1>f. TypeInv /\ OwnedByOne /\ Frame(c)
    BY StepFrame DEF TenantInv, OwnedInv
  <1>1. \A d \in Calls \ {c} : HasUser(d)' => HasUser(d)
    BY <1>f DEF HasUser, Frame
  <1>2. HasUser(c)' => HasUser(c) \/ ask[c].by \notin users
    BY <1>f, Milestones
  <1>3. \A d \in Calls : HasUser(d) => ask[d].by \in users
    BY DEF MadeInv
  <1>4. ASSUME NEW d \in Calls, NEW e \in Calls, HasUser(d)', HasUser(e)', ask[d].by = ask[e].by
        PROVE  d = e
    <2>1. CASE HasUser(d) /\ HasUser(e)
      BY <1>4, <2>1 DEF OnceInv
    <2>2. CASE ~HasUser(d)
      BY <1>1, <1>2, <1>3, <1>4, <2>2
    <2>3. CASE ~HasUser(e)
      BY <1>1, <1>2, <1>3, <1>4, <2>3
    <2> QED BY <2>1, <2>2, <2>3
  <1> QED BY <1>f, <1>4 DEF OnceInv, Frame

\* MadeInv for a call, with the values after a step.
MadeAfter(d) ==
    /\ HasUser(d)' => ask[d].by \in users'
    /\ HasOrg(d)' => /\ slug'[d] \in Slugs /\ org'[slug'[d]] = ask[d].what
                     /\ role'[slug'[d]][ask[d].by] = "owner"
                     /\ pc'[d] = "createApp" => ask[d].what = "subscriber"
                     /\ pc'[d] # "createApp" /\ ask[d].what = "subscriber" => slug'[d] \in apps'
                     /\ pc'[d] = "done" => ask[d].by \in mails'

LEMMA MadeByOthers ==
    ASSUME TenantInv, MadeInv, NEW c \in Calls, Frame(c), NEW d \in Calls \ {c}
    PROVE  MadeAfter(d)
  <1>1. pc'[d] = pc[d] /\ slug'[d] = slug[d] /\ ask'[d] = ask[d]
    BY DEF Frame
  <1>2. HasUser(d)' <=> HasUser(d)
    BY <1>1 DEF HasUser
  <1>3. HasOrg(d)' <=> HasOrg(d)
    BY <1>1 DEF HasOrg
  <1>4. HasUser(d)' => ask[d].by \in users'
    BY <1>2 DEF MadeInv, Frame
  <1>5. ASSUME HasOrg(d)
        PROVE  /\ slug[d] \in Slugs /\ org'[slug[d]] = ask[d].what
               /\ role'[slug[d]][ask[d].by] = "owner"
    <2>1. /\ slug[d] \in Slugs /\ org[slug[d]] = ask[d].what
          /\ role[slug[d]][ask[d].by] = "owner" /\ ask[d].by \in Emails
      BY <1>5 DEF MadeInv, TenantInv, TypeInv, TypeOK, Asks
    <2>2. ask[d].what # None
      BY <1>5 DEF HasOrg, TenantInv, TypeInv, AskInv
    <2>3. None # "owner"
      BY DEF Roles
    <2> QED BY <2>1, <2>2, <2>3 DEF Frame
  <1> QED BY <1>1, <1>3, <1>4, <1>5 DEF MadeAfter, MadeInv, Frame

LEMMA MadeStep ==
    ASSUME TenantInv, MadeInv, NEW c \in Calls, Step(c) \/ Die(c)
    PROVE  MadeInv'
  <1>f. TypeInv /\ OwnedByOne /\ Frame(c)
    BY StepFrame DEF TenantInv, OwnedInv
  <1>0. /\ ask[c].by \in Emails /\ org \in [Slugs -> Types \cup {None}] /\ slug \in [Calls -> Slugs \cup {None}]
        /\ role \in [Slugs -> [Emails -> Roles \cup {None}]]
    BY <1>f DEF TypeInv, TypeOK, Asks
  <1>1. MadeAfter(c)
    <2>1. HasUser(c)' => ask[c].by \in users'
      <3>1. HasUser(c) => ask[c].by \in users'
        BY <1>f DEF MadeInv, Frame
      <3>2. InsertUser(c) => ask[c].by \in users'
        BY DEF InsertUser
      <3> QED BY <1>f, <3>1, <3>2, Milestones
    <2> SUFFICES ASSUME HasOrg(c)'
                 PROVE  /\ slug'[c] \in Slugs /\ org'[slug'[c]] = ask[c].what
                        /\ role'[slug'[c]][ask[c].by] = "owner"
                        /\ pc'[c] = "createApp" => ask[c].what = "subscriber"
                        /\ pc'[c] # "createApp" /\ ask[c].what = "subscriber" => slug'[c] \in apps'
                        /\ pc'[c] = "done" => ask[c].by \in mails'
      BY <2>1 DEF MadeAfter
    <2>2. ask[c].kind = "register" /\ pc'[c] \in {"createApp", "enqueue", "done"}
      BY <1>f DEF HasOrg, Frame
    <2>3. CASE InsertOrg(c)
      <3> DEFINE s == Candidate(c)
      <3>1. s \in Slugs /\ org[s] = None
        BY <1>f, <2>3, CandidateSlug, Milestones DEF InsertOrg, HasOrg
      <3>2. /\ org' = [org EXCEPT ![s] = ask[c].what]
            /\ role' = [role EXCEPT ![s] = [role[s] EXCEPT ![ask[c].by] = "owner"]]
            /\ slug' = [slug EXCEPT ![c] = s]
            /\ pc'[c] = IF ask[c].what = "subscriber" THEN "createApp" ELSE "enqueue"
        <4>1. Insert(c, org[s] # None, IF ask[c].kind = "create" THEN "done"
                                       ELSE IF ask[c].what = "subscriber" THEN "createApp"
                                       ELSE "enqueue")
          BY <2>3 DEF InsertOrg
        <4>2. Goto(c, IF ask[c].what = "subscriber" THEN "createApp" ELSE "enqueue")
          BY <2>2, <3>1, <4>1 DEF Insert
        <4>3. pc'[c] = IF ask[c].what = "subscriber" THEN "createApp" ELSE "enqueue"
          BY <1>f, <4>2 DEF Goto, TypeInv, TypeOK
        <4> QED BY <2>3, <3>1, <4>3 DEF InsertOrg
      <3> HIDE DEF s
      <3>3. slug'[c] = s /\ org'[s] = ask[c].what /\ role'[s][ask[c].by] = "owner"
        BY <1>0, <3>1, <3>2
      <3> QED BY <3>1, <3>2, <3>3
    <2>4. CASE CreateApp(c)
      <3>1. HasOrg(c) /\ slug' = slug /\ org' = org /\ role' = role /\ pc'[c] = "enqueue"
            /\ apps' = apps \cup {slug[c]}
        BY <1>f, <2>2, <2>4 DEF CreateApp, HasOrg, Goto, TypeInv, TypeOK
      <3> QED BY <3>1 DEF MadeInv
    <2>5. CASE Enqueue(c)
      <3>1. HasOrg(c) /\ pc[c] = "enqueue" /\ slug' = slug /\ org' = org /\ role' = role /\ apps' = apps
            /\ pc'[c] = "done" /\ mails' = mails \cup {ask[c].by}
        BY <1>f, <2>2, <2>5 DEF Enqueue, HasOrg, Goto, TypeInv, TypeOK
      <3> QED BY <3>1 DEF MadeInv
    <2>6. InsertOrg(c) \/ CreateApp(c) \/ Enqueue(c)
      BY <1>f, <2>2, Route, Finishes
    <2> QED BY <2>3, <2>4, <2>5, <2>6
  <1>2. \A d \in Calls : MadeAfter(d) /\ ask'[d] = ask[d]
    BY <1>1, <1>f, MadeByOthers DEF Frame
  <1>3. \A d \in Calls : /\ HasUser(d)' <=> (ask[d].kind = "register"
                               /\ pc'[d] \in {"trySlug", "insertOrg", "createApp", "enqueue", "done"})
                         /\ HasOrg(d)' <=> (ask[d].kind = "register"
                               /\ pc'[d] \in {"createApp", "enqueue", "done"})
    BY <1>2 DEF HasUser, HasOrg
  <1> QED BY <1>2, <1>3 DEF MadeInv, MadeAfter, HasUser, HasOrg

LEMMA HousedStep ==
    ASSUME TenantInv, MadeInv', HousedInv, NEW c \in Calls, Step(c) \/ Die(c)
    PROVE  HousedInv'
  <1>f. TypeInv /\ Frame(c)
    BY StepFrame DEF TenantInv, OwnedInv
  <1> SUFFICES ASSUME NEW u \in users' PROVE Housed(u)'
    BY DEF HousedInv
  <1>1. CASE u \notin users
    <2>1. InsertUser(c) /\ u = ask[c].by
      <3>1. CASE Looks(c)
        BY <1>f, <1>1, <3>1, LooksFrame DEF tables
      <3>2. CASE InsertOrg(c) \/ CreateApp(c) \/ Enqueue(c) \/ InsertMember(c) \/ SaveFlag(c) \/ InsertApi(c)
        BY <1>1, <3>2 DEF InsertOrg, CreateApp, Enqueue, InsertMember, SaveFlag, InsertApi
      <3>3. CASE InsertUser(c)
        BY <1>1, <3>3 DEF InsertUser
      <3> QED BY <3>1, <3>2, <3>3 DEF Step, Looks
    <2>2. ask[c].kind = "register" /\ pc'[c] \in {"trySlug", "failed"}
      BY <1>f, <2>1, Kinds DEF InsertUser, Insert, Goto, TypeInv, TypeOK, Fits
    <2> QED BY <1>f, <2>1, <2>2 DEF Housed, Frame, Busy, Ended
  <1>2. CASE u \in users /\ \E s \in Slugs : role[s][u] = "owner"
    <2>1. u \in Emails /\ None # "owner"
      BY <1>2, <1>f DEF TypeInv, TypeOK, Roles
    <2> QED BY <1>2, <1>f, <2>1 DEF Housed, Frame
  <1>3. CASE \E d \in Calls : /\ ask[d].kind = "register" /\ ask[d].by = u
                              /\ d \in Busy \/ pc[d] \in {"failed", "died"}
    <2>1. PICK d \in Calls : /\ ask[d].kind = "register" /\ ask[d].by = u
                             /\ d \in Busy \/ pc[d] \in {"failed", "died"}
      BY <1>3
    <2>2. ask'[d] = ask[d]
      BY <1>f DEF Frame
    <2>3. CASE d # c
      BY <1>f, <2>1, <2>2, <2>3 DEF Housed, Frame, Busy, Ended
    <2>4. CASE d = c /\ pc'[c] \notin {"refused", "done"}
      <3>1. pc'[c] # "idle"
        BY <1>f, Route
      <3> QED BY <2>1, <2>2, <2>4, <3>1 DEF Housed, Busy, Ended
    <2>5. CASE d = c /\ pc'[c] = "done"
      <3>1. HasOrg(c)' /\ ask' = ask
        BY <1>f, <2>1, <2>2, <2>5 DEF HasOrg, Frame
      <3>2. slug'[c] \in Slugs /\ role'[slug'[c]][u] = "owner"
        BY <2>1, <2>5, <3>1 DEF MadeInv
      <3> QED BY <3>2 DEF Housed
    <2>6. ~(d = c /\ pc'[c] = "refused")
      <3> SUFFICES ASSUME d = c, pc'[c] = "refused" PROVE FALSE
        OBVIOUS
      <3>1. pc[c] \notin {"idle", "findInvitee", "checkMember", "feature", "assertType"}
        BY <1>f, <2>1, Kinds DEF Busy, Fits
      <3>2. \/ InsertUser(c) \/ TrySlug(c) \/ InsertOrg(c) \/ CreateApp(c) \/ Enqueue(c) \/ InsertMember(c)
            \/ FindFlag(c) \/ SaveFlag(c) \/ TryApi(c) \/ InsertApi(c) \/ Die(c)
        BY <3>1 DEF Step, CheckEmail, Create, Guard, Arrive, FindInvitee, CheckMember, Feature,
                    AssertType, Check
      <3>3. \A step : Goto(c, step) => step = "refused"
        BY <1>f DEF Goto, TypeInv, TypeOK
      <3>4. ~InsertOrg(c)
        BY <1>f, InsertFrame DEF InsertOrg
      <3>5. ~(InsertUser(c) \/ InsertMember(c) \/ SaveFlag(c) \/ InsertApi(c))
        BY <3>3 DEF InsertUser, InsertMember, SaveFlag, InsertApi, Insert
      <3>6. ~(CreateApp(c) \/ Enqueue(c) \/ FindFlag(c) \/ Die(c))
        BY <1>f DEF CreateApp, Enqueue, FindFlag, Die, Goto, TypeInv, TypeOK
      <3>7. ~(TrySlug(c) \/ TryApi(c))
        BY <1>f DEF TrySlug, TryApi, Try, Goto, TypeInv, TypeOK
      <3> QED BY <3>2, <3>4, <3>5, <3>6, <3>7
    <2> QED BY <2>3, <2>4, <2>5, <2>6
  <1> QED BY <1>1, <1>2, <1>3 DEF HousedInv, Housed

\* An answered registration has left the account, the workspace asked for, a
\* default application in a subscriber's, and a welcome e-mail; no address is
\* registered twice, and an account without a workspace is one whose
\* registration is under way or broke off.
THEOREM RegisteredWhole == Spec => []RegistrationIsWhole
  <1>1. Init => TenantInv /\ RegisterInv
    <2> SUFFICES ASSUME Init PROVE RegisterInv
      BY InitType, InitOwned DEF TenantInv
    <2>1. MadeInv /\ OnceInv
      BY DEF Init, MadeInv, OnceInv, HasUser, HasOrg
    <2>2. AppsInv
      BY DEF Init, AppsInv
    <2>3. HousedInv
      <3> SUFFICES ASSUME NEW u \in users PROVE Housed(u)
        BY DEF HousedInv
      <3>1. PICK s \in Slugs : Founders[s] = u
        BY DEF Init
      <3>2. u \in Emails
        BY InitType DEF TypeInv, TypeOK
      <3> QED BY <3>1, <3>2 DEF Init, Housed
    <2> QED BY <2>1, <2>2, <2>3 DEF RegisterInv
  <1>2. TenantInv /\ RegisterInv /\ [Next]_vars => TenantInv' /\ RegisterInv'
    <2> SUFFICES ASSUME TenantInv, RegisterInv, [Next]_vars PROVE RegisterInv'
      BY TenantStep
    <2>1. CASE Next
      BY <2>1, MadeStep, AppsStep, OnceStep, HousedStep DEF Next, RegisterInv
    <2>2. CASE UNCHANGED vars
      BY <2>2 DEF vars, tables, history, RegisterInv, MadeInv, AppsInv, OnceInv, HousedInv, Housed,
                  HasUser, HasOrg, Busy
    <2> QED BY <2>1, <2>2
  <1>3. TenantInv /\ RegisterInv => RegistrationIsWhole
    <2> SUFFICES ASSUME TenantInv, RegisterInv PROVE RegistrationIsWhole
      OBVIOUS
    <2> DEFINE Registering(u) == {c \in Calls : ask[c].kind = "register" /\ ask[c].by = u}
    <2>1. ASSUME NEW u \in Emails, NEW c \in Registering(u), NEW d \in Registering(u), pc[c] = "done"
          PROVE  /\ Made(c) /\ u \in mails
                 /\ slug[c] \in apps <=> ask[c].what = "subscriber"
                 /\ pc[d] = "done" => c = d
      <3>1. HasUser(c) /\ HasOrg(c) /\ (pc[d] = "done" => HasUser(d))
        BY <2>1 DEF HasUser, HasOrg
      <3>2. /\ ask[c].by \in users /\ slug[c] \in Slugs /\ org[slug[c]] = ask[c].what
            /\ role[slug[c]][ask[c].by] = "owner"
            /\ ask[c].what = "subscriber" => slug[c] \in apps
            /\ ask[c].by \in mails
        BY <2>1, <3>1 DEF RegisterInv, MadeInv
      <3>3. slug[c] \in apps => ask[c].what = "subscriber"
        BY <3>2 DEF RegisterInv, AppsInv
      <3> QED BY <2>1, <3>1, <3>2, <3>3 DEF RegisterInv, OnceInv, Made
    <2>2. ASSUME NEW u \in users
          PROVE  \/ \E s \in Slugs : role[s][u] = "owner"
                 \/ \E c \in Registering(u) : c \in Busy \/ pc[c] \in {"failed", "died"}
      BY <2>2 DEF RegisterInv, HousedInv, Housed
    <2> QED BY <2>1, <2>2 DEF RegistrationIsWhole
  <1> QED BY <1>1, <1>2, <1>3, PTL DEF Spec
=============================================================================
