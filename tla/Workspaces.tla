----------------------------- MODULE Workspaces -----------------------------
(***************************************************************************)
(* Accounts and tenants: registration (auth/auth.service.ts), creation of  *)
(* organizations and invitations (organizations/organizations.service.ts), *)
(* the switch of a feature (feature-flags/feature-flags.service.ts), and   *)
(* the publication of an API, which needs a member, a feature and the      *)
(* right type of organization (marketplace/marketplace.service.ts).        *)
(*                                                                         *)
(* A step is what happens between two awaits; a transaction is one step.   *)
(* An organization is known by its slug and a user by the e-mail address:  *)
(* both are unique and never change.                                       *)
(***************************************************************************)
EXTENDS Integers, Sequences

CONSTANTS
    Calls,          \* HTTP requests, numbered as they arrive
    Requests,       \* what they may ask
    Emails, Names, Slugs, None,
    Candidates,     \* the slugs tried for a name, in order; bound: as many as there are
    Founders,       \* the owners of the workspaces made before, None where there is none
    FoundedAs,      \* the types of those
    Crashable       \* calls that may throw or die between two awaits

Types == {"publisher", "subscriber"}
Roles == {"viewer", "developer", "admin", "owner"}
ROLE_RANK == [viewer |-> 0, developer |-> 1, admin |-> 2, owner |-> 3]

\* what: the type, the role or the switch asked for.
Asks == [kind : {"register", "create", "invite", "setFlag", "publish"}, by : Emails, name : Names,
         org : Slugs, whom : Emails, what : Types \cup Roles \cup {"on", "off"}]

ASSUME CallsAssumption == Calls \subseteq Nat /\ Crashable \subseteq Calls
ASSUME RequestsAssumption ==
    /\ Requests \subseteq Asks
    /\ \A a \in Requests :
          /\ a.kind \in {"register", "create"} => a.what \in Types
          /\ a.kind = "invite" => a.what \in Roles
          /\ a.kind = "setFlag" => a.what \in {"on", "off"}
ASSUME NamesAssumption ==
    /\ Candidates \in [Names -> Seq(Slugs) \ {<<>>}]
    /\ None \notin Slugs \cup Emails \cup Types \cup Roles
ASSUME FoundersAssumption == /\ Founders \in [Slugs -> Emails \cup {None}]
                             /\ FoundedAs \in [Slugs -> Types]

VARIABLES
    users,    \* the users rows
    org,      \* the organizations rows: the type of each, None for no row
    role,     \* the organization_members rows, None for no row
    apps,     \* the organizations with a default application
    mails,    \* the users with a welcome e-mail on the queue
    flag,     \* the feature_flags rows of api_marketplace
    api,      \* the apis rows: the owner of each
    ask,      \* what each call asks
    pc,       \* where it is
    tries,    \* the candidate it tries
    slug,     \* the slug of the row it made
    found,    \* whether it has found a row to update
    before,   \* history: the calls that were over when it arrived
    beaten    \* history: the calls during which another one wrote a row

tables  == <<users, org, role, apps, mails, flag, api>>
history == <<before, beaten>>
vars    == <<tables, ask, pc, tries, slug, found, history>>

Init ==
    /\ users = {Founders[s] : s \in Slugs} \ {None}
    /\ org = [s \in Slugs |-> IF Founders[s] = None THEN None ELSE FoundedAs[s]]
    /\ role = [s \in Slugs |-> [u \in Emails |-> IF Founders[s] = u THEN "owner" ELSE None]]
    /\ apps = {s \in Slugs : org[s] = "subscriber"}
    /\ mails = users
    /\ flag = [s \in Slugs |-> "unset"]
    /\ api = [s \in Slugs |-> None]
    /\ ask \in [Calls -> Requests]
    /\ pc = [c \in Calls |-> "idle"]
    /\ tries = [c \in Calls |-> 1]
    /\ slug = [c \in Calls |-> None]
    /\ found = [c \in Calls |-> FALSE]
    /\ before = [c \in Calls |-> {}]
    /\ beaten = {}

Ended == {"done", "refused", "failed", "died"}
Busy == {c \in Calls : pc[c] \notin {"idle"} \cup Ended}

Goto(c, step) == pc' = [pc EXCEPT ![c] = step]

Arrive(c, kinds, step) ==
    /\ pc[c] = "idle" /\ ask[c].kind \in kinds
    /\ \A d \in Calls : d < c => pc[d] # "idle"
    /\ Goto(c, step)
    /\ before' = [before EXCEPT ![c] = {d \in Calls : pc[d] \in Ended}]
    /\ UNCHANGED <<tables, ask, tries, slug, found, beaten>>

\* A row is written unless it would be a second one under a unique index (clash).
Insert(c, clash, next) ==
    /\ Goto(c, IF clash THEN "failed" ELSE next)
    /\ beaten' = IF clash THEN beaten ELSE beaten \cup (Busy \ {c})
    /\ UNCHANGED <<ask, tries, found, before>>

-----------------------------------------------------------------------------
(* Registration and new organizations.                                     *)

\* register(): a known address is refused (409).
CheckEmail(c) == Arrive(c, {"register"}, IF ask[c].by \in users THEN "refused" ELSE "insertUser")

\* Slip: addresses have no unique index.
InsertUserAgain(c) ==
    /\ pc[c] = "insertUser"
    /\ Insert(c, FALSE, "trySlug")
    /\ users' = users \cup {ask[c].by}
    /\ UNCHANGED <<org, role, apps, mails, flag, api, slug>>

InsertUser(c) ==
    /\ pc[c] = "insertUser"
    /\ Insert(c, ask[c].by \in users, "trySlug")
    /\ users' = users \cup {ask[c].by}
    /\ UNCHANGED <<org, role, apps, mails, flag, api, slug>>

\* POST /organizations: any user may.
Create(c) == ask[c].by \in users /\ Arrive(c, {"create"}, "trySlug")

\* The candidate of the loop in generateUniqueSlug and in uniqueSlug.
Candidate(c) == Candidates[ask[c].name][tries[c]]

\* Slip: the counter stays.
TrySame(c, step, taken, next) ==
    /\ pc[c] = step
    /\ IF taken THEN UNCHANGED <<pc, tries>> ELSE Goto(c, next) /\ UNCHANGED tries
    /\ UNCHANGED <<tables, ask, slug, found, history>>

Try(c, step, taken, next) ==
    /\ pc[c] = step
    /\ IF taken THEN /\ tries[c] < Len(Candidates[ask[c].name])
                     /\ tries' = [tries EXCEPT ![c] = @ + 1] /\ UNCHANGED pc
       ELSE Goto(c, next) /\ UNCHANGED tries
    /\ UNCHANGED <<tables, ask, slug, found, history>>

\* Slip: the first candidate is taken as it is.
TrySlugFirst(c) == Try(c, "trySlug", FALSE, "insertOrg")

TrySlug(c) == Try(c, "trySlug", org[Candidate(c)] # None, "insertOrg")

\* The transaction of create(): the organization and its OWNER.
InsertOrg(c) ==
    LET s == Candidate(c)
    IN  /\ pc[c] = "insertOrg"
        /\ Insert(c, org[s] # None, IF ask[c].kind = "create" THEN "done"
                                    ELSE IF ask[c].what = "subscriber" THEN "createApp"
                                    ELSE "enqueue")
        /\ IF org[s] # None THEN UNCHANGED <<org, role, slug>>
           ELSE /\ org' = [org EXCEPT ![s] = ask[c].what]
                /\ role' = [role EXCEPT ![s][ask[c].by] = "owner"]
                /\ slug' = [slug EXCEPT ![c] = s]
        /\ UNCHANGED <<users, apps, mails, flag, api>>

CreateApp(c) ==
    /\ pc[c] = "createApp"
    /\ Goto(c, "enqueue")
    /\ apps' = apps \cup {slug[c]}
    /\ UNCHANGED <<users, org, role, mails, flag, api, ask, tries, slug, found, history>>

\* Slip: the name where the address belongs.
EnqueueName(c) ==
    /\ pc[c] = "enqueue"
    /\ Goto(c, "done")
    /\ mails' = mails \cup {ask[c].name}
    /\ UNCHANGED <<users, org, role, apps, flag, api, ask, tries, slug, found, history>>

Enqueue(c) ==
    /\ pc[c] = "enqueue"
    /\ Goto(c, "done")
    /\ mails' = mails \cup {ask[c].by}
    /\ UNCHANGED <<users, org, role, apps, flag, api, ask, tries, slug, found, history>>

-----------------------------------------------------------------------------
(* Requests about an organization.                                         *)

\* The @Roles of the routes.
Lowest == [invite |-> "admin", setFlag |-> "admin", publish |-> "developer"]

Reaches(u, o, lowest) == role[o][u] # None /\ ROLE_RANK[role[o][u]] >= ROLE_RANK[lowest]

\* Slip: an OWNER may be invited.
GuardOwners(c) ==
    /\ ask[c].by \in users
    /\ Arrive(c, {"invite", "setFlag", "publish"},
              IF ~Reaches(ask[c].by, ask[c].org, Lowest[ask[c].kind]) THEN "refused"
              ELSE CASE ask[c].kind = "invite"  -> "findInvitee"
                     [] ask[c].kind = "setFlag" -> "findFlag"
                     [] ask[c].kind = "publish" -> "feature")

\* JwtStrategy.validate and OrgRolesGuard; then nobody is made an OWNER (403).
Guard(c) ==
    /\ ask[c].by \in users
    /\ Arrive(c, {"invite", "setFlag", "publish"},
              IF \/ ~Reaches(ask[c].by, ask[c].org, Lowest[ask[c].kind])
                 \/ ask[c].kind = "invite" /\ ask[c].what = "owner"
              THEN "refused"
              ELSE CASE ask[c].kind = "invite"  -> "findInvitee"
                     [] ask[c].kind = "setFlag" -> "findFlag"
                     [] ask[c].kind = "publish" -> "feature")

\* A check that leaves the tables alone.
Check(c, step, ok, next) ==
    /\ pc[c] = step
    /\ Goto(c, IF ok THEN next ELSE "refused")
    /\ UNCHANGED <<tables, ask, tries, slug, found, history>>

\* addMember()
FindInvitee(c) == Check(c, "findInvitee", ask[c].whom \in users, "checkMember")
CheckMember(c) == Check(c, "checkMember", role[ask[c].org][ask[c].whom] = None, "insertMember")

\* Slip: a row that is there is saved over.
InsertMemberOver(c) ==
    /\ pc[c] = "insertMember"
    /\ Insert(c, FALSE, "done")
    /\ role' = [role EXCEPT ![ask[c].org][ask[c].whom] = ask[c].what]
    /\ UNCHANGED <<users, org, apps, mails, flag, api, slug>>

InsertMember(c) ==
    LET o == ask[c].org
        u == ask[c].whom
    IN  /\ pc[c] = "insertMember"
        /\ Insert(c, role[o][u] # None, "done")
        /\ role' = IF role[o][u] # None THEN role ELSE [role EXCEPT ![o][u] = ask[c].what]
        /\ UNCHANGED <<users, org, apps, mails, flag, api, slug>>

\* FeatureFlagsService.set()
FindFlag(c) ==
    /\ pc[c] = "findFlag"
    /\ Goto(c, "saveFlag")
    /\ found' = [found EXCEPT ![c] = flag[ask[c].org] # "unset"]
    /\ UNCHANGED <<tables, ask, tries, slug, history>>

\* A row that was found is updated, else one is inserted.
SaveFlag(c) ==
    LET o == ask[c].org
        clash == ~found[c] /\ flag[o] # "unset"
    IN  /\ pc[c] = "saveFlag"
        /\ Insert(c, clash, "done")
        /\ flag' = IF clash THEN flag ELSE [flag EXCEPT ![o] = ask[c].what]
        /\ UNCHANGED <<users, org, role, apps, mails, api, slug>>

\* Slip: a feature nobody has set is on.
FeatureUnlessOff(c) == Check(c, "feature", flag[ask[c].org] # "off", "assertType")

\* FeatureGuard: api_marketplace is off by default.  Then publish().
Feature(c) == Check(c, "feature", flag[ask[c].org] = "on", "assertType")
AssertType(c) == Check(c, "assertType", org[ask[c].org] = "publisher", "tryApi")
TryApi(c) == Try(c, "tryApi", api[Candidate(c)] # None, "insertApi")

InsertApi(c) ==
    LET s == Candidate(c)
    IN  /\ pc[c] = "insertApi"
        /\ Insert(c, api[s] # None, "done")
        /\ IF api[s] # None THEN UNCHANGED <<api, slug>>
           ELSE /\ api' = [api EXCEPT ![s] = ask[c].org]
                /\ slug' = [slug EXCEPT ![c] = s]
        /\ UNCHANGED <<users, org, role, apps, mails, flag>>

-----------------------------------------------------------------------------

\* An await throws, or the instance dies.
Die(c) ==
    /\ c \in Crashable \cap Busy
    /\ Goto(c, "died")
    /\ UNCHANGED <<tables, ask, tries, slug, found, history>>

Step(c) ==
    \/ CheckEmail(c) \/ InsertUser(c) \/ Create(c) \/ TrySlug(c) \/ InsertOrg(c)
    \/ CreateApp(c) \/ Enqueue(c)
    \/ Guard(c) \/ FindInvitee(c) \/ CheckMember(c) \/ InsertMember(c)
    \/ FindFlag(c) \/ SaveFlag(c)
    \/ Feature(c) \/ AssertType(c) \/ TryApi(c) \/ InsertApi(c)

Next == \E c \in Calls : Step(c) \/ Die(c)

\* Node runs a call that is under way on; nobody has to make one.
Fairness == \A c \in Calls : WF_vars(c \in Busy /\ Step(c))

Spec == Init /\ [][Next]_vars /\ Fairness

-----------------------------------------------------------------------------
(* Properties.                                                             *)

Steps == {"insertUser", "trySlug", "insertOrg", "createApp", "enqueue", "findInvitee", "checkMember",
          "insertMember", "findFlag", "saveFlag", "feature", "assertType", "tryApi", "insertApi"}

\* The shapes of the tables and of the locals of every call.
TypeOK ==
    /\ users \subseteq Emails /\ mails \subseteq Emails
    /\ org \in [Slugs -> Types \cup {None}]
    /\ role \in [Slugs -> [Emails -> Roles \cup {None}]]
    /\ apps \subseteq Slugs
    /\ flag \in [Slugs -> {"on", "off", "unset"}]
    /\ api \in [Slugs -> Slugs \cup {None}]
    /\ ask \in [Calls -> Asks]
    /\ pc \in [Calls -> {"idle"} \cup Steps \cup Ended]
    /\ tries \in [Calls -> Nat] /\ slug \in [Calls -> Slugs \cup {None}]
    /\ found \in [Calls -> BOOLEAN]
    /\ before \in [Calls -> SUBSET Calls] /\ beaten \subseteq Calls

\* Whatever interleaves or dies, an organization has exactly one OWNER, and
\* only an organization has members (organizations.service.ts:36-43, 128).
OwnedByOne ==
    \A s \in Slugs :
        IF org[s] = None THEN \A u \in Emails : role[s][u] = None
        ELSE \E u \in Emails : \A v \in Emails : role[s][v] = "owner" <=> v = u

Made(c) == /\ ask[c].by \in users
           /\ slug[c] # None /\ org[slug[c]] = ask[c].what
           /\ role[slug[c]][ask[c].by] = "owner"

\* An answered registration has left the account, the workspace asked for, a
\* default application in a subscriber's, and a welcome e-mail; no address is
\* registered twice, and an account without a workspace is one whose
\* registration is under way or broke off (auth.service.ts:33-69).
RegistrationIsWhole ==
    LET Registering(u) == {c \in Calls : ask[c].kind = "register" /\ ask[c].by = u}
    IN  /\ \A u \in Emails : \A c, d \in Registering(u) : pc[c] = "done" =>
             /\ Made(c) /\ u \in mails
             /\ slug[c] \in apps <=> ask[c].what = "subscriber"
             /\ pc[d] = "done" => c = d
        /\ \A u \in users : \/ \E s \in Slugs : role[s][u] = "owner"
                            \/ \E c \in Registering(u) : c \in Busy \/ pc[c] \in {"failed", "died"}

\* A request fails at a unique index only when another one wrote during it: a
\* name that is merely taken gets another slug, a member or an address that is
\* merely known is refused (organizations.service.ts:231-247).
CollisionsAreRaces == \A c \in Calls : pc[c] = "failed" => c \in beaten

\* What a request was answered stands: the role a member was invited with, and
\* the switch, unless a call that did not end before it has set it
\* (organizations.service.ts:151-168, feature-flags.service.ts:37-52).
AnswersStand ==
    LET Sets(o) == {c \in Calls : /\ ask[c].kind = "setFlag" /\ ask[c].org = o
                                  /\ pc[c] \in {"done", "died"}}
    IN  \A c \in Calls : pc[c] = "done" =>
            /\ ask[c].kind = "invite" => role[ask[c].org][ask[c].whom] = ask[c].what
            /\ ask[c].kind = "setFlag" => \E d \in Sets(ask[c].org) :
                   flag[ask[c].org] = ask[d].what /\ d \notin before[c]

\* An API that was published belongs to a publisher, was published by a member
\* of DEVELOPER rank and after an ADMIN had the feature switched on, whatever
\* other requests changed between the guards and the insert
\* (marketplace.controller.ts:38-46, marketplace.service.ts:40-56).
PublishedByEntitled ==
    \A c \in Calls : ask[c].kind = "publish" /\ pc[c] = "done" =>
        /\ api[slug[c]] = ask[c].org
        /\ org[ask[c].org] = "publisher"
        /\ Reaches(ask[c].by, ask[c].org, Lowest.publish)
        /\ \E d \in Calls : /\ ask[d].kind = "setFlag" /\ ask[d].org = ask[c].org
                            /\ ask[d].what = "on" /\ pc[d] \in {"done", "died"}
                            /\ Reaches(ask[d].by, ask[c].org, Lowest.setFlag)

\* Every request that arrives ends: the search for a free slug does, however
\* many organizations are made meanwhile (organizations.service.ts:240-245).
CallsEnd == \A c \in Calls : c \in Busy ~> pc[c] \in Ended
=============================================================================
