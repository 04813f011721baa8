--------------------------- MODULE MCWorkspaces ---------------------------
(* A small instance of Workspaces for TLC: Ann's workspace was made before. *)
EXTENDS Workspaces, TLC

CONSTANTS ann, bob, anns, bobs, anns2, anns3, bobs2

\* The slug of one name is the second candidate of another.
MCCandidates == [n \in Names |->
    CASE n = "Ann"  -> <<anns, anns2, anns3, bobs, bobs2>>
      [] n = "Ann2" -> <<anns2, anns3, bobs, bobs2>>]

MCFounders == [s \in Slugs |-> IF s = anns THEN ann ELSE None]
MCFoundedAs == [s \in Slugs |-> "publisher"]

Ask(kind, by, name, o, whom, what) ==
    [kind |-> kind, by |-> by, name |-> name, org |-> o, whom |-> whom, what |-> what]

MCRequests ==
    {Ask("register", bob, "Ann", anns, bob, t) : t \in Types}
    \cup {Ask("create", ann, "Ann2", anns, ann, "publisher")}
    \cup {Ask("invite", ann, "Ann", anns, bob, r) : r \in {"owner", "admin", "viewer"}}
    \cup {Ask("invite", bob, "Ann", anns2, ann, "developer")}
    \cup {Ask("setFlag", ann, "Ann", anns, ann, w) : w \in {"on", "off"}}
    \cup {Ask("setFlag", bob, "Ann", anns, ann, "on")}
    \cup {Ask("publish", bob, "Ann", o, ann, "on") : o \in {anns, anns2}}
    \cup {Ask("publish", ann, "Ann", anns, ann, "on")}
=============================================================================
