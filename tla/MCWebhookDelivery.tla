------------------------ MODULE MCWebhookDelivery ------------------------
(* Small instances of WebhookDelivery for TLC.                             *)
EXTENDS WebhookDelivery, TLC

CONSTANTS acme, globex,          \* organizations
          keyCreated, orgUpdated, star,  \* event types and '*'
          e1, e2, w1, w2, w3

\* One webhook of acme for everything, one for a single type, one of globex.
MCHookOrg == [w \in Webhooks |-> IF w = w3 THEN globex ELSE acme]
MCHookTypes == [w \in Webhooks |-> IF w = w2 THEN {keyCreated} ELSE {star}]

\* acme dispatches e1, of a type that w1 and w2 want, and w3 would, and tests
\* w2 with e2.
MCEventOrg == [e \in Events |-> acme]
MCEventType == [e \in Events |-> IF e = e1 THEN keyCreated ELSE orgUpdated]
MCTestTarget == [e \in Events |-> IF e = e1 THEN None ELSE w2]

Symmetry == Permutations(Workers)
=============================================================================
