\* The database fails after the delivery succeeded.
SPECIFICATION Spec
CONSTANTS
    acme = acme
    globex = globex
    keyCreated = keyCreated
    orgUpdated = orgUpdated
    star = star
    None = None
    e1 = e1
    e2 = e2
    w1 = w1
    w2 = w2
    w3 = w3
    AllTypes = star
    HookOrg <- MCHookOrg
    HookTypes <- MCHookTypes
    EventOrg <- MCEventOrg
    EventType <- MCEventType
    TestTarget <- MCTestTarget
    Events = {e1}
    Webhooks = {w1}
    Workers = {x1}
    MaxAttempts = 3
    MaxStalls = 1
    Faults = {"database"}
    MaxFaults = 3
SYMMETRY Symmetry
INVARIANTS
    DeadIsUndelivered
