\* A dispatched event for two webhooks of its organization, one of another,
\* and a fault of any kind.
SPECIFICATION Spec
CONSTANTS
    acme = acme
    globex = globex
    keyCreated = keyCreated
    orgUpdated = orgUpdated
    star = star
    None = None
    e1 = e1
    e2 = e2
    w1 = w1
    w2 = w2
    w3 = w3
    AllTypes = star
    HookOrg <- MCHookOrg
    HookTypes <- MCHookTypes
    EventOrg <- MCEventOrg
    EventType <- MCEventType
    TestTarget <- MCTestTarget
    Events = {e1}
    Webhooks = {w1, w2, w3}
    Workers = {x1, x2}
    MaxAttempts = 2
    MaxStalls = 1
    Faults = {"producer", "worker", "lock", "database", "handler"}
    MaxFaults = 1
SYMMETRY Symmetry
INVARIANTS
    FanOutComplete
    SuccessIsAcknowledged
