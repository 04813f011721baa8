\* A test delivery, two workers, three attempts: workers die and database
\* calls throw, up to four times.
SPECIFICATION FairSpec
CONSTANTS
    acme = acme
    globex = globex
    keyCreated = keyCreated
    orgUpdated = orgUpdated
    star = star
    None = None
    e1 = e1
    e2 = e2
    w1 = w1
    w2 = w2
    w3 = w3
    AllTypes = star
    HookOrg <- MCHookOrg
    HookTypes <- MCHookTypes
    EventOrg <- MCEventOrg
    EventType <- MCEventType
    TestTarget <- MCTestTarget
    Events = {e2}
    Webhooks = {w2}
    Workers = {x1, x2}
    MaxAttempts = 3
    MaxStalls = 1
    Faults = {"worker", "database"}
    MaxFaults = 4
INVARIANTS
    TypeOK
    OpenDeliveriesAreDriven
    DeadIsJustified
    PostsBounded
PROPERTIES
    TerminalIsFinal
    DeliveriesResolve
    ImplementsOutbox
