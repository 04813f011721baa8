\* One call for two channels; up to four faults of any kind disturb it.
SPECIFICATION FairSpec
CONSTANTS
    Notices = {n1}
    Slots = {c1, c2}
    Workers = {x1, x2}
    None = None
    MaxAttempts = 3
    MaxStalls = 1
    MaxFaults = 4
    Faults <- MCFaults
INVARIANTS
    TypeOK
    FanOutComplete
    GivenUpLast
PROPERTIES
    SentIsFinal
    ImplementsOutbox
