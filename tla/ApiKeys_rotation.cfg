\* Three calls of owners and two requests, one of which may die; a key was issued before.
SPECIFICATION Spec
CONSTANTS
    Keys = {k1, k2, k3}
    Issued = {k1}
    Owners = {o1, o2, o3}
    Requests = {r1, r2}
    Lifetimes <- MCLifetimes
    Never = Never
    None = None
    MaxTime = 2
    Crashable = {r2}
SYMMETRY Symmetry
INVARIANTS
    TypeOK
    RotationIsASwap
    UsageNeverAhead
PROPERTIES
    RevocationIsFinal
