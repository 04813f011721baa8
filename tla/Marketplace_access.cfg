\* Two calls at a time, one of which may die; events late, reordered and twice.
SPECIFICATION Spec
CONSTANTS
    Null = Null
    Calls = {c1, c2, c3, c4, c5, c6}
    MaxConcurrent = 2
    Crashable = {c6}
SYMMETRY Symmetry
INVARIANTS
    TypeOK
    AccessIsPaid
    BilledHasAccess
