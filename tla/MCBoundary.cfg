\* Two disclosures of two resources, two admissions or derivations by two threads.
SPECIFICATION Spec
CONSTANTS
    Threads = {t1, t2}
    Relationships = {r1, r2}
    Resources = {x, y}
    NoThread = NoThread
    MaxDisclosures = 2
    MaxChanges = 3
    MaxCalls = 2
SYMMETRY Symmetry
INVARIANTS
    MovementTraced
    MovementAuthorized
PROPERTY GuardedMovement
