\* Two threads and one participant, four operations.
SPECIFICATION Spec
CONSTANTS
    Threads = {t1, t2}
    Participants = {alice}
    System = system
    NoThread = nobody
    MaxCalls = 4
SYMMETRY Symmetry
INVARIANT ChangesExplained
PROPERTY GuardedChangeLegal
