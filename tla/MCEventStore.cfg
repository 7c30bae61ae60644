\* Commits and batches of two threads, two actors and two relationships.
SPECIFICATION Spec
CONSTANTS
    Threads = {t1, t2}
    Relationships = {r1, r2}
    Actors = {a1, a2}
    NoThread = NoThread
    MaxIds = 3
    MaxDepth = 2
SYMMETRY Symmetry
VIEW Live
INVARIANTS
    ChainIntact
    CommitsFit
    TransactionExclusive
    AllOrNothing
PROPERTY ImplementsLog
