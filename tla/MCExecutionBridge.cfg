\* Two threads execute two requests, also inside each other's callbacks and inside
\* the host's own guard, while their authority changes and faults occur.
CONSTANTS
    t1 = t1
    q1 = q1
    Threads = {t1, t2}
    Requests = {q1, q2}
    NoThread = NoThread
    MaxDepth = 2
    MaxAttempts = 2
    MaxChanges = 1
    MaxFaults = 1
SPECIFICATION FairSpec
VIEW View
ACTION_CONSTRAINT FirstCall
INVARIANTS
    AtMostOnce
    EffectsOnRecord
PROPERTIES
    EntryAuthorized
    LastCheckIsLast
    GuardReleased
    EntryAnswered
    ImplementsHandoff
\* The attempts and changes are bounded: the system stops when they are used up.
CHECK_DEADLOCK FALSE
