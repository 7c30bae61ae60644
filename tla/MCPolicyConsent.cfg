\* Two threads, four operations on one policy by a participant who governs two scopes.
SPECIFICATION Spec
CONSTANTS
    alice = alice
    bob = bob
    s1 = s1
    s2 = s2
    Threads = {t1, t2}
    Participants = {alice}
    Scopes = {s1, s2}
    Policies = {p}
    System = system
    Grantors = {system}
    NoScope = NoScope
    NoThread = nobody
    InitialAuthority <- Both
    MaxCalls = 4
SYMMETRY ScopeSymmetry
VIEW View
INVARIANTS
    ConsentFollowsTerms
    PolicyChangesExplained
PROPERTY GuardedPolicyChange
