\* Two participants, each with authority over one scope.
SPECIFICATION Spec
CONSTANTS
    alice = alice
    bob = bob
    s1 = s1
    s2 = s2
    Threads = {t1}
    Participants = {alice, bob}
    Scopes = {s1, s2}
    Policies = {p}
    System = system
    Grantors = {system, alice, bob}
    NoScope = NoScope
    NoThread = nobody
    InitialAuthority <- Each
    MaxCalls = 2
SYMMETRY Symmetry
PROPERTY AdopterGoverns
