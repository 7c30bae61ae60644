\* Three actors grant and revoke with causal parents while a participant delegates.
SPECIFICATION Spec
CONSTANTS
    Threads = {t1, t2}
    Participants = {alice, bob}
    Grantors = {bob, carol, dave}
    Delegators = {alice}
    Capabilities = {"READ", "DELEGATE"}
    Governance = governance
    NoThread = nobody
    MaxCalls = 3
    MaxParents = 1
SYMMETRY Symmetry
INVARIANTS
    RevocationDominates
    DelegationExplained
PROPERTIES
    OpenedByGrant
    GuardedDelegationHeld
