\* One permission, three actors without causal order.
SPECIFICATION Spec
CONSTANTS
    Threads = {t1}
    Participants = {alice}
    Grantors = {bob, carol, dave}
    Delegators = {}
    Capabilities = {"ACT"}
    Governance = governance
    NoThread = nobody
    MaxCalls = 4
    MaxParents = 1
SYMMETRY Symmetry
INVARIANT UnorderedRaceFailsClosed
