\* Four operations reach a transition that overtakes the dissolution.
SPECIFICATION Spec
CONSTANTS
    Threads = {t1, t2}
    Participants = {alice}
    System = system
    NoThread = nobody
    MaxCalls = 4
SYMMETRY Symmetry
PROPERTY DissolvedIsTerminal
