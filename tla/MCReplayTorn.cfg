\* The same instance without the guard in the property.
SPECIFICATION Spec
CONSTANTS
    Threads = {t1, t2}
    Stores = {home, away}
    Home = home
    NoThread = nobody
    MaxEvents = 5
SYMMETRY Symmetry
INVARIANT ExportVerifies
