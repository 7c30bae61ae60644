\* Two threads export, restore and change one relationship in two stores.
SPECIFICATION Spec
CONSTANTS
    Threads = {t1, t2}
    Stores = {home, away}
    Home = home
    NoThread = nobody
    MaxEvents = 5
SYMMETRY Symmetry
INVARIANTS
    CopiesOfExports
    ExportOnRecord
    ReportedOnce
PROPERTY GuardedExportWhole
