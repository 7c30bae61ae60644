SPECIFICATION HostSpec
CONSTANTS
    t1 = t1
    t2 = t2
    t3 = t3
    p1 = p1
    p2 = p2
    v1 = v1
    v2 = v2
    acting = acting
    asking = asking
    Processes = {p1, p2}
    First = p1
    Threads = {t1, t2, t3}
    ProcessOf <- ThreadsOf
    Stores = {s1, s2}
    NoThread = NoThread
    Gone = Gone
    MaxSessionCalls = 5
    MaxDepth = 1
    Trials = 2
    InputBounds = {1}
    MaxOutput = 1
    Counts = {0, 2}
    Limits <- PlanLimits
    Dirs = {d1}
    Versions = {v1, v2}
    Unknown = Unknown
    MaxSourceEdits = 1
    MaxRuns = 2
    Purposes = {acting, asking}
    NoPurpose = NoPurpose
    Primary = c1
    Other = c2
    NoClaim = NoClaim
    Asks <- Calls
    MaxCommits = 2
INVARIANTS
    TypeOK
    Ownership
    SentOnRecord
    SpendingBounded
    ResultsEarned
    ReportEarned
    QuietReportExact
    RubricAgrees
    AssessmentStands
PROPERTIES
    GuardedStoreStays
    CallsReturn
    RunEnds
CHECK_DEADLOCK FALSE
