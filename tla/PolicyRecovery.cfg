SPECIFICATION FairSpec
CONSTANTS
    empty = empty
    a = a
    raw = raw
    bad = bad
    Policies <- TwoPolicies
    EmptyPolicy = empty
    NoPolicy = NoPolicy
    Normalize <- Backfill
    MaxSource = 2
    Invalid = {}
    NumEngines = 2
    CtxEngines = {1}
    Unmanaged = Unmanaged
    Mixed = Mixed
    Requests <- AllRequests
    Faults <- AllFaults
    MaxVersions = 2
    MaxAudit = 3
INVARIANTS
    PointersAgree
    IntentPrecedesActivation
    RunningIsNewestActive
    DivergenceHasBreadcrumb
    JobConsistent
PROPERTIES
    EnginesFollowDurableIntent
    VersionHistory
    BootReapplies
    MutexReleased
\* Clients may stop asking, and the bounds end every behaviour.
CHECK_DEADLOCK FALSE
