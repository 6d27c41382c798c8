SPECIFICATION FairSpec
CONSTANTS
    empty = empty
    a = a
    raw = raw
    bad = bad
    Policies <- TwoPolicies
    EmptyPolicy = empty
    NoPolicy = NoPolicy
    Normalize <- Backfill
    MaxSource = 2
    Invalid = {}
    NumEngines = 1
    CtxEngines = {1}
    Unmanaged = Unmanaged
    Mixed = Mixed
    Requests = {"unlocked-stage", "ha-policy-pull"}
    Faults = {}
    MaxVersions = 2
    MaxAudit = 4
PROPERTIES
    StagedChangeKept
\* Clients may stop asking, and the bounds end every behaviour.
CHECK_DEADLOCK FALSE
