SPECIFICATION Spec
CONSTANTS
    empty = empty
    a = a
    raw = raw
    bad = bad
    Policies <- TwoPolicies
    EmptyPolicy = empty
    NoPolicy = NoPolicy
    Normalize <- Backfill
    MaxSource = 2
    Invalid = {}
    NumEngines = 2
    CtxEngines = {1, 2}
    Unmanaged = Unmanaged
    Mixed = Mixed
    Requests = {"ha-policy-pull"}
    Faults = {"cancel"}
    MaxVersions = 2
    MaxAudit = 3
INVARIANTS
    EnginesRestored
\* Clients may stop asking, and the bounds end every behaviour.
CHECK_DEADLOCK FALSE
