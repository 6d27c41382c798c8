SPECIFICATION Spec
CONSTANTS
    empty = empty
    a = a
    raw = raw
    bad = bad
    Policies <- EditPolicies
    EmptyPolicy = empty
    NoPolicy = NoPolicy
    Normalize <- Backfill
    MaxSource = 2
    Invalid = {bad}
    NumEngines = 3
    CtxEngines = {1}
    Unmanaged = Unmanaged
    Mixed = Mixed
    Requests = {"set-candidate", "commit", "rollback", "ha-policy-pull"}
    Faults = {"engine", "crash"}
    MaxVersions = 2
    MaxAudit = 4
INVARIANTS
    ApprovedPolicyCommitted
    EnginesRestored
PROPERTIES
    StagedChangeKept
\* Clients may stop asking, and the bounds end every behaviour.
CHECK_DEADLOCK FALSE
