SPECIFICATION Spec
CONSTANTS
    empty = empty
    a = a
    raw = raw
    bad = bad
    Policies <- TwoPolicies
    EmptyPolicy = empty
    NoPolicy = NoPolicy
    Normalize <- Backfill
    MaxSource = 2
    Invalid = {}
    NumEngines = 1
    CtxEngines = {1}
    Unmanaged = Unmanaged
    Mixed = Mixed
    Requests = {"set-candidate", "unlocked-stage", "commit"}
    Faults = {"engine", "crash"}
    MaxVersions = 2
    MaxAudit = 7
INVARIANTS
    ServerTypeOK
    ApprovalBinding
    CommitNeedsApproval
PROPERTIES
    ApprovalSpentOnce
    StoreSpec
\* Clients may stop asking, and the bounds end every behaviour.
CHECK_DEADLOCK FALSE
