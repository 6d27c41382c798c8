--------------------------- MODULE MCPolicyServer ---------------------------
(* PolicyServer on small instances: the policies, what the identity        *)
(* backfill does to them, and the requests and faults of each run.         *)
EXTENDS PolicyServer, TLC

CONSTANTS empty, a, raw, bad

\* Two policies: enough to tell the running policy from another one.
TwoPolicies == {empty, a}

\* raw lacks rule identities and is stored as a; bad does not validate.
EditPolicies == {empty, a, raw, bad}

\* The backfill on any of these sets.
Backfill == [p \in Policies |-> IF p = raw THEN a ELSE p]

AllRequests == RequestKinds
AllFaults == FaultKinds
=============================================================================
