---------------------------- MODULE PolicyStore ----------------------------
(***************************************************************************)
(* The durable configuration store of controld (internal/store/store.go):  *)
(* a bbolt database whose every operation is one serialized read-write     *)
(* transaction.  Each transaction the control plane uses is one action      *)
(* here; a transaction that returns an error is rolled back as a whole,    *)
(* so it is simply not enabled.                                            *)
(*                                                                         *)
(* candidate      the staged policy, or NoPolicy (bucket candidate)        *)
(* running        version the running pointer names, 0 on a fresh node     *)
(* lastKnownGood  version of the last-known-good pointer                   *)
(* versions       version id -> policy, action, source and state; the ids  *)
(*                come from NextSequence, so they are 1, 2, 3, ...         *)
(* approvals      approval id -> approved revision and its consumption     *)
(* audit          the audit log, oldest entry first                        *)
(*                                                                         *)
(* Abstractions: a policy is an element of Policies; Normalize is what the *)
(* identity backfill (normalizePolicyIdentities) does to it; the SHA-256   *)
(* of the marshalled candidate is the candidate itself; an audit entry     *)
(* keeps its action, the phase the action name's suffix states, and its    *)
(* version.  Hash chaining of the entries, comments, actors and times are  *)
(* left out.                                                               *)
(***************************************************************************)
EXTENDS Naturals, Sequences, FiniteSets

CONSTANTS
    Policies,      \* every policy a client can submit, and the empty one
    EmptyPolicy,   \* the policy GetRunning returns on a fresh node
    NoPolicy,      \* no candidate is staged
    Normalize,     \* the identity backfill applied before a policy is stored
    MaxSource      \* largest source version a rollback or a peer can name

ASSUME PoliciesAssumption ==
    /\ EmptyPolicy \in Policies
    /\ NoPolicy \notin Policies

ASSUME NormalizeAssumption ==
    /\ Normalize \in [Policies -> Policies]
    /\ \A p \in Policies : Normalize[Normalize[p]] = Normalize[p]

ASSUME SourceAssumption == MaxSource \in Nat

VARIABLES candidate, running, lastKnownGood, versions, approvals, audit

storeVars ==
    <<candidate, running, lastKnownGood, versions, approvals, audit>>

ApplyActions == {"commit", "rollback", "ha-policy-pull"}
VersionStates == {"prepared", "active", "apply_failed", "activation_failed"}

\* A candidate revision: the digest of the staged policy, or none:<running>.
Revisions == ({"sha256"} \X Policies) \cup ({"none"} \X Nat)

\* An empty expected revision: the caller asks for no optimistic check.
NoExpectation == <<"any", 0>>

\* No approval is named by the request (an empty approval id).
NoApproval == 0

VersionIds == DOMAIN versions
ApprovalIds == DOMAIN approvals

Version == [policy : Policies, action : ApplyActions, source : Nat,
            state : VersionStates]

Approval == [revision : Revisions, consumed : BOOLEAN, version : Nat]

\* phase: "note" for entries of candidate edits and approvals, then the
\* suffixes of the apply path: <action>-intent, <action>, <action>-failed.
AuditEntry ==
    [action : ApplyActions \cup {"stage", "approve"},
     phase : {"note", "intent", "done", "failed"}, version : Nat]

TypeOK ==
    /\ candidate \in Policies \cup {NoPolicy}
    /\ running \in Nat
    /\ lastKnownGood \in Nat
    /\ versions \in Seq(Version)
    /\ approvals \in Seq(Approval)
    /\ audit \in Seq(AuditEntry)

StoreInit ==
    /\ candidate = NoPolicy
    /\ running = 0
    /\ lastKnownGood = 0
    /\ versions = <<>>
    /\ approvals = <<>>
    /\ audit = <<>>

----------------------------------------------------------------------------
\* candidateRevisionTx
CandidateRevision ==
    IF candidate = NoPolicy THEN <<"none", running>>
                            ELSE <<"sha256", candidate>>

\* GetRunning: an empty policy on a fresh node.
RunningPolicy == IF running = 0 THEN EmptyPolicy ELSE versions[running].policy

Entry(action, phase, id) ==
    [action |-> action, phase |-> phase, version |-> id]

\* appendAuditTx, the last statement of every mutating transaction
AppendAuditTx(action, phase, id) ==
    audit' = Append(audit, Entry(action, phase, id))

----------------------------------------------------------------------------
\* SetCandidateWithAuditIfRevision: a stale expected revision is a conflict.
SetCandidateWithAuditIfRevision(p, expected) ==
    /\ expected \in {NoExpectation, CandidateRevision}
    /\ candidate' = Normalize[p]
    /\ AppendAuditTx("stage", "note", 0)
    /\ UNCHANGED <<running, lastKnownGood, versions, approvals>>

\* CreateChangeApproval: only the current revision can be approved.
CreateChangeApproval(revision) ==
    /\ revision = CandidateRevision
    /\ approvals' = Append(approvals, [revision |-> revision,
                                       consumed |-> FALSE, version |-> 0])
    /\ AppendAuditTx("approve", "note", 0)
    /\ UNCHANGED <<candidate, running, lastKnownGood, versions>>

\* Mutants of the next definition: a spent approval is accepted again, and
\* an approval is accepted for another revision.
ConsumableAgain(id, revision) ==
    id \in ApprovalIds /\ approvals[id].revision = revision
ConsumableForAny(id, revision) ==
    id \in ApprovalIds /\ ~approvals[id].consumed

\* consumeChangeApprovalTx: found, not consumed, and for this revision.
Consumable(id, revision) ==
    /\ id \in ApprovalIds
    /\ ~approvals[id].consumed
    /\ approvals[id].revision = revision

\* Mutant: the consuming version is not the one being recorded.
ConsumeForPrevious(id, version) ==
    [approvals EXCEPT ![id].consumed = TRUE, ![id].version = version - 1]

\* What consumption writes into an approval record.
Spent(approval, version) ==
    [approval EXCEPT !.consumed = TRUE, !.version = version]

Consume(id, version) ==
    [approvals EXCEPT ![id] = Spent(approvals[id], version)]

\* Mutant: the version is recorded without its audit intent.
PrepareWithoutIntent(p, action, source, approval, revision) ==
    /\ versions' = Append(versions, [policy |-> Normalize[p], action |-> action,
                                     source |-> source, state |-> "prepared"])
    /\ IF approval = NoApproval
         THEN UNCHANGED approvals
         ELSE /\ Consumable(approval, revision)
              /\ approvals' = Consume(approval, Len(versions) + 1)
    /\ UNCHANGED <<candidate, running, lastKnownGood, audit>>

\* Mutant: the version is recorded as active, as CommitVersion would.
PrepareAsActive(p, action, source, approval, revision) ==
    /\ versions' = Append(versions, [policy |-> Normalize[p], action |-> action,
                                     source |-> source, state |-> "active"])
    /\ IF approval = NoApproval
         THEN UNCHANGED approvals
         ELSE /\ Consumable(approval, revision)
              /\ approvals' = Consume(approval, Len(versions) + 1)
    /\ AppendAuditTx(action, "intent", Len(versions) + 1)
    /\ UNCHANGED <<candidate, running, lastKnownGood>>

\* PreparePolicyApplyWithIdentityAndApproval: version, approval consumption
\* and audit intent are one transaction; neither the running pointer nor the
\* candidate is touched.
PreparePolicyApply(p, action, source, approval, revision) ==
    LET id == Len(versions) + 1 IN
    /\ versions' = Append(versions, [policy |-> Normalize[p], action |-> action,
                                     source |-> source, state |-> "prepared"])
    /\ IF approval = NoApproval
         THEN UNCHANGED approvals
         ELSE /\ Consumable(approval, revision)
              /\ approvals' = Consume(approval, id)
    /\ AppendAuditTx(action, "intent", id)
    /\ UNCHANGED <<candidate, running, lastKnownGood>>

\* Mutant: the last-known-good pointer stays behind.
ActivateKeepsLastKnownGood(id, action) ==
    /\ id \in VersionIds
    /\ versions' = [versions EXCEPT ![id].state = "active"]
    /\ running' = id
    /\ candidate' = NoPolicy
    /\ AppendAuditTx(action, "done", id)
    /\ UNCHANGED <<lastKnownGood, approvals>>

\* ActivatePreparedVersion: both pointers move and the candidate is cleared.
ActivatePreparedVersion(id, action) ==
    /\ id \in VersionIds
    /\ versions' = [versions EXCEPT ![id].state = "active"]
    /\ running' = id
    /\ lastKnownGood' = id
    /\ candidate' = NoPolicy
    /\ AppendAuditTx(action, "done", id)
    /\ UNCHANGED approvals

\* MarkVersionState
MarkVersionState(id, state) ==
    /\ id \in VersionIds
    /\ versions' = [versions EXCEPT ![id].state = state]
    /\ UNCHANGED <<candidate, running, lastKnownGood, approvals, audit>>

\* AppendAudit
AppendAudit(action, phase, id) ==
    /\ AppendAuditTx(action, phase, id)
    /\ UNCHANGED <<candidate, running, lastKnownGood, versions, approvals>>

----------------------------------------------------------------------------
(***************************************************************************)
(* The store on its own: callers run any transaction at any time, in any   *)
(* order.  This is all the handlers that do not take the policy mutex can  *)
(* rely on, and what PolicyServer is shown to implement.                   *)
(***************************************************************************)
StoreNext ==
    \/ \E p \in Policies, expected \in {NoExpectation, CandidateRevision} :
          SetCandidateWithAuditIfRevision(p, expected)
    \/ CreateChangeApproval(CandidateRevision)
    \/ \E p \in Policies, action \in ApplyActions, source \in 0..MaxSource,
         approval \in ApprovalIds \cup {NoApproval} :
          PreparePolicyApply(p, action, source, approval,
              IF approval = NoApproval THEN NoExpectation
                                       ELSE approvals[approval].revision)
    \/ \E id \in VersionIds :
          \/ ActivatePreparedVersion(id, versions[id].action)
          \/ \E state \in VersionStates : MarkVersionState(id, state)
    \/ \E action \in ApplyActions, id \in VersionIds \cup {0} :
          AppendAudit(action, "failed", id)

StoreSpec == StoreInit /\ [][StoreNext]_storeVars

----------------------------------------------------------------------------
Intent(i, v) == audit[i].phase = "intent" /\ audit[i].version = v
Done(i, v) == audit[i].phase = "done" /\ audit[i].version = v

(***************************************************************************)
(* The running and the last-known-good pointer are moved together and name *)
(* a version the store holds, so GetRunning never fails on a missing       *)
(* version (store.go, ActivatePreparedVersion and GetRunning).             *)
(***************************************************************************)
PointersAgree ==
    /\ running = lastKnownGood
    /\ running \in VersionIds \cup {0}

(***************************************************************************)
(* A consumed approval names the recorded version that spent it, an open   *)
(* one names none, and no version spends two: consumption is part of the   *)
(* transaction that records the version (store.go,                         *)
(* PreparePolicyApplyWithIdentityAndApproval).                             *)
(***************************************************************************)
ApprovalBinding ==
    /\ \A a \in ApprovalIds :
         IF approvals[a].consumed THEN approvals[a].version \in VersionIds
                                  ELSE approvals[a].version = 0
    /\ \A a, b \in ApprovalIds :
         approvals[a].consumed /\ approvals[a].version = approvals[b].version
           => a = b

(***************************************************************************)
(* An approval is spent once: after it is consumed, no retry, crash or     *)
(* second commit changes its record again (store.go,                       *)
(* consumeChangeApprovalTx: ErrChangeApprovalConsumed).                    *)
(***************************************************************************)
ApprovalSpentOnce ==
    [][\A a \in ApprovalIds :
         approvals[a].consumed => approvals'[a] = approvals[a]]_storeVars

(***************************************************************************)
(* Every version has exactly one audit intent, and an activation is never  *)
(* in the log before the intent of the same version (policy.go, apply:     *)
(* durable intent, then apply, then activate).                             *)
(***************************************************************************)
IntentPrecedesActivation ==
    /\ \A v \in VersionIds : \E i \in DOMAIN audit : Intent(i, v)
    /\ \A i, j \in DOMAIN audit : \A v \in VersionIds :
         /\ Intent(i, v) /\ Intent(j, v) => i = j
         /\ Intent(i, v) /\ Done(j, v) => i < j
    /\ \A i \in DOMAIN audit : audit[i].version \in VersionIds \cup {0}
============================================================================
