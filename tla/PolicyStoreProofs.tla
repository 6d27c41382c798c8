------------------------- MODULE PolicyStoreProofs -------------------------
(***************************************************************************)
(* Proofs about the store on its own: what holds of its transactions       *)
(* whatever the order callers run them in, for every set of policies.      *)
(***************************************************************************)
EXTENDS PolicyStore, SequenceLemmas, TLAPS

\* The inductive invariant: the checked properties are inductive together.
StoreInv ==
    TypeOK /\ PointersAgree /\ ApprovalBinding /\ IntentPrecedesActivation

LEMMA SpentFacts ==
    ASSUME NEW r \in Approval, NEW v \in Nat
    PROVE  /\ Spent(r, v) \in Approval /\ Spent(r, v).consumed
           /\ Spent(r, v).version = v /\ Spent(r, v).revision = r.revision
  BY DEF Approval, Spent

LEMMA ElementTypes ==
    ASSUME TypeOK
    PROVE  /\ \A v \in VersionIds : versions[v] \in Version /\ v \in Nat \ {0}
           /\ \A a \in ApprovalIds : approvals[a] \in Approval /\ a \in Nat \ {0}
           /\ \A i \in DOMAIN audit : audit[i] \in AuditEntry
           /\ VersionIds = 1..Len(versions) /\ Len(versions) \in Nat
  BY DEF TypeOK, VersionIds, ApprovalIds

LEMMA RevisionType == ASSUME TypeOK PROVE CandidateRevision \in Revisions
  BY DEF TypeOK, CandidateRevision, Revisions

LEMMA StoreInitInv == StoreInit => StoreInv
  BY DEF StoreInit, StoreInv, TypeOK, PointersAgree, ApprovalBinding,
         IntentPrecedesActivation, VersionIds, ApprovalIds

\* An audit entry that is no intent and no activation, of a known version.
LEMMA PlainEntry ==
    ASSUME StoreInv, NEW x \in AuditEntry, x.phase \in {"note", "failed"},
           x.version \in VersionIds \cup {0},
           audit' = Append(audit, x), versions' \in Seq(Version),
           VersionIds' = VersionIds
    PROVE  IntentPrecedesActivation' /\ audit' \in Seq(AuditEntry)
  <1>1. audit \in Seq(AuditEntry)
    BY DEF StoreInv, TypeOK
  <1>2. /\ audit' \in Seq(AuditEntry)
        /\ DOMAIN audit = 1..Len(audit)
        /\ DOMAIN audit' = 1..(Len(audit) + 1)
        /\ Len(audit) \in Nat
        /\ \A i \in 1..Len(audit) : audit'[i] = audit[i]
        /\ audit'[Len(audit) + 1] = x
    BY <1>1, AppendFacts
  <1> QED
    BY <1>2 DEF StoreInv, IntentPrecedesActivation, Intent, Done

LEMMA StageInv ==
    ASSUME StoreInv, NEW p \in Policies, NEW expected,
           SetCandidateWithAuditIfRevision(p, expected)
    PROVE  StoreInv'
  <1> USE DEF SetCandidateWithAuditIfRevision, AppendAuditTx
  <1>1. Entry("stage", "note", 0) \in AuditEntry
    BY DEF Entry, AuditEntry
  <1>2. IntentPrecedesActivation' /\ audit' \in Seq(AuditEntry)
    BY <1>1, PlainEntry DEF StoreInv, TypeOK, Entry, VersionIds
  <1>3. Normalize[p] \in Policies
    BY NormalizeAssumption
  <1>4. PointersAgree' /\ ApprovalBinding'
    BY DEF StoreInv, PointersAgree, ApprovalBinding, VersionIds, ApprovalIds
  <1> QED
    BY <1>2, <1>3, <1>4 DEF StoreInv, TypeOK

LEMMA ApproveInv ==
    ASSUME StoreInv, CreateChangeApproval(CandidateRevision)
    PROVE  StoreInv'
  <1> USE DEF CreateChangeApproval, AppendAuditTx
  <1> DEFINE new == [revision |-> CandidateRevision, consumed |-> FALSE,
                     version |-> 0]
  <1>1. Entry("approve", "note", 0) \in AuditEntry
    BY DEF Entry, AuditEntry
  <1>2. IntentPrecedesActivation' /\ audit' \in Seq(AuditEntry)
    BY <1>1, PlainEntry DEF StoreInv, TypeOK, Entry, VersionIds
  <1>3. new \in Approval
    BY RevisionType DEF StoreInv, Approval
  <1>4. /\ approvals' \in Seq(Approval)
        /\ DOMAIN approvals = 1..Len(approvals)
        /\ DOMAIN approvals' = 1..(Len(approvals) + 1)
        /\ Len(approvals) \in Nat
        /\ \A i \in 1..Len(approvals) : approvals'[i] = approvals[i]
        /\ approvals'[Len(approvals) + 1] = new
    BY <1>3, AppendFacts DEF StoreInv, TypeOK
  <1>5. 0 \notin VersionIds /\ VersionIds' = VersionIds
    BY DEF StoreInv, TypeOK, VersionIds
  <1>6. ApprovalBinding'
    BY <1>4, <1>5 DEF StoreInv, ApprovalBinding, ApprovalIds
  <1>7. PointersAgree'
    BY DEF StoreInv, PointersAgree, VersionIds
  <1> QED
    BY <1>2, <1>4, <1>6, <1>7 DEF StoreInv, TypeOK

\* The intent of a version that is new in this transaction.
LEMMA IntentEntry ==
    ASSUME StoreInv, NEW action \in ApplyActions,
           VersionIds' = VersionIds \cup {Len(versions) + 1},
           audit' = Append(audit, Entry(action, "intent", Len(versions) + 1))
    PROVE  IntentPrecedesActivation' /\ audit' \in Seq(AuditEntry)
  <1> DEFINE id == Len(versions) + 1
             x == Entry(action, "intent", id)
  <1>0. id \in Nat /\ id \notin VersionIds /\ id # 0
    BY DEF StoreInv, TypeOK, VersionIds
  <1>1. audit \in Seq(AuditEntry) /\ x \in AuditEntry
    BY <1>0 DEF StoreInv, TypeOK, Entry, AuditEntry
  <1>2. /\ audit' \in Seq(AuditEntry)
        /\ DOMAIN audit = 1..Len(audit)
        /\ DOMAIN audit' = 1..(Len(audit) + 1)
        /\ Len(audit) \in Nat
        /\ \A i \in 1..Len(audit) : audit'[i] = audit[i]
        /\ audit'[Len(audit) + 1] = x
    BY <1>1, AppendFacts
  <1>3. x.phase = "intent" /\ x.version = id
    BY DEF Entry
  <1> HIDE DEF x, id
  <1>4. \A i \in DOMAIN audit : audit[i].version # id
    BY <1>0 DEF StoreInv, IntentPrecedesActivation
  <1>5. VersionIds' = VersionIds \cup {id}
    BY DEF id
  <1> QED
    BY <1>0, <1>2, <1>3, <1>4, <1>5
       DEF StoreInv, IntentPrecedesActivation, Intent, Done

LEMMA PrepareInv ==
    ASSUME StoreInv, NEW p \in Policies, NEW action \in ApplyActions,
           NEW source \in Nat, NEW approval \in Nat, NEW revision,
           PreparePolicyApply(p, action, source, approval, revision)
    PROVE  StoreInv'
  <1> USE DEF PreparePolicyApply, AppendAuditTx
  <1> DEFINE id == Len(versions) + 1
             new == [policy |-> Normalize[p], action |-> action,
                     source |-> source, state |-> "prepared"]
  <1>1. new \in Version
    BY NormalizeAssumption DEF Version, VersionStates
  <1>2. /\ versions' \in Seq(Version)
        /\ DOMAIN versions = 1..Len(versions)
        /\ DOMAIN versions' = 1..(Len(versions) + 1)
        /\ Len(versions) \in Nat
    BY <1>1, AppendFacts DEF StoreInv, TypeOK
  <1>3. VersionIds' = VersionIds \cup {id} /\ id \notin VersionIds /\ id \in Nat
    BY <1>2 DEF VersionIds
  <1>4. IntentPrecedesActivation' /\ audit' \in Seq(AuditEntry)
    BY <1>3, IntentEntry
  <1>5. PointersAgree'
    BY <1>3 DEF StoreInv, PointersAgree
  <1> HIDE DEF id
  <1>6. approvals' \in Seq(Approval) /\ ApprovalBinding'
    <2>1. CASE approval = NoApproval
      BY <2>1, <1>3 DEF StoreInv, TypeOK, ApprovalBinding, ApprovalIds
    <2>2. CASE approval # NoApproval
      <3>1. /\ approval \in DOMAIN approvals
            /\ ~approvals[approval].consumed
            /\ approvals' = [approvals EXCEPT
                               ![approval] = Spent(approvals[approval], id)]
        BY <2>2 DEF Consumable, Consume, ApprovalIds, id
      <3>2. approvals \in Seq(Approval) /\ approvals[approval] \in Approval
        BY <3>1, ElementTypes DEF StoreInv, TypeOK, ApprovalIds
      <3>3. /\ DOMAIN approvals' = DOMAIN approvals
            /\ \A a \in DOMAIN approvals :
                 a # approval => approvals'[a] = approvals[a]
            /\ approvals'[approval].consumed
            /\ approvals'[approval].version = id
            /\ approvals' \in Seq(Approval)
        <4> DEFINE spent == Spent(approvals[approval], id)
        <4>1. spent \in Approval /\ spent.consumed /\ spent.version = id
          BY <3>2, <1>3, SpentFacts
        <4> HIDE DEF spent
        <4>2. approvals' = [approvals EXCEPT ![approval] = spent]
          BY <3>1 DEF spent
        <4> QED
          BY <3>1, <3>2, <4>1, <4>2, UpdateFacts
      <3>4. \A a \in DOMAIN approvals : approvals[a].version # id
        <4>1. id # 0
          BY <1>2 DEF id
        <4> QED
          BY <4>1, <1>3 DEF StoreInv, ApprovalBinding, ApprovalIds
      <3> QED
        BY <3>1, <3>3, <3>4, <1>3 DEF StoreInv, ApprovalBinding, ApprovalIds
    <2> QED
      BY <2>1, <2>2
  <1> QED
    BY <1>2, <1>4, <1>5, <1>6 DEF StoreInv, TypeOK

\* Changing a version's state keeps every id and every version's type.
LEMMA StateUpdate ==
    ASSUME StoreInv, NEW id \in VersionIds, NEW state \in VersionStates,
           versions' = [versions EXCEPT ![id].state = state]
    PROVE  /\ versions' \in Seq(Version) /\ VersionIds' = VersionIds
           /\ Len(versions') = Len(versions)
           /\ versions'[id].state = state
           /\ versions'[id].policy = versions[id].policy
           /\ versions'[id].action = versions[id].action
           /\ versions'[id].source = versions[id].source
           /\ \A v \in VersionIds : v # id => versions'[v] = versions[v]
  <1> DEFINE new == [versions[id] EXCEPT !.state = state]
  <1>1. versions \in Seq(Version) /\ versions[id] \in Version
    BY ElementTypes DEF StoreInv, TypeOK
  <1>2. /\ new \in Version /\ new.state = state
        /\ new.policy = versions[id].policy /\ new.action = versions[id].action
        /\ new.source = versions[id].source
    BY <1>1 DEF Version
  <1>3. versions' = [versions EXCEPT ![id] = new] /\ id \in DOMAIN versions
    BY DEF VersionIds
  <1> HIDE DEF new
  <1> QED
    BY <1>1, <1>2, <1>3, UpdateFacts DEF VersionIds

LEMMA ActivateInv ==
    ASSUME StoreInv, NEW id \in VersionIds, NEW action \in ApplyActions,
           ActivatePreparedVersion(id, action)
    PROVE  StoreInv'
  <1> USE DEF ActivatePreparedVersion, AppendAuditTx
  <1> DEFINE x == Entry(action, "done", id)
  <1>1. versions' \in Seq(Version) /\ VersionIds' = VersionIds
    BY StateUpdate DEF VersionStates
  <1>2. id \in Nat
    BY DEF StoreInv, TypeOK, VersionIds
  <1>3. x \in AuditEntry /\ x.phase = "done" /\ x.version = id
    BY <1>2 DEF Entry, AuditEntry
  <1>4. /\ audit' \in Seq(AuditEntry)
        /\ DOMAIN audit = 1..Len(audit)
        /\ DOMAIN audit' = 1..(Len(audit) + 1)
        /\ Len(audit) \in Nat
        /\ \A i \in 1..Len(audit) : audit'[i] = audit[i]
        /\ audit'[Len(audit) + 1] = x
    BY <1>3, AppendFacts DEF StoreInv, TypeOK
  <1> HIDE DEF x
  <1>5. IntentPrecedesActivation'
    BY <1>1, <1>3, <1>4 DEF StoreInv, IntentPrecedesActivation, Intent, Done
  <1>6. PointersAgree' /\ ApprovalBinding'
    BY <1>1 DEF StoreInv, PointersAgree, ApprovalBinding, ApprovalIds
  <1> QED
    BY <1>1, <1>2, <1>4, <1>5, <1>6 DEF StoreInv, TypeOK

LEMMA MarkInv ==
    ASSUME StoreInv, NEW id \in VersionIds, NEW state \in VersionStates,
           MarkVersionState(id, state)
    PROVE  StoreInv'
  <1>1. versions' \in Seq(Version) /\ VersionIds' = VersionIds
    BY StateUpdate DEF MarkVersionState
  <1> QED
    BY <1>1 DEF MarkVersionState, StoreInv, TypeOK, PointersAgree, Intent, Done,
                ApprovalBinding, ApprovalIds, IntentPrecedesActivation

LEMMA AuditInv ==
    ASSUME StoreInv, NEW action \in ApplyActions,
           NEW id \in VersionIds \cup {0}, AppendAudit(action, "failed", id)
    PROVE  StoreInv'
  <1> USE DEF AppendAudit, AppendAuditTx
  <1>1. id \in Nat
    BY DEF StoreInv, TypeOK, VersionIds
  <1>2. Entry(action, "failed", id) \in AuditEntry
    BY <1>1 DEF Entry, AuditEntry
  <1>3. IntentPrecedesActivation' /\ audit' \in Seq(AuditEntry)
    BY <1>2, PlainEntry DEF StoreInv, TypeOK, Entry, VersionIds
  <1> QED
    BY <1>3 DEF StoreInv, TypeOK, PointersAgree, ApprovalBinding, VersionIds,
                ApprovalIds

LEMMA StoreStepInv == StoreInv /\ [StoreNext]_storeVars => StoreInv'
  <1> SUFFICES ASSUME StoreInv, [StoreNext]_storeVars PROVE StoreInv'
    OBVIOUS
  <1>1. CASE UNCHANGED storeVars
    BY <1>1 DEF storeVars, StoreInv, TypeOK, PointersAgree, ApprovalBinding,
         IntentPrecedesActivation, VersionIds, ApprovalIds, Intent, Done
  <1>2. CASE StoreNext
    <2>1. ASSUME NEW p \in Policies,
                 NEW expected \in {NoExpectation, CandidateRevision},
                 SetCandidateWithAuditIfRevision(p, expected)
          PROVE  StoreInv'
      BY <2>1, StageInv
    <2>2. CASE CreateChangeApproval(CandidateRevision)
      BY <2>2, ApproveInv
    <2>3. ASSUME NEW p \in Policies, NEW action \in ApplyActions,
                 NEW source \in 0..MaxSource,
                 NEW approval \in ApprovalIds \cup {NoApproval},
                 PreparePolicyApply(p, action, source, approval,
                   IF approval = NoApproval THEN NoExpectation
                                            ELSE approvals[approval].revision)
          PROVE  StoreInv'
      <3>1. approval \in Nat /\ source \in Nat
        BY SourceAssumption DEF StoreInv, TypeOK, ApprovalIds, NoApproval
      <3> QED
        BY <2>3, <3>1, PrepareInv
    <2>4. ASSUME NEW id \in VersionIds,
                 ActivatePreparedVersion(id, versions[id].action)
          PROVE  StoreInv'
      <3>1. versions[id].action \in ApplyActions
        BY ElementTypes DEF StoreInv, Version
      <3> QED
        BY <2>4, <3>1, ActivateInv
    <2>5. ASSUME NEW id \in VersionIds, NEW state \in VersionStates,
                 MarkVersionState(id, state)
          PROVE  StoreInv'
      BY <2>5, MarkInv
    <2>6. ASSUME NEW action \in ApplyActions, NEW id \in VersionIds \cup {0},
                 AppendAudit(action, "failed", id)
          PROVE  StoreInv'
      BY <2>6, AuditInv
    <2> QED
      BY <1>2, <2>1, <2>2, <2>3, <2>4, <2>5, <2>6 DEF StoreNext
  <1> QED
    BY <1>1, <1>2

(***************************************************************************)
(* Whatever order callers run the store's transactions in: the state keeps *)
(* its type, the two pointers agree and name a recorded version, every     *)
(* spent approval belongs to one version, and every version has one intent *)
(* that precedes its activation in the audit log.                          *)
(***************************************************************************)
THEOREM StoreCorrect == StoreSpec => []StoreInv
  BY StoreInitInv, StoreStepInv, PTL DEF StoreSpec

(***************************************************************************)
(* No transaction of the store changes an approval that is spent.          *)
(***************************************************************************)
THEOREM StoreSpendsOnce == StoreSpec => ApprovalSpentOnce
  <1> DEFINE Kept == \A a \in ApprovalIds :
                       approvals[a].consumed => approvals'[a] = approvals[a]
  <1>1. StoreInv /\ [StoreNext]_storeVars => [Kept]_storeVars
    <2> SUFFICES ASSUME StoreInv, StoreNext, NEW a \in ApprovalIds,
                        approvals[a].consumed
                 PROVE  approvals'[a] = approvals[a]
      OBVIOUS
    <2>1. approvals \in Seq(Approval) /\ DOMAIN approvals = 1..Len(approvals)
      BY DEF StoreInv, TypeOK
    <2>2. CASE CreateChangeApproval(CandidateRevision)
      BY <2>1, <2>2 DEF CreateChangeApproval, ApprovalIds
    <2>3. ASSUME NEW p, NEW action, NEW source, NEW approval, NEW revision,
                 PreparePolicyApply(p, action, source, approval, revision)
          PROVE  approvals'[a] = approvals[a]
      BY <2>1, <2>3 DEF PreparePolicyApply, Consumable, Consume, ApprovalIds
    <2>4. CASE UNCHANGED approvals
      BY <2>4
    <2> QED
      BY <2>2, <2>3, <2>4 DEF StoreNext, SetCandidateWithAuditIfRevision,
           ActivatePreparedVersion, MarkVersionState, AppendAudit
  <1> QED
    BY <1>1, StoreCorrect, PTL DEF StoreSpec, ApprovalSpentOnce
============================================================================
