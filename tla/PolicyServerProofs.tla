------------------------- MODULE PolicyServerProofs -------------------------
(***************************************************************************)
(* Proofs about the policy service, for every set of policies, number of   *)
(* engines, mix of requests and combination of faults.                     *)
(***************************************************************************)
EXTENDS PolicyServer, PolicyStoreProofs

\* The inductive invariant.
ServerInv ==
    /\ ServerTypeOK
    /\ StoreInv
    /\ JobConsistent
    /\ RunningIsNewestActive
    /\ CommitNeedsApproval

LEMMA ServerInitInv == Init => ServerInv
  <1> SUFFICES ASSUME Init PROVE ServerInv
    OBVIOUS
  <1>1. StoreInv
    BY StoreInitInv DEF Init
  <1>2. job \in Job /\ job.pc = "down"
    BY PoliciesAssumption, SourceAssumption, ServerAssumption
       DEF Init, At, Job, JobSteps, ApplyActions, NoApproval, VersionStates
  <1>3. ServerTypeOK
    BY <1>1, <1>2 DEF Init, ServerTypeOK, StoreInv
  <1>4. JobConsistent
    BY <1>2 DEF Init, StoreInit, JobConsistent, VersionIds
  <1>5. RunningIsNewestActive /\ CommitNeedsApproval
    BY DEF Init, StoreInit, RunningIsNewestActive, CommitNeedsApproval,
           VersionIds, ApprovalIds
  <1> QED
    BY <1>1, <1>3, <1>4, <1>5 DEF ServerInv

----------------------------------------------------------------------------
(* Every step of the service is a transaction of the store or leaves it    *)
(* unchanged.                                                              *)

LEMMA ServerStepIsStoreStep ==
    ASSUME ServerInv, [Next]_vars
    PROVE  [StoreNext]_storeVars
  <1> USE DEF ServerInv
  <1>1. CASE UNCHANGED vars
    BY <1>1 DEF vars, storeVars
  <1>2. CASE Edit
    BY <1>2 DEF Edit, SetCandidate, StageUnlocked, StoreNext
  <1>3. CASE ApproveCandidate
    BY <1>3 DEF ApproveCandidate, StoreNext
  <1>4. CASE Start
    BY <1>4 DEF Start, CommitBegin, RollbackBegin, PullBegin
  <1>5. CASE CancelRequest \/ Crash \/ BootStep
    BY <1>5 DEF CancelRequest, Crash, BootStep, Boot, BootEngine, BootFails
  <1>6. CASE JobStep
    <2>1. job.action \in ApplyActions /\ job.policy \in Policies
          /\ job.source \in 0..MaxSource
      BY DEF ServerTypeOK, Job
    <2>2. CASE \/ CommitCheck \/ EngineApplied \/ EngineFailed
               \/ RestoreEngine \/ ActivateFails
      BY <2>2 DEF CommitCheck, EngineApplied, EngineFailed, RestoreEngine,
                  ActivateFails
    <2>3. CASE ApplyReject
      BY <2>1, <2>3 DEF ApplyReject, BestEffort, StoreNext
    <2>4. CASE ApplyPrepare
      <3> DEFINE revision == IF job.approval = NoApproval THEN NoExpectation
                             ELSE approvals[job.approval].revision
      <3>1. PreparePolicyApply(job.policy, job.action, job.source,
                               job.approval, job.revision)
        BY <2>4 DEF ApplyPrepare
      <3>2. job.approval \in ApprovalIds \cup {NoApproval}
        BY <3>1 DEF PreparePolicyApply, Consumable
      <3>3. PreparePolicyApply(job.policy, job.action, job.source,
                               job.approval, revision)
        BY <3>1 DEF PreparePolicyApply, Consumable
      <3> HIDE DEF revision
      <3> QED
        BY <2>1, <3>2, <3>3 DEF StoreNext, revision
    <2>5. CASE Activate
      <3>1. job.id \in VersionIds /\ versions[job.id].action = job.action
        BY <2>5, ElementTypes
           DEF Activate, JobConsistent, OwnsPrepared, StoreInv
      <3> QED
        BY <2>5, <3>1 DEF Activate, StoreNext
    <2>6. CASE MarkOutcome
      <3>1. job.id \in VersionIds /\ job.outcome \in VersionStates
        BY <2>6, ElementTypes DEF MarkOutcome, JobConsistent, OwnsPrepared,
                                  StoreInv, ServerTypeOK, Job
      <3> QED
        BY <2>6, <3>1 DEF MarkOutcome, BestEffort, StoreNext
    <2>7. CASE ReportFailure
      <3>1. job.id \in VersionIds
        BY <2>7, ElementTypes DEF ReportFailure, JobConsistent, StoreInv
      <3> QED
        BY <2>1, <2>7, <3>1 DEF ReportFailure, BestEffort, StoreNext
    <2> QED
      BY <1>6, <2>2, <2>3, <2>4, <2>5, <2>6, <2>7 DEF JobStep
  <1> QED
    BY <1>1, <1>2, <1>3, <1>4, <1>5, <1>6 DEF Next

LEMMA StoreInvKept == ASSUME ServerInv, [Next]_vars PROVE StoreInv'
  BY ServerStepIsStoreStep, StoreStepInv DEF ServerInv

----------------------------------------------------------------------------
(* Types.                                                                  *)

LEMMA AtType == ASSUME NEW pc \in JobSteps PROVE At(pc) \in Job
  BY PoliciesAssumption, SourceAssumption, ServerAssumption
     DEF At, Job, ApplyActions, NoApproval, VersionStates

\* The running policy is a policy; so is every recorded one.
LEMMA RunningPolicyType ==
    ASSUME StoreInv PROVE RunningPolicy \in Policies
  BY PoliciesAssumption, ElementTypes
     DEF StoreInv, PointersAgree, RunningPolicy, Version

LEMMA EngineSteps ==
    ASSUME ServerInv, NEW e \in Engines,
           \/ \E p \in Policies : EngineTakes(e, p)
           \/ \E fault : EngineFails(e, fault)
    PROVE  engine' \in [Engines -> Policies \cup {Unmanaged, Mixed}]
  BY DEF ServerInv, ServerTypeOK, EngineTakes, EngineFails

LEMMA JobTypeKept ==
    ASSUME ServerInv, [Next]_vars
    PROVE  job' \in Job
  <1> USE DEF ServerInv
  <1>1. job \in Job
    BY DEF ServerTypeOK
  <1>2. \A pc \in JobSteps : At(pc) \in Job
    BY AtType
  <1>3. CASE UNCHANGED job
    BY <1>1, <1>3
  <1>4. CASE Start
    <2>1. ASSUME NEW p \in Policies, NEW approval \in ApprovalIds \cup {NoApproval},
                 CommitBegin(<<"sha256", p>>, approval)
          PROVE  job' \in Job
      <3>1. candidate \in Policies
        BY <2>1 DEF CommitBegin, StoreInv, TypeOK
      <3>2. approval \in Nat
        BY ElementTypes DEF StoreInv, NoApproval
      <3>3. <<"sha256", p>> \in Revisions
        BY DEF Revisions
      <3>4. At("read") \in Job
        BY <1>2 DEF JobSteps
      <3> QED
        BY <2>1, <3>1, <3>2, <3>3, <3>4 DEF CommitBegin, Job
    <2>2. ASSUME NEW v \in VersionIds, RollbackBegin(v) PROVE job' \in Job
      <3>1. versions[v].policy \in Policies /\ v \in 0..MaxSource
        BY <2>2, ElementTypes, ServerAssumption, SourceAssumption
           DEF RollbackBegin, MayStart, StoreInv, Version
      <3>2. At("ready") \in Job
        BY <1>2 DEF JobSteps
      <3> QED
        BY <2>2, <3>1, <3>2 DEF RollbackBegin, Job, ApplyActions
    <2>3. ASSUME NEW p \in Policies, NEW source \in 1..MaxSource,
                 PullBegin(p, source)
          PROVE  job' \in Job
      <3>1. At("ready") \in Job /\ source \in 0..MaxSource
        BY <1>2, SourceAssumption DEF JobSteps
      <3> QED
        BY <2>3, <3>1 DEF PullBegin, Job, ApplyActions
    <2> QED
      BY <1>4, <2>1, <2>2, <2>3 DEF Start
  <1>5. CASE CancelRequest
    BY <1>1, <1>5 DEF CancelRequest, Job
  <1>6. CASE JobStep
    <2>1. CASE CommitCheck
      BY <2>1, <1>1, <1>2 DEF CommitCheck, Job, JobSteps
    <2>2. CASE ApplyReject \/ Activate \/ ReportFailure
      BY <2>2, <1>2 DEF ApplyReject, Activate, ReportFailure, JobSteps
    <2>3. CASE ApplyPrepare
      <3>1. Len(versions) + 1 \in Nat /\ 1 \in 0..NumEngines
        BY ElementTypes, ServerAssumption DEF StoreInv
      <3> QED
        BY <2>3, <3>1, <1>1 DEF ApplyPrepare, Job, JobSteps
    <2>4. CASE EngineApplied
      BY <2>4, <1>1, ServerAssumption
         DEF EngineApplied, Job, JobSteps
    <2>5. CASE EngineFailed
      BY <2>5, <1>1 DEF EngineFailed, Job, JobSteps
    <2>6. CASE RestoreEngine
      <3>1. job.pc = "restore" /\ job.step # 0 /\ job.step \in 0..NumEngines
        BY <2>6, <1>1 DEF RestoreEngine, JobConsistent, Job
      <3>2. job' = IF job.step = 1
                     THEN [job EXCEPT !.pc = "mark", !.outcome = "apply_failed"]
                     ELSE [job EXCEPT !.step = job.step - 1]
        BY <2>6 DEF RestoreEngine
      <3>3. job.step - 1 \in 0..NumEngines
        BY <3>1, ServerAssumption
      <3> QED
        BY <3>2, <3>3, <1>1 DEF Job, JobSteps, VersionStates
    <2>7. CASE ActivateFails
      BY <2>7, <1>1 DEF ActivateFails, Job, JobSteps, VersionStates
    <2>8. CASE MarkOutcome
      BY <2>8, <1>1 DEF MarkOutcome, Job, JobSteps
    <2> QED
      BY <1>6, <2>1, <2>2, <2>3, <2>4, <2>5, <2>6, <2>7, <2>8 DEF JobStep
  <1>7. CASE Crash
    BY <1>7, <1>2 DEF Crash, JobSteps
  <1>8. CASE BootStep
    <2>1. CASE Boot
      <3>1. At("boot") \in Job /\ At("idle") \in Job /\ 1 \in 0..NumEngines
        BY <1>2, ServerAssumption DEF JobSteps
      <3>2. RunningPolicy \in Policies
        BY RunningPolicyType
      <3> QED
        BY <2>1, <3>1, <3>2 DEF Boot, Job
    <2>2. CASE BootEngine
      BY <2>2, <1>1, <1>2, ServerAssumption DEF BootEngine, Job, JobSteps
    <2>3. CASE BootFails
      BY <2>3, <1>2 DEF BootFails, JobSteps
    <2> QED
      BY <1>8, <2>1, <2>2, <2>3 DEF BootStep
  <1> QED
    BY <1>3, <1>4, <1>5, <1>6, <1>7, <1>8
       DEF Next, Edit, SetCandidate, StageUnlocked, ApproveCandidate, vars

LEMMA EngineTypeKept ==
    ASSUME ServerInv, [Next]_vars
    PROVE  engine' \in [Engines -> Policies \cup {Unmanaged, Mixed}]
  <1> USE DEF ServerInv
  <1>1. CASE UNCHANGED engine
    BY <1>1 DEF ServerTypeOK
  <1>2. CASE EngineApplied \/ EngineFailed \/ RestoreEngine \/ BootEngine
             \/ BootFails
    <2>1. job.step \in Engines /\ job.policy \in Policies
      BY <1>2, ServerAssumption
         DEF EngineApplied, EngineFailed, RestoreEngine, BootEngine, BootFails,
             ServerTypeOK, Job, JobConsistent, Engines
    <2>2. RunningPolicy \in Policies
      BY RunningPolicyType
    <2> QED
      BY <1>2, <2>1, <2>2, EngineSteps
         DEF EngineApplied, EngineFailed, RestoreEngine, BootEngine, BootFails
  <1>3. CASE Crash
    BY <1>3 DEF Crash, ServerTypeOK
  <1> QED
    BY <1>1, <1>2, <1>3
       DEF Next, Edit, SetCandidate, StageUnlocked, ApproveCandidate, vars,
           Start, CommitBegin, RollbackBegin, PullBegin, CancelRequest, JobStep,
           CommitCheck, ApplyReject, ApplyPrepare, Activate, ActivateFails,
           MarkOutcome, ReportFailure, BootStep, Boot

LEMMA TypeKept == ASSUME ServerInv, [Next]_vars PROVE ServerTypeOK'
  BY StoreInvKept, JobTypeKept, EngineTypeKept DEF ServerTypeOK, StoreInv

----------------------------------------------------------------------------
(* JobConsistent.  First the part that only the store's content decides.   *)

RecordsNormal ==
    /\ candidate # NoPolicy => Normalize[candidate] = candidate
    /\ \A v \in VersionIds : Normalize[versions[v].policy] = versions[v].policy

LEMMA RunningPolicyNormal ==
    ASSUME StoreInv, RecordsNormal, running # 0
    PROVE  Normalize[RunningPolicy] = RunningPolicy
  BY DEF StoreInv, PointersAgree, RunningPolicy, RecordsNormal

\* A step that leaves versions alone and stages a normalized candidate, or
\* none, while job and engine stay as they are.
LEMMA CandidateStep ==
    ASSUME ServerInv, UNCHANGED <<versions, running, job, engine>>,
           candidate' # NoPolicy => Normalize[candidate'] = candidate'
    PROVE  JobConsistent'
  BY DEF ServerInv, JobConsistent, OwnsPrepared, Switched, RunningPolicy,
         VersionIds

LEMMA EditConsistent ==
    ASSUME ServerInv, Edit \/ ApproveCandidate
    PROVE  JobConsistent'
  <1>1. ASSUME NEW p \in Policies, NEW expected,
               SetCandidate(p, expected) \/ StageUnlocked(p, expected)
        PROVE  JobConsistent'
    <2>1. SetCandidateWithAuditIfRevision(p, expected) /\ UNCHANGED <<engine, job>>
      BY <1>1 DEF SetCandidate, StageUnlocked
    <2>2. candidate' = Normalize[p] /\ UNCHANGED <<versions, running>>
      BY <2>1 DEF SetCandidateWithAuditIfRevision
    <2> QED
      BY <2>1, <2>2, NormalizeAssumption, CandidateStep
  <1>2. CASE ApproveCandidate
    BY <1>2, CandidateStep DEF ApproveCandidate, CreateChangeApproval,
         ServerInv, JobConsistent
  <1> QED
    BY <1>1, <1>2 DEF Edit

\* Steps that only move the job to a state where it owns nothing yet.
LEMMA StartConsistent ==
    ASSUME ServerInv, Start
    PROVE  JobConsistent'
  <1> USE DEF ServerInv
  <1>0. job.pc = "idle" /\ UNCHANGED <<storeVars, engine>>
    BY DEF Start, CommitBegin, RollbackBegin, PullBegin, MayStart, MutexFree
  <1>1. /\ job'.pc \in {"read", "ready"}
        /\ job'.pc = "read" => job'.action = "commit"
        /\ job'.action # "commit" => job'.approval = NoApproval
        /\ Normalize[job'.policy] = job'.policy
    <2>1. ASSUME NEW p, NEW approval, CommitBegin(<<"sha256", p>>, approval)
          PROVE  /\ job'.pc = "read" /\ job'.action = "commit"
                 /\ job'.policy = candidate /\ candidate # NoPolicy
      BY <2>1 DEF CommitBegin, At
    <2>2. ASSUME NEW v \in VersionIds, RollbackBegin(v)
          PROVE  /\ job'.pc = "ready" /\ job'.approval = NoApproval
                 /\ job'.policy = versions[v].policy
      BY <2>2 DEF RollbackBegin, At
    <2>3. ASSUME NEW p, NEW source, PullBegin(p, source)
          PROVE  /\ job'.pc = "ready" /\ job'.approval = NoApproval
                 /\ job'.policy = p /\ Normalize[p] = p
      BY <2>3 DEF PullBegin, At
    <2> QED
      BY <2>1, <2>2, <2>3 DEF Start, JobConsistent
  <1> QED
    BY <1>0, <1>1 DEF JobConsistent, storeVars, RunningPolicy, VersionIds

\* The job ends or is lost; no engine is touched.
LEMMA JobEnds ==
    ASSUME ServerInv, job'.pc = "idle", UNCHANGED <<versions, running, engine>>,
           candidate' \in {candidate, NoPolicy},
           \/ job.pc \in {"read", "ready"}
           \/ Len(versions) # 0 /\ Len(versions) # running
           \/ Len(versions) = 0
    PROVE  JobConsistent'
  BY DEF ServerInv, JobConsistent, RunningPolicy, VersionIds, StoreInv,
         PointersAgree

\* A newest version that is not active is not the running one.
LEMMA NewestNotRunning ==
    ASSUME ServerInv, Len(versions) # 0,
           versions[Len(versions)].state # "active"
    PROVE  Len(versions) # running
  BY DEF ServerInv, RunningIsNewestActive

\* What a job step that leaves the store alone has to show.
LEMMA EnginePhase ==
    ASSUME ServerInv, UNCHANGED storeVars, OwnsPrepared,
           job'.pc \in {"apply", "restore", "activate", "mark"},
           job'.id = job.id, job'.policy = job.policy, job'.action = job.action,
           job'.pc \in {"apply", "restore"} => job'.step # 0,
           job'.pc = "apply" => Switched(job.step)' ,
           job'.pc = "activate" => Switched(NumEngines + 1)',
           job'.pc = "mark" =>
               job'.outcome \in {"apply_failed", "activation_failed"}
    PROVE  JobConsistent'
  BY DEF ServerInv, JobConsistent, OwnsPrepared, storeVars, VersionIds

LEMMA ApplyConsistent ==
    ASSUME ServerInv, EngineApplied
    PROVE  JobConsistent'
  <1> USE DEF ServerInv
  <1>1. /\ job.pc = "apply" /\ OwnsPrepared /\ Switched(job.step)
        /\ job \in Job /\ job.step \in Engines
    BY ServerAssumption
       DEF EngineApplied, JobConsistent, ServerTypeOK, Job, Engines
  <1>2. engine' = [engine EXCEPT ![job.step] = job.policy] /\ UNCHANGED storeVars
    BY DEF EngineApplied, EngineTakes
  <1>3. engine \in [Engines -> Policies \cup {Unmanaged, Mixed}]
    BY DEF ServerTypeOK
  <1>4. \A e \in Engines : e < job.step + 1 => engine'[e] = job.policy
    BY <1>1, <1>2, <1>3 DEF Switched, Engines
  <1>5. CASE job.step = NumEngines
    <2>1. job' = [job EXCEPT !.pc = "activate"]
      BY <1>5 DEF EngineApplied
    <2>2. /\ job'.pc = "activate" /\ job'.id = job.id
          /\ job'.policy = job.policy /\ job'.action = job.action
      BY <2>1, <1>1 DEF Job
    <2>3. Switched(NumEngines + 1)'
      BY <1>4, <1>5, <2>2 DEF Switched
    <2> QED
      BY <1>1, <1>2, <2>2, <2>3, EnginePhase
  <1>6. CASE job.step # NumEngines
    <2>1. job' = [job EXCEPT !.step = job.step + 1]
      BY <1>6 DEF EngineApplied
    <2>2. /\ job'.pc = "apply" /\ job'.id = job.id /\ job'.step = job.step + 1
          /\ job'.policy = job.policy /\ job'.action = job.action
      BY <2>1, <1>1 DEF Job
    <2>3. Switched(job.step)' /\ job'.step # 0
      BY <1>1, <1>4, <2>2 DEF Switched, Engines
    <2> QED
      BY <1>1, <1>2, <2>2, <2>3, EnginePhase
  <1> QED
    BY <1>5, <1>6

LEMMA FailConsistent ==
    ASSUME ServerInv, EngineFailed \/ RestoreEngine \/ ActivateFails
    PROVE  JobConsistent'
  <1> USE DEF ServerInv
  <1>1. job \in Job /\ OwnsPrepared /\ UNCHANGED storeVars
    BY DEF EngineFailed, RestoreEngine, ActivateFails, JobConsistent,
           ServerTypeOK
  <1>2. CASE EngineFailed
    BY <1>1, <1>2, EnginePhase DEF EngineFailed, Job, JobConsistent
  <1>3. CASE RestoreEngine
    <2>1. job.step # 0 /\ job.step \in Nat /\ job.pc = "restore"
      BY <1>3, <1>1, ServerAssumption DEF RestoreEngine, Job, JobConsistent
    <2>2. CASE job.step = 1
      <3>1. job' = [job EXCEPT !.pc = "mark", !.outcome = "apply_failed"]
        BY <1>3, <2>2 DEF RestoreEngine
      <3> QED
        BY <1>1, <3>1, EnginePhase DEF Job
    <2>3. CASE job.step # 1
      <3>1. job' = [job EXCEPT !.step = job.step - 1]
        BY <1>3, <2>3 DEF RestoreEngine
      <3> QED
        BY <1>1, <2>1, <2>3, <3>1, EnginePhase DEF Job
    <2> QED
      BY <2>2, <2>3
  <1>4. CASE ActivateFails
    BY <1>1, <1>4, EnginePhase DEF ActivateFails, Job
  <1> QED
    BY <1>2, <1>3, <1>4

LEMMA CancelConsistent ==
    ASSUME ServerInv, CancelRequest
    PROVE  JobConsistent'
  <1> USE DEF ServerInv
  <1>1. job \in Job /\ job.pc \in {"apply", "restore"}
    BY DEF CancelRequest, ServerTypeOK
  <1>2. /\ job'.pc = job.pc /\ job'.id = job.id /\ job'.step = job.step
        /\ job'.policy = job.policy /\ job'.action = job.action
    BY <1>1 DEF CancelRequest, Job
  <1> QED
    BY <1>1, <1>2, EnginePhase
       DEF CancelRequest, JobConsistent, Switched

LEMMA CheckConsistent ==
    ASSUME ServerInv, CommitCheck \/ ApplyReject
    PROVE  JobConsistent'
  <1> USE DEF ServerInv
  <1>1. job \in Job /\ job.pc \in {"read", "ready"} /\ UNCHANGED engine
        /\ UNCHANGED <<versions, running, candidate>>
    BY DEF CommitCheck, ApplyReject, ServerTypeOK, BestEffort, AppendAudit,
           storeVars
  <1>2. CASE job'.pc = "idle"
    BY <1>1, <1>2, JobEnds
  <1>3. CASE job' = [job EXCEPT !.pc = "ready"] /\ job.pc = "read"
    <2>1. /\ job'.pc = "ready" /\ job'.policy = job.policy
          /\ job'.action = job.action /\ job'.action = "commit"
      BY <1>1, <1>3 DEF Job, JobConsistent
    <2> QED
      BY <1>1, <1>3, <2>1 DEF JobConsistent, RunningPolicy, VersionIds
  <1> QED
    BY <1>2, <1>3 DEF CommitCheck, ApplyReject, At

LEMMA PrepareFacts ==
    ASSUME ServerInv, ApplyPrepare
    PROVE  /\ Len(versions') = Len(versions) + 1 /\ Len(versions) \in Nat
           /\ VersionIds' = VersionIds \cup {Len(versions) + 1}
           /\ Len(versions) + 1 \notin VersionIds
           /\ \A v \in VersionIds : versions'[v] = versions[v]
           /\ versions'[Len(versions) + 1].policy = job.policy
           /\ versions'[Len(versions) + 1].action = job.action
           /\ versions'[Len(versions) + 1].state = "prepared"
           /\ UNCHANGED <<candidate, running, engine>>
  <1> USE DEF ServerInv
  <1> DEFINE new == [policy |-> Normalize[job.policy], action |-> job.action,
                     source |-> job.source, state |-> "prepared"]
  <1>1. versions' = Append(versions, new) /\ UNCHANGED <<candidate, running, engine>>
    BY DEF ApplyPrepare, PreparePolicyApply
  <1>2. job \in Job /\ Normalize[job.policy] = job.policy
    BY DEF ApplyPrepare, JobConsistent, ServerTypeOK
  <1>3. new \in Version
    BY <1>2, SourceAssumption DEF Job, Version, VersionStates
  <1>4. versions \in Seq(Version)
    BY DEF StoreInv, TypeOK
  <1>5. new.policy = job.policy /\ new.action = job.action
        /\ new.state = "prepared"
    BY <1>2
  <1> HIDE DEF new
  <1> QED
    BY <1>1, <1>3, <1>4, <1>5, AppendFacts DEF VersionIds

LEMMA PrepareConsistent ==
    ASSUME ServerInv, ApplyPrepare
    PROVE  JobConsistent'
  <1> USE DEF ServerInv
  <1>1. job \in Job /\ job.pc = "ready" /\ Normalize[job.policy] = job.policy
    BY DEF ApplyPrepare, JobConsistent, ServerTypeOK
  <1>2. /\ job'.pc = "apply" /\ job'.id = Len(versions) + 1 /\ job'.step = 1
        /\ job'.policy = job.policy /\ job'.action = job.action
    BY <1>1 DEF ApplyPrepare, Job
  <1>3. Switched(1)'
    BY DEF Switched, Engines
  <1>4. OwnsPrepared'
    BY <1>2, PrepareFacts DEF OwnsPrepared
  <1>5. RecordsNormal'
    BY <1>1, PrepareFacts DEF RecordsNormal, JobConsistent
  <1> QED
    BY <1>2, <1>3, <1>4, <1>5, PrepareFacts
       DEF JobConsistent, RecordsNormal, Switched

\* Activation changes one version's state and the pointers.
LEMMA ActivateFacts ==
    ASSUME ServerInv, Activate
    PROVE  /\ job.id \in VersionIds /\ OwnsPrepared
           /\ VersionIds' = VersionIds /\ Len(versions') = Len(versions)
           /\ versions'[job.id].state = "active"
           /\ versions'[job.id].policy = versions[job.id].policy
           /\ versions'[job.id].action = versions[job.id].action
           /\ versions'[job.id].source = versions[job.id].source
           /\ \A v \in VersionIds : v # job.id => versions'[v] = versions[v]
           /\ running' = job.id /\ candidate' = NoPolicy
           /\ UNCHANGED <<engine, approvals>> /\ job'.pc = "idle"
  <1>1. OwnsPrepared /\ ActivatePreparedVersion(job.id, job.action)
    BY DEF ServerInv, Activate, JobConsistent
  <1>2. job.id \in VersionIds
    BY <1>1 DEF ActivatePreparedVersion
  <1>3. versions' = [versions EXCEPT ![job.id].state = "active"]
    BY <1>1 DEF ActivatePreparedVersion
  <1>4. "active" \in VersionStates
    BY DEF VersionStates
  <1>5. StoreInv
    BY DEF ServerInv
  <1> QED
    BY <1>1, <1>2, <1>3, <1>4, <1>5, StateUpdate
       DEF Activate, ActivatePreparedVersion, At

LEMMA ActivateConsistent ==
    ASSUME ServerInv, Activate
    PROVE  JobConsistent'
  <1>1. \A e \in Engines : engine[e] = job.policy
    BY ServerAssumption
       DEF ServerInv, Activate, JobConsistent, Switched, Engines
  <1>2. RunningPolicy' = job.policy /\ Len(versions') # 0
    BY ActivateFacts, ElementTypes
       DEF RunningPolicy, OwnsPrepared, ServerInv, StoreInv
  <1>3. RecordsNormal'
    BY ActivateFacts DEF RecordsNormal, ServerInv, JobConsistent
  <1> QED
    BY <1>1, <1>2, <1>3, ActivateFacts DEF JobConsistent, RecordsNormal

\* A mark changes the state of the newest version, or nothing.
LEMMA MarkFacts ==
    ASSUME ServerInv, MarkOutcome
    PROVE  /\ OwnsPrepared /\ job.id \in VersionIds
           /\ VersionIds' = VersionIds /\ Len(versions') = Len(versions)
           /\ versions'[job.id].state # "active"
           /\ versions'[job.id].policy = versions[job.id].policy
           /\ versions'[job.id].action = versions[job.id].action
           /\ versions'[job.id].source = versions[job.id].source
           /\ \A v \in VersionIds : v # job.id => versions'[v] = versions[v]
           /\ UNCHANGED <<running, candidate, approvals, engine>>
           /\ job'.pc = "report" /\ job'.id = job.id
  <1>1. /\ OwnsPrepared /\ job \in Job /\ StoreInv
        /\ job.outcome \in {"apply_failed", "activation_failed"}
    BY DEF ServerInv, ServerTypeOK, MarkOutcome, JobConsistent
  <1>2. job'.pc = "report" /\ job'.id = job.id /\ job.id \in VersionIds
    BY <1>1, ElementTypes DEF MarkOutcome, Job, OwnsPrepared, StoreInv
  <1>3. CASE UNCHANGED storeVars
    BY <1>1, <1>2, <1>3 DEF storeVars, OwnsPrepared, VersionIds, MarkOutcome
  <1>4. CASE MarkVersionState(job.id, job.outcome)
    <2>1. versions' = [versions EXCEPT ![job.id].state = job.outcome]
      BY <1>4 DEF MarkVersionState
    <2>2. job.outcome \in VersionStates /\ job.outcome # "active"
      BY <1>1 DEF VersionStates
    <2> QED
      BY <1>1, <1>2, <1>4, <2>1, <2>2, StateUpdate
         DEF MarkVersionState, MarkOutcome
  <1> QED
    BY <1>3, <1>4 DEF MarkOutcome, BestEffort

LEMMA MarkConsistent ==
    ASSUME ServerInv, MarkOutcome
    PROVE  JobConsistent'
  <1>1. RecordsNormal'
    BY MarkFacts DEF RecordsNormal, ServerInv, JobConsistent
  <1> QED
    BY <1>1, MarkFacts DEF JobConsistent, RecordsNormal, OwnsPrepared

LEMMA ReportConsistent ==
    ASSUME ServerInv, ReportFailure
    PROVE  JobConsistent'
  <1>1. Len(versions) # 0 /\ Len(versions) # running
    BY NewestNotRunning DEF ServerInv, ReportFailure, JobConsistent
  <1>2. job'.pc = "idle" /\ UNCHANGED <<versions, running, engine, candidate>>
    BY DEF ReportFailure, BestEffort, AppendAudit, storeVars, At
  <1> QED
    BY <1>1, <1>2, JobEnds

LEMMA CrashConsistent ==
    ASSUME ServerInv, Crash
    PROVE  JobConsistent'
  <1>1. job'.pc = "down" /\ UNCHANGED storeVars
    BY DEF Crash, At
  <1>2. Len(versions) = 0 => \A e \in Engines : engine'[e] = Unmanaged
    BY DEF ServerInv, Crash, JobConsistent
  <1> QED
    BY <1>1, <1>2 DEF ServerInv, JobConsistent, storeVars, VersionIds

LEMMA BootConsistent ==
    ASSUME ServerInv, BootStep
    PROVE  JobConsistent'
  <1> USE DEF ServerInv
  <1>0. job \in Job /\ engine \in [Engines -> Policies \cup {Unmanaged, Mixed}]
        /\ UNCHANGED storeVars
    BY DEF ServerTypeOK, BootStep, Boot, BootEngine, BootFails
  <1>1. CASE Boot
    <2>1. CASE running = 0
      <3>1. job'.pc = "idle" /\ UNCHANGED engine
        BY <1>1, <2>1 DEF Boot, At
      <3> QED
        BY <1>0, <2>1, <3>1 DEF JobConsistent, storeVars, VersionIds
    <2>2. CASE running # 0
      <3>1. /\ job'.pc = "boot" /\ job'.policy = RunningPolicy /\ job'.step = 1
            /\ UNCHANGED engine
        BY <1>1, <2>2 DEF Boot, At
      <3>2. Switched(1)'
        BY DEF Switched, Engines
      <3> QED
        BY <1>0, <2>2, <3>1, <3>2
           DEF JobConsistent, storeVars, VersionIds, Switched, RunningPolicy
    <2> QED
      BY <2>1, <2>2
  <1>2. CASE BootEngine
    <2>1. /\ job.pc = "boot" /\ running # 0 /\ job.policy = RunningPolicy
          /\ job.step \in Engines /\ Switched(job.step) /\ Len(versions) # 0
      BY <1>0, <1>2, ServerAssumption, ElementTypes
         DEF BootEngine, JobConsistent, Job, Engines, StoreInv, PointersAgree
    <2>2. engine' = [engine EXCEPT ![job.step] = job.policy]
      BY <1>2 DEF BootEngine, EngineTakes
    <2>3. \A e \in Engines : e < job.step + 1 => engine'[e] = RunningPolicy
      BY <1>0, <2>1, <2>2 DEF Switched, Engines
    <2>4. RunningPolicy' = RunningPolicy
      BY <1>0 DEF storeVars, RunningPolicy
    <2>5. CASE job.step = NumEngines
      <3>1. job'.pc = "idle"
        BY <1>2, <2>5 DEF BootEngine, At
      <3>2. \A e \in Engines : engine'[e] = RunningPolicy
        BY <2>3, <2>5, ServerAssumption DEF Engines
      <3> QED
        BY <1>0, <2>1, <2>4, <3>1, <3>2 DEF JobConsistent, storeVars, VersionIds
    <2>6. CASE job.step # NumEngines
      <3>1. job' = [job EXCEPT !.step = job.step + 1]
        BY <1>2, <2>6 DEF BootEngine
      <3>2. /\ job'.pc = "boot" /\ job'.policy = job.policy
            /\ job'.step = job.step + 1
        BY <1>0, <2>1, <3>1 DEF Job
      <3>3. Switched(job.step)' /\ job'.step # 0
        BY <2>1, <2>3, <3>2 DEF Switched, Engines
      <3> QED
        BY <1>0, <2>1, <2>4, <3>2, <3>3
           DEF JobConsistent, storeVars, VersionIds
    <2> QED
      BY <2>5, <2>6
  <1>3. CASE BootFails
    <2>1. job'.pc = "down" /\ Len(versions) # 0
      BY <1>3, ElementTypes
         DEF BootFails, At, JobConsistent, StoreInv, PointersAgree
    <2> QED
      BY <1>0, <2>1 DEF JobConsistent, storeVars, VersionIds
  <1> QED
    BY <1>1, <1>2, <1>3 DEF BootStep

LEMMA JobConsistentKept ==
    ASSUME ServerInv, [Next]_vars
    PROVE  JobConsistent'
  <1>1. CASE UNCHANGED vars
    BY <1>1 DEF ServerInv, vars, JobConsistent, OwnsPrepared, Switched,
                RunningPolicy, VersionIds
  <1>2. CASE JobStep
    BY <1>2, ApplyConsistent, FailConsistent, CheckConsistent,
       PrepareConsistent, ActivateConsistent, MarkConsistent, ReportConsistent
       DEF JobStep
  <1> QED
    BY <1>1, <1>2, EditConsistent, StartConsistent, CancelConsistent,
       CrashConsistent, BootConsistent DEF Next

----------------------------------------------------------------------------
(* The version history.  Three steps touch it, one the approvals alone.    *)

LEMMA OtherSteps ==
    ASSUME [Next]_vars, ~ApplyPrepare, ~Activate, ~MarkOutcome
    PROVE  /\ UNCHANGED <<versions, running>>
           /\ ApproveCandidate \/ UNCHANGED approvals
  BY DEF Next, vars, storeVars, Edit, SetCandidate, StageUnlocked,
         SetCandidateWithAuditIfRevision, ApproveCandidate,
         CreateChangeApproval, Start, CommitBegin, RollbackBegin, PullBegin,
         CancelRequest, JobStep, CommitCheck, ApplyReject, BestEffort,
         AppendAudit, EngineApplied, EngineFailed, RestoreEngine,
         ActivateFails, ReportFailure, Crash, BootStep, Boot, BootEngine,
         BootFails

LEMMA NewestActiveKept ==
    ASSUME ServerInv, [Next]_vars
    PROVE  RunningIsNewestActive'
  <1> USE DEF ServerInv
  <1>1. VersionIds = 1..Len(versions) /\ Len(versions) \in Nat
        /\ running \in VersionIds \cup {0}
    BY ElementTypes DEF StoreInv, PointersAgree
  <1>2. CASE ApplyPrepare
    BY <1>1, <1>2, PrepareFacts DEF RunningIsNewestActive
  <1>3. CASE Activate
    BY <1>1, <1>3, ActivateFacts DEF RunningIsNewestActive, OwnsPrepared
  <1>4. CASE MarkOutcome
    BY <1>1, <1>4, MarkFacts DEF RunningIsNewestActive, OwnsPrepared
  <1>5. CASE UNCHANGED <<versions, running>>
    BY <1>5 DEF RunningIsNewestActive, VersionIds
  <1> QED
    BY <1>2, <1>3, <1>4, <1>5, OtherSteps

\* The intent spends the approval of a commit and no other.
LEMMA PrepareSpends ==
    ASSUME ServerInv, ApplyPrepare
    PROVE  IF job.action = "commit"
             THEN /\ ApprovalIds' = ApprovalIds /\ job.approval \in ApprovalIds
                  /\ ~approvals[job.approval].consumed
                  /\ approvals'[job.approval].consumed
                  /\ approvals'[job.approval].version = Len(versions) + 1
                  /\ approvals'[job.approval].revision =
                       approvals[job.approval].revision
                  /\ approvals[job.approval].revision = job.revision
                  /\ \A a \in ApprovalIds :
                       a # job.approval => approvals'[a] = approvals[a]
             ELSE UNCHANGED approvals
  <1> USE DEF ServerInv
  <1>1. CASE job.action # "commit"
    BY <1>1 DEF ApplyPrepare, JobConsistent, PreparePolicyApply
  <1>2. CASE job.action = "commit"
    <2> DEFINE spent == Spent(approvals[job.approval], Len(versions) + 1)
    <2>1. /\ job.approval \in ApprovalIds
          /\ ~approvals[job.approval].consumed
          /\ approvals[job.approval].revision = job.revision
          /\ approvals' = [approvals EXCEPT ![job.approval] = spent]
      BY <1>2 DEF ApplyPrepare, PreparePolicyApply, Consumable, Consume
    <2>2. approvals \in Seq(Approval) /\ approvals[job.approval] \in Approval
          /\ Len(versions) + 1 \in Nat
      BY <2>1, ElementTypes DEF StoreInv, TypeOK
    <2>3. /\ spent \in Approval /\ spent.consumed
          /\ spent.version = Len(versions) + 1
          /\ spent.revision = approvals[job.approval].revision
      BY <2>2, SpentFacts
    <2> HIDE DEF spent
    <2> QED
      BY <1>2, <2>1, <2>2, <2>3, UpdateFacts DEF ApprovalIds
  <1> QED
    BY <1>1, <1>2

\* A new approval is open.
LEMMA ApproveFacts ==
    ASSUME ServerInv, ApproveCandidate
    PROVE  /\ ApprovalIds' = ApprovalIds \cup {Len(approvals) + 1}
           /\ ~approvals'[Len(approvals) + 1].consumed
           /\ \A a \in ApprovalIds : approvals'[a] = approvals[a]
  <1> DEFINE new == [revision |-> CandidateRevision, consumed |-> FALSE,
                     version |-> 0]
  <1>1. approvals' = Append(approvals, new)
    BY DEF ApproveCandidate, CreateChangeApproval
  <1>2. new \in Approval /\ ~new.consumed
    BY RevisionType DEF ServerInv, StoreInv, Approval
  <1>3. approvals \in Seq(Approval)
    BY DEF ServerInv, StoreInv, TypeOK
  <1> HIDE DEF new
  <1> QED
    BY <1>1, <1>2, <1>3, AppendFacts DEF ApprovalIds

LEMMA CommitNeedsApprovalKept ==
    ASSUME ServerInv, [Next]_vars
    PROVE  CommitNeedsApproval'
  <1> USE DEF ServerInv
  <1>1. CASE ApplyPrepare
    <2> DEFINE id == Len(versions) + 1
    <2>1. \A a \in ApprovalIds : approvals[a].version # id
      BY PrepareFacts, <1>1, ElementTypes DEF StoreInv, ApprovalBinding
    <2>2. CASE job.action = "commit"
      BY <1>1, <2>1, <2>2, PrepareFacts, PrepareSpends DEF CommitNeedsApproval
    <2>3. CASE job.action # "commit"
      BY <1>1, <2>1, <2>3, PrepareFacts, PrepareSpends
         DEF CommitNeedsApproval, ApprovalIds
    <2> QED
      BY <2>2, <2>3
  <1>2. CASE Activate
    BY <1>2, ActivateFacts DEF CommitNeedsApproval, ApprovalIds
  <1>3. CASE MarkOutcome
    BY <1>3, MarkFacts DEF CommitNeedsApproval, ApprovalIds
  <1>4. CASE ApproveCandidate
    <2>1. UNCHANGED versions
      BY <1>4 DEF ApproveCandidate, CreateChangeApproval
    <2>2. VersionIds' = VersionIds
      BY <2>1 DEF VersionIds
    <2> QED
      BY <1>4, <2>1, <2>2, ApproveFacts DEF CommitNeedsApproval
  <1>5. CASE UNCHANGED <<versions, approvals>>
    BY <1>5 DEF CommitNeedsApproval, VersionIds, ApprovalIds
  <1> QED
    BY <1>1, <1>2, <1>3, <1>4, <1>5, OtherSteps

----------------------------------------------------------------------------
LEMMA ServerStepInv == ServerInv /\ [Next]_vars => ServerInv'
  BY StoreInvKept, TypeKept, JobConsistentKept, NewestActiveKept,
     CommitNeedsApprovalKept DEF ServerInv

(***************************************************************************)
(* The whole inductive invariant of the policy service.                    *)
(***************************************************************************)
THEOREM ServerInvariant == Spec => []ServerInv
  BY ServerInitInv, ServerStepInv, PTL DEF Spec

(***************************************************************************)
(* Types are kept by every handler, fault and restart.                     *)
(***************************************************************************)
THEOREM TypeCorrect == Spec => []ServerTypeOK
  BY ServerInvariant, PTL DEF ServerInv

(***************************************************************************)
(* The service, with its interleavings and faults, only ever runs the      *)
(* store's transactions: what is proved of the store holds of it.          *)
(***************************************************************************)
THEOREM ServerImplementsStore == Spec => StoreSpec
  <1>1. Init => StoreInit
    BY DEF Init
  <1>2. ServerInv /\ [Next]_vars => [StoreNext]_storeVars
    BY ServerStepIsStoreStep
  <1> QED
    BY <1>1, <1>2, ServerInvariant, PTL DEF Spec, StoreSpec

(***************************************************************************)
(* The running version is the newest active one, after any number of       *)
(* failed, crashed and restarted commits, rollbacks and pulls.             *)
(***************************************************************************)
THEOREM RunningNewest == Spec => []RunningIsNewestActive
  BY ServerInvariant, PTL DEF ServerInv

(***************************************************************************)
(* Exactly the commits spend approvals, each its own.                      *)
(***************************************************************************)
THEOREM ApprovalsMatchCommits == Spec => []CommitNeedsApproval
  BY ServerInvariant, PTL DEF ServerInv

(***************************************************************************)
(* Engines that differ from the running policy while no job runs are       *)
(* always explained by a newer recorded version that is not active.        *)
(***************************************************************************)
THEOREM DivergenceExplained == Spec => []DivergenceHasBreadcrumb
  <1>1. ServerInv => DivergenceHasBreadcrumb
    BY DEF ServerInv, JobConsistent, DivergenceHasBreadcrumb, MutexFree
  <1> QED
    BY <1>1, ServerInvariant, PTL

----------------------------------------------------------------------------
(* Action properties.                                                      *)

(***************************************************************************)
(* Versions are only appended, and a version's state is final once it has  *)
(* left "prepared".                                                        *)
(***************************************************************************)
THEOREM HistoryAppendOnly == Spec => VersionHistory
  <1> DEFINE Step ==
        /\ Len(versions') \in {Len(versions), Len(versions) + 1}
        /\ \A v \in VersionIds :
             /\ [versions[v] EXCEPT !.state = versions'[v].state] = versions'[v]
             /\ versions[v].state # "prepared" => versions'[v] = versions[v]
  <1>1. ServerInv /\ [Next]_vars => [Step]_vars
    <2> SUFFICES ASSUME ServerInv, [Next]_vars PROVE Step
      OBVIOUS
    <2>1. \A v \in VersionIds :
            versions[v] \in Version /\ versions'[v] \in Version
      <3>1. VersionIds \subseteq VersionIds'
        BY PrepareFacts, ActivateFacts, MarkFacts, OtherSteps DEF VersionIds
      <3>2. TypeOK /\ TypeOK'
        BY StoreInvKept DEF ServerInv, StoreInv
      <3>3. \A v \in VersionIds' : versions'[v] \in Version
        BY <3>2, ElementTypes DEF TypeOK, VersionIds
      <3> QED
        BY <3>1, <3>2, <3>3, ElementTypes
    <2>2. \A r, t \in Version :
            /\ r.policy = t.policy /\ r.action = t.action
            /\ r.source = t.source
            => [r EXCEPT !.state = t.state] = t
      BY DEF Version
    <2>3. CASE ApplyPrepare
      BY <2>1, <2>2, <2>3, PrepareFacts
    <2>4. CASE Activate
      BY <2>1, <2>2, <2>4, ActivateFacts DEF OwnsPrepared
    <2>5. CASE MarkOutcome
      BY <2>1, <2>2, <2>5, MarkFacts DEF OwnsPrepared
    <2>6. CASE UNCHANGED versions
      BY <2>1, <2>2, <2>6
    <2> QED
      BY <2>3, <2>4, <2>5, <2>6, OtherSteps
  <1> QED
    BY <1>1, ServerInvariant, PTL DEF Spec, VersionHistory

(***************************************************************************)
(* Once the daemon serves after a start, every engine has the running      *)
(* policy.                                                                 *)
(***************************************************************************)
THEOREM StartupReapplies == Spec => BootReapplies
  <1> DEFINE Step == ~Serving /\ Serving' /\ running # 0 =>
                       \A e \in Engines : engine'[e] = RunningPolicy
  <1>1. ServerInv /\ [Next]_vars => [Step]_vars
    <2> SUFFICES ASSUME ServerInv, Next, ~Serving, Serving', running # 0,
                        NEW e \in Engines
                 PROVE  engine'[e] = RunningPolicy
      OBVIOUS
    <2>1. job.pc \in {"down", "boot"} /\ job'.pc \notin {"down", "boot"}
      BY DEF Serving
    <2>2. Boot \/ BootEngine
      <3>1. ~UNCHANGED job
        BY <2>1
      <3>2. ~Edit /\ ~ApproveCandidate
        BY <3>1 DEF Edit, SetCandidate, StageUnlocked, ApproveCandidate
      <3>3. ~Start /\ ~CancelRequest
        BY <2>1 DEF Start, CommitBegin, RollbackBegin, PullBegin, MayStart,
                    MutexFree, CancelRequest
      <3>4. ~JobStep
        BY <2>1 DEF JobStep, CommitCheck, ApplyReject, ApplyPrepare,
             EngineApplied, EngineFailed, RestoreEngine, Activate,
             ActivateFails, MarkOutcome, ReportFailure
      <3>5. ~Crash /\ ~BootFails
        BY <2>1 DEF Crash, BootFails, At
      <3> QED
        BY <3>2, <3>3, <3>4, <3>5 DEF Next, BootStep
    <2>3. ~Boot
      BY <2>1 DEF Boot, At
    <2>4. BootEngine /\ job.step = NumEngines
      <3>1. job \in Job
        BY DEF ServerInv, ServerTypeOK
      <3> QED
        BY <2>1, <2>2, <2>3, <3>1 DEF BootEngine, Job
    <2>5. /\ engine \in [Engines -> Policies \cup {Unmanaged, Mixed}]
          /\ job.policy = RunningPolicy /\ Switched(NumEngines)
      BY <2>4 DEF ServerInv, ServerTypeOK, JobConsistent, BootEngine
    <2>6. engine' = [engine EXCEPT ![NumEngines] = RunningPolicy]
      BY <2>4, <2>5 DEF BootEngine, EngineTakes
    <2> QED
      BY <2>5, <2>6, ServerAssumption DEF Switched, Engines
  <1> QED
    BY <1>1, ServerInvariant, PTL DEF Spec, BootReapplies

(***************************************************************************)
(* No engine takes a policy that is neither running nor recorded, prepared *)
(* and announced in the audit log.                                         *)
(***************************************************************************)
THEOREM NoApplyWithoutIntent == Spec => EnginesFollowDurableIntent
  <1> DEFINE Step == \A e \in Engines :
                engine'[e] # engine[e] /\ engine'[e] \in Policies =>
                  engine'[e] = RunningPolicy \/ IntentOnRecord(engine'[e])
  <1>1. ServerInv /\ [Next]_vars => [Step]_vars
    <2> SUFFICES ASSUME ServerInv, Next, NEW e \in Engines,
                        engine'[e] # engine[e], engine'[e] \in Policies
                 PROVE  engine'[e] = RunningPolicy \/ IntentOnRecord(engine'[e])
      OBVIOUS
    <2>1. engine \in [Engines -> Policies \cup {Unmanaged, Mixed}]
      BY DEF ServerInv, ServerTypeOK
    <2>2. ASSUME NEW d, NEW p, EngineTakes(d, p) PROVE engine'[e] = p
      BY <2>1, <2>2 DEF EngineTakes
    <2>3. ASSUME NEW d, NEW fault, EngineFails(d, fault) PROVE FALSE
      BY <2>1, <2>3, ServerAssumption DEF EngineFails
    <2>4. CASE EngineApplied
      <3>1. engine'[e] = job.policy /\ OwnsPrepared
        BY <2>2, <2>4 DEF EngineApplied, ServerInv, JobConsistent
      <3>2. Len(versions) \in VersionIds
        BY <3>1, ElementTypes DEF OwnsPrepared, ServerInv, StoreInv
      <3>3. \E i \in DOMAIN audit : Intent(i, Len(versions))
        BY <3>2 DEF ServerInv, StoreInv, IntentPrecedesActivation
      <3> QED
        BY <3>1, <3>3 DEF IntentOnRecord, OwnsPrepared
    <2>5. CASE RestoreEngine
      BY <2>2, <2>3, <2>5 DEF RestoreEngine
    <2>6. CASE BootEngine
      BY <2>2, <2>6 DEF BootEngine, ServerInv, JobConsistent
    <2>7. CASE EngineFailed \/ BootFails
      BY <2>3, <2>7 DEF EngineFailed, BootFails
    <2>8. CASE Crash
      BY <2>1, <2>8, ServerAssumption DEF Crash
    <2>9. CASE UNCHANGED engine
      BY <2>9
    <2> QED
      BY <2>4, <2>5, <2>6, <2>7, <2>8, <2>9
         DEF Next, Edit, SetCandidate, StageUnlocked, ApproveCandidate, Start,
             CommitBegin, RollbackBegin, PullBegin, CancelRequest, JobStep,
             CommitCheck, ApplyReject, ApplyPrepare, Activate, ActivateFails,
             MarkOutcome, ReportFailure, BootStep, Boot
  <1> QED
    BY <1>1, ServerInvariant, PTL DEF Spec, EnginesFollowDurableIntent

----------------------------------------------------------------------------
(* Commits when every candidate writer takes the mutex.                    *)

\* The two reads of Commit see the same candidate, so the revision it checks
\* is that of the policy it applies.
SerializedInv ==
    /\ job.pc = "read" => candidate = job.policy
    /\ job.pc = "ready" /\ job.action = "commit" =>
         job.revision = <<"sha256", job.policy>>
    /\ ApprovedPolicyCommitted

\* Recorded bindings survive every step that keeps their version's policy.
LEMMA BindingsKept ==
    ASSUME ServerInv, ApprovedPolicyCommitted,
           UNCHANGED approvals \/ ApproveCandidate,
           \A v \in VersionIds : versions'[v].policy = versions[v].policy
    PROVE  ApprovedPolicyCommitted'
  <1>1. \A a \in ApprovalIds :
          approvals[a].consumed => approvals[a].version \in VersionIds
    BY DEF ServerInv, StoreInv, ApprovalBinding
  <1>2. CASE UNCHANGED approvals
    BY <1>1, <1>2 DEF ApprovedPolicyCommitted, ApprovalIds
  <1>3. CASE ApproveCandidate
    BY <1>1, <1>3, ApproveFacts DEF ApprovedPolicyCommitted
  <1> QED
    BY <1>2, <1>3

LEMMA BindingStep ==
    ASSUME ServerInv, [Next]_vars, SerializedInv
    PROVE  ApprovedPolicyCommitted'
  <1> USE DEF SerializedInv
  <1>1. CASE ApplyPrepare /\ job.action = "commit"
    <2>1. job.revision = <<"sha256", job.policy>>
      BY <1>1 DEF ApplyPrepare
    <2>2. \A a \in ApprovalIds :
            approvals[a].consumed => approvals[a].version \in VersionIds
      BY DEF ServerInv, StoreInv, ApprovalBinding
    <2> QED
      BY <1>1, <2>1, <2>2, PrepareFacts, PrepareSpends
         DEF ApprovedPolicyCommitted
  <1>2. CASE ApplyPrepare /\ job.action # "commit"
    BY <1>2, PrepareFacts, PrepareSpends, BindingsKept
  <1>3. CASE Activate
    BY <1>3, ActivateFacts, BindingsKept
  <1>4. CASE MarkOutcome
    BY <1>4, MarkFacts, BindingsKept
  <1>5. CASE ~ApplyPrepare /\ ~Activate /\ ~MarkOutcome
    BY <1>5, OtherSteps, BindingsKept
  <1> QED
    BY <1>1, <1>2, <1>3, <1>4, <1>5

\* The candidate read by a commit stays in place until the commit is checked.
LEMMA ReadStep ==
    ASSUME "unlocked-stage" \notin Requests, ServerInv, [Next]_vars,
           SerializedInv
    PROVE  /\ job'.pc = "read" => candidate' = job'.policy
           /\ job'.pc = "ready" /\ job'.action = "commit" =>
                job'.revision = <<"sha256", job'.policy>>
  <1> USE DEF ServerInv
  <1>0. job \in Job
    BY DEF ServerTypeOK
  <1>1. CASE job'.pc \notin {"read", "ready"}
    BY <1>1
  <1>2. CASE Start
    <2>1. ASSUME NEW p, NEW approval, CommitBegin(<<"sha256", p>>, approval)
          PROVE  job'.pc = "read" /\ job'.policy = candidate'
      BY <2>1 DEF CommitBegin, At, storeVars
    <2>2. ASSUME NEW v, RollbackBegin(v)
          PROVE  job'.pc = "ready" /\ job'.action = "rollback"
      BY <2>2 DEF RollbackBegin, At
    <2>3. ASSUME NEW p, NEW source, PullBegin(p, source)
          PROVE  job'.pc = "ready" /\ job'.action = "ha-policy-pull"
      BY <2>3 DEF PullBegin, At
    <2> QED
      BY <1>2, <2>1, <2>2, <2>3 DEF Start
  <1>3. CASE CommitCheck /\ job.revision = CandidateRevision
    <2>1. job' = [job EXCEPT !.pc = "ready"] /\ job.pc = "read"
      BY <1>3 DEF CommitCheck
    <2>2. /\ job'.pc = "ready" /\ job'.policy = job.policy
          /\ job'.revision = job.revision
      BY <1>0, <2>1 DEF Job
    <2>3. candidate = job.policy /\ candidate # NoPolicy
      BY <1>0, <2>1, PoliciesAssumption DEF SerializedInv, Job
    <2> QED
      BY <1>3, <2>2, <2>3 DEF CandidateRevision
  <1>4. CASE UNCHANGED job /\ (UNCHANGED candidate \/ job.pc = "idle")
    BY <1>4 DEF SerializedInv
  <1> QED
    <2>1. CASE Edit \/ ApproveCandidate \/ UNCHANGED vars
      BY <1>4, <2>1 DEF Edit, SetCandidate, StageUnlocked, MutexFree,
           ApproveCandidate, CreateChangeApproval, vars
    <2>2. CASE CancelRequest \/ Crash \/ BootStep
      <3>1. job'.pc \notin {"read", "ready"}
        <4>1. CASE CancelRequest
          BY <1>0, <4>1 DEF CancelRequest, Job
        <4>2. CASE Crash \/ BootFails
          BY <4>2 DEF Crash, BootFails, At
        <4>3. CASE BootEngine
          BY <1>0, <4>3 DEF BootEngine, At, Job
        <4>4. CASE Boot /\ running = 0
          BY <4>4 DEF Boot, At
        <4>5. CASE Boot /\ running # 0
          BY <4>5 DEF Boot, At
        <4> QED
          BY <2>2, <4>1, <4>2, <4>3, <4>4, <4>5 DEF BootStep
      <3> QED
        BY <1>1, <3>1
    <2>3. CASE JobStep
      <3>1. CASE CommitCheck /\ job.revision # CandidateRevision
        BY <1>1, <3>1 DEF CommitCheck, At
      <3>2. CASE JobStep /\ ~CommitCheck
        <4>1. job'.pc \notin {"read", "ready"}
          <5>1. CASE ApplyReject \/ Activate \/ ReportFailure
            BY <5>1 DEF ApplyReject, Activate, ReportFailure, At
          <5>2. CASE ApplyPrepare \/ EngineFailed \/ ActivateFails
                     \/ MarkOutcome
            BY <1>0, <5>2 DEF ApplyPrepare, EngineFailed, ActivateFails,
                              MarkOutcome, Job
          <5>3. CASE EngineApplied
            BY <1>0, <5>3 DEF EngineApplied, Job
          <5>4. CASE RestoreEngine
            <6>1. \/ job' = [job EXCEPT !.pc = "mark",
                                        !.outcome = "apply_failed"]
                  \/ job' = [job EXCEPT !.step = job.step - 1]
              BY <5>4 DEF RestoreEngine
            <6> QED
              BY <1>0, <5>4, <6>1 DEF RestoreEngine, Job
          <5> QED
            BY <3>2, <5>1, <5>2, <5>3, <5>4 DEF JobStep
        <4> QED
          BY <1>1, <4>1
      <3> QED
        BY <1>3, <2>3, <3>1, <3>2
    <2> QED
      BY <1>2, <2>1, <2>2, <2>3 DEF Next

(***************************************************************************)
(* Where no client uses the two writers that skip the mutex, every commit  *)
(* records exactly the policy its approval was given for.                  *)
(***************************************************************************)
THEOREM SerializedCommitsAreApproved ==
    ASSUME "unlocked-stage" \notin Requests
    PROVE  Spec => []ApprovedPolicyCommitted
  <1>1. Init => SerializedInv
    BY DEF Init, StoreInit, SerializedInv, ApprovedPolicyCommitted,
           ApprovalIds, At
  <1>2. ServerInv /\ SerializedInv /\ [Next]_vars => SerializedInv'
    BY BindingStep, ReadStep DEF SerializedInv
  <1>3. SerializedInv => ApprovedPolicyCommitted
    BY DEF SerializedInv
  <1> QED
    BY <1>1, <1>2, <1>3, ServerInvariant, PTL DEF Spec
=============================================================================
