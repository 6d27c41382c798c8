---------------------------- MODULE PolicyServer ----------------------------
(***************************************************************************)
(* The policy service of controld (internal/apiserver/policy.go) over the  *)
(* store, together with the engine supervisor (internal/engines/engine.go) *)
(* and the start of the daemon (cmd/controld/main.go).                     *)
(*                                                                         *)
(* Commit, Rollback and ApplyReplicatedPolicy hold PolicyServer.mu for     *)
(* their whole run, so at most one of them is in flight: job.  Handlers    *)
(* that take the mutex need it free; staging a backup snapshot and the     *)
(* candidate step of an automation replay write without it, approvals are  *)
(* created without it, and all three interleave with every step of a job.  *)
(* A job is cut into one action per store transaction and per engine call: *)
(* between them other handlers run and the daemon can die.                 *)
(*                                                                         *)
(* engine[e] is the policy engine e enforces: Unmanaged when it has no     *)
(* configuration of ours, Mixed after a call that failed half-way.         *)
(* RenderAll yields an artifact for every supervised engine, so an         *)
(* artifact set is the policy it was rendered from.                        *)
(*                                                                         *)
(* OnCommit (a wake-up for the intelligence updater) is not part of this   *)
(* module.                                                                 *)
(***************************************************************************)
EXTENDS PolicyStore

CONSTANTS
    Invalid,      \* policies policy.Validate rejects
    NumEngines,   \* the supervised engines, numbered in apply order
    CtxEngines,   \* engines that run commands under the request context
    Unmanaged, Mixed,
    Requests,     \* kinds of request the clients of a run issue
    Faults,       \* kinds of failure the environment of a run has
    MaxVersions,  \* bound: versions recorded
    MaxAudit      \* bound: length of the audit log a request starts from

Engines == 1..NumEngines
RequestKinds == {"set-candidate", "unlocked-stage"} \cup ApplyActions
FaultKinds == {"engine", "restore", "store", "crash", "cancel"}

ASSUME ServerAssumption ==
    /\ Invalid \subseteq Policies
    /\ NumEngines \in Nat \ {0}
    /\ CtxEngines \subseteq Engines
    /\ Unmanaged \notin Policies /\ Mixed \notin Policies /\ Unmanaged # Mixed
    /\ Requests \subseteq RequestKinds
    /\ Faults \subseteq FaultKinds
    /\ MaxVersions \in Nat /\ MaxAudit \in Nat /\ MaxVersions <= MaxSource

VARIABLES engine, job

vars == <<candidate, running, lastKnownGood, versions, approvals, audit,
          engine, job>>

\* pc: where the daemon is.  "down" and "boot" before it serves, "idle" when
\* the mutex is free, otherwise the step the job that holds it is at.
JobSteps == {"down", "boot", "idle", "read", "ready", "apply", "restore",
             "activate", "mark", "report"}

Job == [pc : JobSteps,
        action : ApplyActions, policy : Policies, source : 0..MaxSource,
        approval : Nat, revision : Revisions \cup {NoExpectation},
        id : Nat, step : 0..NumEngines, cancelled : BOOLEAN,
        outcome : VersionStates]

At(pc) == [pc |-> pc, action |-> "commit", policy |-> EmptyPolicy,
           source |-> 0, approval |-> NoApproval, revision |-> NoExpectation,
           id |-> 0, step |-> 0, cancelled |-> FALSE, outcome |-> "active"]

MutexFree == job.pc = "idle"
Serving == job.pc \notin {"down", "boot"}

ServerTypeOK ==
    /\ TypeOK
    /\ engine \in [Engines -> Policies \cup {Unmanaged, Mixed}]
    /\ job \in Job

Init ==
    /\ StoreInit
    /\ engine = [e \in Engines |-> Unmanaged]
    /\ job = At("down")

----------------------------------------------------------------------------
(* Candidate workspace and approvals.                                      *)

\* A handler that serializes on the mutex: SetCandidate, which stores what
\* it is given without validating it.
SetCandidate(p, expected) ==
    /\ "set-candidate" \in Requests
    /\ Len(audit) < MaxAudit
    /\ MutexFree
    /\ SetCandidateWithAuditIfRevision(p, expected)
    /\ UNCHANGED <<engine, job>>

\* PreviewBackupSnapshotRestore with stage_candidate, and the candidate step
\* of a replay: the policy is validated, the mutex is not taken.
StageUnlocked(p, expected) ==
    /\ "unlocked-stage" \in Requests
    /\ Len(audit) < MaxAudit
    /\ Serving
    /\ p \notin Invalid
    /\ SetCandidateWithAuditIfRevision(p, expected)
    /\ UNCHANGED <<engine, job>>

\* The CreateChangeApproval handler: one store transaction, no mutex.
ApproveCandidate ==
    /\ "commit" \in Requests
    /\ Len(audit) < MaxAudit
    /\ Serving
    /\ CreateChangeApproval(CandidateRevision)
    /\ UNCHANGED <<engine, job>>

----------------------------------------------------------------------------
(* Entering a job: each handler up to its call of apply.                   *)

MayStart(action) ==
    /\ action \in Requests
    /\ MutexFree
    /\ Len(versions) < MaxVersions
    /\ Len(audit) < MaxAudit

\* Commit, first read: the candidate under the mutex.
CommitBegin(reviewed, approval) ==
    /\ MayStart("commit")
    /\ candidate # NoPolicy
    /\ job' = [At("read") EXCEPT !.policy = candidate, !.revision = reviewed,
                                 !.approval = approval]
    /\ UNCHANGED <<storeVars, engine>>

\* Commit, second read: the revision now stored must be the reviewed one.
CommitCheck ==
    /\ job.pc = "read"
    /\ job' = IF job.revision = CandidateRevision
                THEN [job EXCEPT !.pc = "ready"] ELSE At("idle")
    /\ UNCHANGED <<storeVars, engine>>

\* Rollback: any recorded version, whatever its state.
RollbackBegin(v) ==
    /\ MayStart("rollback")
    /\ v \in VersionIds
    /\ job' = [At("ready") EXCEPT !.action = "rollback", !.source = v,
                                  !.policy = versions[v].policy]
    /\ UNCHANGED <<storeVars, engine>>

\* Mutant: staged local changes do not stop the pull.
PullOverStagedChanges(p, source) ==
    /\ MayStart("ha-policy-pull")
    /\ Normalize[p] = p
    /\ source > running
    /\ job' = [At("ready") EXCEPT !.action = "ha-policy-pull",
                                  !.source = source, !.policy = p]
    /\ UNCHANGED <<storeVars, engine>>

\* ApplyReplicatedPolicy: p is a peer's running policy, so its identities are
\* already backfilled; it must be newer and no local change may be staged.
PullBegin(p, source) ==
    /\ MayStart("ha-policy-pull")
    /\ Normalize[p] = p
    /\ candidate \in {NoPolicy, RunningPolicy}
    /\ source > running
    /\ job' = [At("ready") EXCEPT !.action = "ha-policy-pull",
                                  !.source = source, !.policy = p]
    /\ UNCHANGED <<storeVars, engine>>

\* The context of the request in flight is cancelled: its caller went away.
CancelRequest ==
    /\ "cancel" \in Faults
    /\ job.pc \in {"apply", "restore"}
    /\ ~job.cancelled
    /\ job' = [job EXCEPT !.cancelled = TRUE]
    /\ UNCHANGED <<storeVars, engine>>

----------------------------------------------------------------------------
(* apply: the shared commit path.                                          *)

\* A best-effort store write: its error is dropped.
BestEffort(write) ==
    \/ write
    \/ "store" \in Faults /\ UNCHANGED storeVars

\* Every failure before the intent (validation, rendering, acknowledgement,
\* approval, the intent itself) audits <action>-failed with version 0.
ApplyReject ==
    /\ job.pc = "ready"
    /\ BestEffort(AppendAudit(job.action, "failed", 0))
    /\ job' = At("idle")
    /\ UNCHANGED engine

\* Mutant: an empty approval id is let through.
PrepareUnapproved ==
    /\ job.pc = "ready"
    /\ job.policy \notin Invalid
    /\ PreparePolicyApply(job.policy, job.action, job.source, job.approval,
                          job.revision)
    /\ job' = [job EXCEPT !.pc = "apply", !.id = Len(versions) + 1,
                          !.step = 1]
    /\ UNCHANGED engine

\* The checks pass and the intent is recorded.  The running policy, read
\* here for the restore, cannot change while the mutex is held.
ApplyPrepare ==
    /\ job.pc = "ready"
    /\ job.policy \notin Invalid
    /\ job.action = "commit" => job.approval # NoApproval
    /\ PreparePolicyApply(job.policy, job.action, job.source, job.approval,
                          job.revision)
    /\ job' = [job EXCEPT !.pc = "apply", !.id = Len(versions) + 1,
                          !.step = 1]
    /\ UNCHANGED engine

\* exec.CommandContext does not start a command under a done context.
CannotRun(e) == job.cancelled /\ e \in CtxEngines

EngineTakes(e, p) ==
    /\ ~CannotRun(e)
    /\ engine' = [engine EXCEPT ![e] = p]

\* A call whose command never starts leaves the engine as it was; one that
\* fails under way may leave its work half done.  A context that ends under
\* way is the latter, followed by CancelRequest.
EngineFails(e, fault) ==
    \/ CannotRun(e) /\ UNCHANGED engine
    \/ /\ ~CannotRun(e) /\ fault \in Faults
       /\ \E left \in {engine[e], Mixed} : engine' = [engine EXCEPT ![e] = left]

\* Mutants: the loop stops one engine early; the loop has no end.
EngineLoopOneShort ==
    /\ job.pc = "apply"
    /\ EngineTakes(job.step, job.policy)
    /\ job' = IF job.step + 1 >= NumEngines THEN [job EXCEPT !.pc = "activate"]
                                            ELSE [job EXCEPT !.step = @ + 1]
    /\ UNCHANGED storeVars

EngineLoopNoEnd ==
    /\ job.pc = "apply"
    /\ EngineTakes(job.step, job.policy)
    /\ job' = [job EXCEPT !.step = @ + 1]
    /\ UNCHANGED storeVars

\* Supervisor.Apply, one engine of the loop.
EngineApplied ==
    /\ job.pc = "apply"
    /\ EngineTakes(job.step, job.policy)
    /\ job' = IF job.step = NumEngines THEN [job EXCEPT !.pc = "activate"]
                                       ELSE [job EXCEPT !.step = @ + 1]
    /\ UNCHANGED storeVars

\* Mutant: the engine that failed is left as it is.
FailedEngineNotRestored ==
    /\ job.pc = "apply"
    /\ EngineFails(job.step, "engine")
    /\ job' = IF job.step = 1
                THEN [job EXCEPT !.pc = "mark", !.outcome = "apply_failed"]
                ELSE [job EXCEPT !.pc = "restore", !.step = @ - 1]
    /\ UNCHANGED storeVars

EngineFailed ==
    /\ job.pc = "apply"
    /\ EngineFails(job.step, "engine")
    /\ job' = [job EXCEPT !.pc = "restore"]
    /\ UNCHANGED storeVars

\* Mutant: an engine that cannot be restored is tried again, forever.
RestoreUntilDone ==
    /\ job.pc = "restore"
    /\ \/ /\ EngineTakes(job.step, RunningPolicy)
          /\ job' = IF job.step = 1
                      THEN [job EXCEPT !.pc = "mark",
                                       !.outcome = "apply_failed"]
                      ELSE [job EXCEPT !.step = @ - 1]
       \/ EngineFails(job.step, "restore") /\ UNCHANGED job
    /\ UNCHANGED storeVars

\* Supervisor.Apply, the restore: the failing engine, then the ones already
\* switched in reverse order; a failure is noted and the loop goes on.
RestoreEngine ==
    /\ job.pc = "restore"
    /\ \/ EngineTakes(job.step, RunningPolicy)
       \/ EngineFails(job.step, "restore")
    /\ job' = IF job.step = 1
                THEN [job EXCEPT !.pc = "mark", !.outcome = "apply_failed"]
                ELSE [job EXCEPT !.step = @ - 1]
    /\ UNCHANGED storeVars

Activate ==
    /\ job.pc = "activate"
    /\ ActivatePreparedVersion(job.id, job.action)
    /\ job' = At("idle")
    /\ UNCHANGED engine

ActivateFails ==
    /\ job.pc = "activate"
    /\ "store" \in Faults
    /\ job' = [job EXCEPT !.pc = "mark", !.outcome = "activation_failed"]
    /\ UNCHANGED <<storeVars, engine>>

\* Mutant: the running version is marked instead of the prepared one.
MarkRunning ==
    /\ job.pc = "mark"
    /\ BestEffort(MarkVersionState(running, job.outcome))
    /\ job' = [job EXCEPT !.pc = "report"]
    /\ UNCHANGED engine

\* fail: mark the version, then audit the failure, each best-effort.
MarkOutcome ==
    /\ job.pc = "mark"
    /\ BestEffort(MarkVersionState(job.id, job.outcome))
    /\ job' = [job EXCEPT !.pc = "report"]
    /\ UNCHANGED engine

ReportFailure ==
    /\ job.pc = "report"
    /\ BestEffort(AppendAudit(job.action, "failed", job.id))
    /\ job' = At("idle")
    /\ UNCHANGED engine

----------------------------------------------------------------------------
(* The daemon.                                                             *)

\* The process or the machine dies: the job is gone, and any engines with it.
Crash ==
    /\ "crash" \in Faults
    /\ job.pc # "down"
    /\ \E lost \in SUBSET Engines :
         engine' = [e \in Engines |-> IF e \in lost THEN Unmanaged
                                                    ELSE engine[e]]
    /\ job' = At("down")
    /\ UNCHANGED storeVars

\* Mutants: startup applies the newest version; startup drops the candidate.
BootNewest ==
    /\ job.pc = "down"
    /\ job' = IF running = 0 THEN At("idle")
              ELSE [At("boot") EXCEPT !.policy = versions[Len(versions)].policy,
                                      !.step = 1]
    /\ UNCHANGED <<storeVars, engine>>

BootDropsCandidate ==
    /\ job.pc = "down"
    /\ candidate' = NoPolicy
    /\ job' = IF running = 0 THEN At("idle")
              ELSE [At("boot") EXCEPT !.policy = RunningPolicy, !.step = 1]
    /\ UNCHANGED <<running, lastKnownGood, versions, approvals, audit, engine>>

\* Startup reads the running policy; a fresh node re-applies nothing.
Boot ==
    /\ job.pc = "down"
    /\ job' = IF running = 0 THEN At("idle")
              ELSE [At("boot") EXCEPT !.policy = RunningPolicy, !.step = 1]
    /\ UNCHANGED <<storeVars, engine>>

BootEngine ==
    /\ job.pc = "boot"
    /\ EngineTakes(job.step, job.policy)
    /\ job' = IF job.step = NumEngines THEN At("idle")
                                       ELSE [job EXCEPT !.step = @ + 1]
    /\ UNCHANGED storeVars

\* No previous artifacts are given, so nothing is restored: startup aborts.
BootFails ==
    /\ job.pc = "boot"
    /\ EngineFails(job.step, "engine")
    /\ job' = At("down")
    /\ UNCHANGED storeVars

----------------------------------------------------------------------------
Edit ==
    \E p \in Policies, expected \in {NoExpectation, CandidateRevision} :
        SetCandidate(p, expected) \/ StageUnlocked(p, expected)

Start ==
    \/ \E p \in Policies, approval \in ApprovalIds \cup {NoApproval} :
          CommitBegin(<<"sha256", p>>, approval)
    \/ \E v \in VersionIds : RollbackBegin(v)
    \/ \E p \in Policies, source \in 1..MaxSource : PullBegin(p, source)

JobStep ==
    \/ CommitCheck \/ ApplyReject \/ ApplyPrepare
    \/ EngineApplied \/ EngineFailed \/ RestoreEngine
    \/ Activate \/ ActivateFails \/ MarkOutcome \/ ReportFailure

BootStep == Boot \/ BootEngine \/ BootFails

Next ==
    \/ Edit \/ ApproveCandidate \/ Start \/ CancelRequest
    \/ JobStep \/ Crash \/ BootStep

Spec == Init /\ [][Next]_vars

\* Handlers and startup run to completion once scheduled: no step of theirs
\* waits for another client.  Clients, faults and crashes owe nothing.
FairSpec == Spec /\ WF_vars(JobStep) /\ WF_vars(BootStep)

----------------------------------------------------------------------------
(* Properties.                                                             *)

(***************************************************************************)
(* The running version is active and no newer version ever became active:  *)
(* ids are handed out and activated under one hold of the mutex, so a late *)
(* activation cannot move the running pointer back, and a failed or        *)
(* crashed job never leaves a version active (policy.go, apply).           *)
(***************************************************************************)
RunningIsNewestActive ==
    /\ running # 0 => versions[running].state = "active"
    /\ \A v \in VersionIds : versions[v].state = "active" => v <= running

(***************************************************************************)
(* Every committed version, failed and interrupted ones included, spent an *)
(* approval of its own, and no rollback or HA pull spent one (policy.go,   *)
(* apply: "change approval is required before commit").                    *)
(***************************************************************************)
CommitNeedsApproval ==
    \A v \in VersionIds :
        versions[v].action = "commit"
          <=> \E a \in ApprovalIds : approvals[a].consumed
                                     /\ approvals[a].version = v

(***************************************************************************)
(* The policy a commit records is the one its approval was given for       *)
(* (store.go, CreateChangeApproval: "one approval for the exact candidate  *)
(* revision presented to the approver").                                   *)
(***************************************************************************)
ApprovedPolicyCommitted ==
    \A a \in ApprovalIds :
        approvals[a].consumed =>
            approvals[a].revision =
                <<"sha256", versions[approvals[a].version].policy>>

(***************************************************************************)
(* When the mutex is free and the newest version is the running one, every *)
(* engine enforces it; so whenever engines and the running pointer differ, *)
(* a newer version that never became active is on record (policy.go, apply:*)
(* "durable reconciliation breadcrumbs").                                  *)
(***************************************************************************)
DivergenceHasBreadcrumb ==
    MutexFree /\ Len(versions) = running =>
        \A e \in Engines :
            engine[e] = IF running = 0 THEN Unmanaged ELSE RunningPolicy

(***************************************************************************)
(* After a failed apply the engines are back on the running policy         *)
(* (engine.go, Supervisor: "if any engine fails to apply, every previously *)
(* applied engine is restored to the prior config").                       *)
(***************************************************************************)
EnginesRestored ==
    MutexFree /\ running # 0 => \A e \in Engines : engine[e] = RunningPolicy

(***************************************************************************)
(* An engine only ever changes to the running policy, or to the newest     *)
(* version while that is prepared and its intent is in the audit log       *)
(* (policy.go, apply: "Runtime engines are never touched until the target  *)
(* version and audit intent have committed to the durable store").         *)
(***************************************************************************)
IntentOnRecord(p) ==
    LET v == Len(versions) IN
    /\ v # 0
    /\ versions[v].policy = p
    /\ versions[v].state = "prepared"
    /\ \E i \in DOMAIN audit : Intent(i, v)

EnginesFollowDurableIntent ==
    [][\A e \in Engines :
         engine'[e] # engine[e] /\ engine'[e] \in Policies =>
             engine'[e] = RunningPolicy \/ IntentOnRecord(engine'[e])]_vars

(***************************************************************************)
(* The version history is append-only, and a version's state leaves        *)
(* "prepared" at most once and then never changes: an active version is    *)
(* never marked failed, a failed one never becomes active (policy.go, the  *)
(* fail closure of apply; store.go, MarkVersionState checks neither).      *)
(***************************************************************************)
VersionHistory ==
    [][/\ Len(versions') \in {Len(versions), Len(versions) + 1}
       /\ \A v \in VersionIds :
            /\ [versions[v] EXCEPT !.state = versions'[v].state] = versions'[v]
            /\ versions[v].state # "prepared" => versions'[v] = versions[v]
      ]_vars

(***************************************************************************)
(* Serving starts only with every engine on the running policy, whatever   *)
(* a crash left behind (cmd/controld/main.go: "Re-apply the running policy *)
(* at startup").                                                           *)
(***************************************************************************)
BootReapplies ==
    [][~Serving /\ Serving' /\ running # 0 =>
         \A e \in Engines : engine'[e] = RunningPolicy]_vars

(***************************************************************************)
(* A commit or an HA pull removes a staged candidate only when it is the   *)
(* policy being activated or the one already running: no staged change is  *)
(* dropped unseen (store.go, ActivatePreparedVersion deletes the candidate;*)
(* policy.go, ApplyReplicatedPolicy: "discard or commit them").            *)
(***************************************************************************)
StagedChangeKept ==
    [][candidate # NoPolicy /\ candidate' = NoPolicy
         /\ versions'[running'].action # "rollback" =>
           candidate \in {RunningPolicy, versions'[running'].policy}]_vars

(***************************************************************************)
(* What the mutex protects, at each step of a job: from its intent to its  *)
(* outcome the job owns the newest version, which stays prepared and holds *)
(* the job's policy; the engines before the current one have that policy;  *)
(* startup works on the running policy.  With the properties above it is   *)
(* inductive (policy.go, apply; engine.go, Apply; main.go, startup).       *)
(***************************************************************************)
OwnsPrepared ==
    /\ Len(versions) # 0
    /\ job.id = Len(versions)
    /\ versions[job.id].state = "prepared"
    /\ versions[job.id].policy = job.policy
    /\ versions[job.id].action = job.action

Switched(n) == \A e \in Engines : e < n => engine[e] = job.policy

JobConsistent ==
    /\ job.pc \in {"apply", "restore", "activate", "mark"} => OwnsPrepared
    /\ job.pc \in {"apply", "restore", "boot"} => job.step # 0
    /\ job.pc = "apply" => Switched(job.step)
    /\ job.pc = "activate" => Switched(NumEngines + 1)
    /\ job.pc = "mark" => job.outcome \in {"apply_failed", "activation_failed"}
    /\ job.pc = "report" =>
         /\ Len(versions) # 0
         /\ job.id = Len(versions)
         /\ versions[job.id].state # "active"
    /\ job.pc = "boot" => /\ running # 0 /\ job.policy = RunningPolicy
                          /\ Switched(job.step)
    /\ job.pc = "ready" /\ job.action # "commit" => job.approval = NoApproval
    /\ job.pc = "read" => job.action = "commit"
    /\ job.pc \in {"read", "ready"} => Normalize[job.policy] = job.policy
    /\ candidate # NoPolicy => Normalize[candidate] = candidate
    /\ \A v \in VersionIds : Normalize[versions[v].policy] = versions[v].policy
    /\ job.pc \in {"idle", "read", "ready"} /\ Len(versions) = running
         /\ running # 0 => \A e \in Engines : engine[e] = RunningPolicy
    /\ Len(versions) = 0 => \A e \in Engines : engine[e] = Unmanaged

(***************************************************************************)
(* Every path of a job ends: the mutex is always released again, after     *)
(* failures of the engines, of their restore and of the store included.    *)
(***************************************************************************)
MutexReleased == Serving ~> (MutexFree \/ ~Serving)
=============================================================================
