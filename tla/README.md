# Phragma control plane: TLA+ models and proofs

Phragma (OpenNGFW in the source) is a firewall built from existing engines:
a Go daemon, `controld`, stores a policy, renders it into native
configurations and drives nftables, routes, Suricata, Vector, WireGuard and
others. A policy change goes candidate -> approval -> commit; a commit records
a durable intent, applies the engines one after the other and then activates
the version. This directory models that path, with the failures, crashes and
concurrent handlers it has to survive, and two parts that run beside it: the
manager of engine child processes and the threat-intelligence updater.

## The system and its parts

| part | source | here |
|---|---|---|
| configuration store (bbolt) | `internal/store/store.go` | `PolicyStore` |
| policy service | `internal/apiserver/policy.go` | `PolicyServer` |
| engine supervisor | `internal/engines/engine.go` | `PolicyServer` |
| startup re-apply | `cmd/controld/main.go` | `PolicyServer` |
| replay validation, candidate step | `internal/apiserver/replay_validation.go` | `PolicyServer` (`StageUnlocked`) |
| engine process manager | `internal/engines/process.go` | `ProcManager` |
| HA replication, failover, promotion | `internal/apiserver/system.go`, `internal/engines/hapromotion.go` | planned, `HAReplication` |
| threat-intelligence updater | `internal/intel/updater.go` | `IntelUpdater` |
| fleet registry | `internal/fleet/store.go` | planned, `FleetRegistry` |
| step-up challenges | `internal/authz/stepup.go` | planned, `StepUp` |
| gateway rate limiter | `cmd/controld/ratelimit.go` | planned, `RateLimiter` |
| candidate edits (rename, NAT, exceptions) | `internal/apiserver/policy.go` | planned, `CandidateEdit` |
| rule and item identities | `internal/policy/rule_identity.go` | planned, `RuleIdentity` |
| engine drivers, compiler, renderers, telemetry, explanation, content packages, reports, CLI, web console, tooling | see `PROJECT.json` | not modelled |

Commit, rollback and the apply of a policy pulled from an HA peer hold one
mutex, `PolicyServer.mu`, from their first read to their answer. Staging a
backup snapshot and the candidate step of an automation replay write the
candidate without it; approvals are recorded without it. The store serializes
transactions, nothing else.

An engine that is a child process (Suricata, Vector) is restarted by its apply
and stopped at shutdown; a goroutine per child waits for its exit and may
restart it, all under the mutex of the engine's `procManager`.

Applying a policy replaces the nftables table and so empties its blocklist
sets. After activation the service puts a token into a one-slot channel; the
updater's loop takes it, or wakes up every hour, reads the running policy,
fetches its feeds and fills the sets. A `RefreshFeeds` request does the same in
its own goroutine.

## Modules

`PolicyStore` has one action per store transaction; a transaction that returns
an error is rolled back and is therefore not enabled. `StoreSpec` lets callers
run any transaction at any time. It is also the abstract specification the
service is shown to implement.

`PolicyServer` adds the engines and the job that holds the mutex. `job.pc`
says where it is:

| `pc` | code |
|---|---|
| `down`, `boot` | before serving; the re-apply loop of `main.go` |
| `idle` | the mutex is free |
| `read` | `Commit`, between `GetCandidate` and `CandidateRevision` |
| `ready` | `apply`, checks before the intent |
| `apply`, `restore` | `Supervisor.Apply`, one engine call per step |
| `activate` | engines done, `ActivatePreparedVersion` pending |
| `mark`, `report` | the `fail` closure: `MarkVersionState`, then `AppendAudit` |

Every store transaction and every engine call is a step of its own, so other
handlers and crashes fall between any two of them.

`MCPolicyServer` gives the constants for TLC: `TwoPolicies` (the empty policy
and one other), `EditPolicies` (adds one without identities, which the
backfill turns into `a`, and one validation rejects).

`ProcManager`: one step per critical section of `procManager.mu`, except that
`stopLocked`, which waits for the child with the mutex held, is split at its
two waits (`caller[c].pc` = `stopping`, `killing`, `start`), and `restart` at the
grace time (`grace`), for which it gives the mutex back. `child[k]` keeps the
process and its waiter apart: the process ends (`Exit`), the waiter reaps it
and closes `done` (`Reap`), then records the exit under the mutex
(`RecordExit`), and after the delay restarts the child or finds itself
overtaken. Timeouts may fire at any time.

`IntelUpdater`: the loop and the requests in `Refresh` (`woken`, `fetch`,
`program`), the channel, and the policy job reduced to what it does to the
table, the running pointer and the channel (`PolicyServer` has the job itself).
A policy is the set of feeds it enables: the renderer declares the sets exactly
when that set is not empty.

`MCProcManager` and `MCIntelUpdater` are their instances for TLC. The modules
ending in `Proofs` hold the theorems, `SequenceLemmas` what they need about
appending to and updating a sequence.

### Abstractions

- A policy is a model value; `Normalize` is what the identity backfill does to
  it, assumed idempotent.
- The digest of a candidate is the candidate (no hash collisions). `none:<v>`,
  the revision of an empty workspace, is kept.
- An artifact set is the policy it was rendered from: `RenderAll` produces one
  artifact per supervised engine.
- Every cause of rejection before the intent (validation, rendering, engine
  validation, acknowledgements, approval) is the one action `ApplyReject`; a
  policy in `Invalid` has no other way out.
- An engine call that fails under way leaves the engine as it was or `Mixed`;
  one whose context is already done starts no command and leaves it as it was.
  `CtxEngines` are the engines whose calls run commands under the request's
  context. A context that ends during a call is a call that fails under way,
  followed by `CancelRequest`. A crash loses the configuration of any subset of
  the engines.
- `Requests` and `Faults` say which requests a run's clients issue and which
  failures its environment has. They restrict the environment only; the
  handlers are the same in all runs, and the theorems hold for every choice.

## Runs

| run | shows | instance |
|---|---|---|
| `policy_commit` | approvals and commits match one to one, an approval is spent once, every step is a store transaction | 1 engine, 2 versions, audit log up to 7 at the start of a request; engine failures, crashes |
| `policy_recovery` | pointers, history, audit order, engines and jobs under every request and fault; the mutex is always released | 2 engines, 2 versions, log 3 |
| `policy_guarded` | without unlocked writers a commit is what was approved and no staged change is dropped; engine failures and crashes alone never leave engines off the running policy | 4 policies, 3 engines, log 4 |
| `policy_unlocked_approval` | finding: a commit under the approval of another policy | log 5 |
| `policy_unlocked_stage` | finding: a staged snapshot is deleted by the activation of another policy | pulls, log 4 |
| `policy_cancelled` | finding: no restore of a switched engine under a cancelled request | 2 engines, both under the request's context |
| `proc_manager` | at most one child that was not killed, honest status, restart budget, stops are final, success means the own child; calls return, announced restarts end | 2 callers, limit 2, 4 processes, calls up to generation 5 |
| `intel_loop` | no commit is missed by the loop | 2 feeds, 4 commits, 3 failures |
| `intel_progress` | the tick repairs the sets after anything | 2 feeds, a client, 2 requests, 2 failures, failing applies too |
| `intel_stale_refresh` | finding: a request programs the feeds of a replaced policy | 2 requests |
| `intel_fetch_error` | finding: failed fetches are not returned | 1 failure |

Bounds. `MaxVersions` = 2 gives a running version and one that fails, is
interrupted or replaces it, which is what pointers, history and recovery
relate. `MaxAudit` bounds the log at the start of a request, never inside a
job, so no job is cut short; 7 entries hold two full stage-approve-commit
rounds. `policy_recovery` starts its changes from pulls and rollbacks as well,
which need fewer entries. Two engines tell the failing engine from the ones
already switched; three put one in the middle of the reverse restore.
`policy_guarded` has four policies so that identity backfill and rejection
happen; the other runs do not depend on either.

In `proc_manager` two callers give every overlap of a call with a sleeping
restart; four processes are a planned start with its whole budget and one more,
or two planned starts with a restart each. At `MaxChildren` a start fails,
which the code handles anyway. In `intel_loop` a token waits, one refresh runs and a third commit arrives, which
is all a one-slot channel and one loop can tell apart.

Deadlock checking is off where the clients stop at the bounds; the updater's
loop never stops, and its runs check for deadlock.

Fairness (each module's `FairSpec`). `PolicyServer`: weak fairness of the job's
and of startup's next step. A handler that holds the mutex waits for no other
client, and engine calls are assumed to return; nothing is assumed of clients, faults and crashes.
`ProcManager`: strong fairness of each call and each waiter, because Go's mutex
hands itself to the longest waiter before it starves; processes need not exit.
`IntelUpdater`: weak fairness of the ticker, of a running refresh (fetches and
nft return) and of a policy job.

### Findings

1. `policy.go:46` says all mutations are serialized. Two candidate writers do
   not take the mutex, and `Commit` reads candidate and revision in two
   transactions: between them a staged snapshot makes it apply the first
   policy with the revision, and the approval, of the second.
2. The same writers run beside the rest of a commit or a pull. A snapshot
   staged after the pull looked for staged changes (`policy.go:2093`) is deleted
   by the activation, after its caller was told it is staged.
3. `Supervisor.Apply` restores under the context of the failed request. When
   the caller goes away after the first engine was switched, the second one's
   command and both restores never start, so the first engine stays on the
   prepared version, although `engine.go:22` promises every switched engine is
   restored.
4. `updater.go:75` says a failed fetch is surfaced in the error return. It is
   only logged: `Refresh` returns nil, also when all fetches failed and the
   sets were emptied.
5. `updater.go:27` says the sets are repopulated after every commit. `Refresh`
   takes no lock, so a request that read the policy before a commit can
   overwrite what the refresh after the commit programmed, until the next tick.

## Proofs

The theorems about the policy path hold for any policies, number of engines,
requests, faults and bounds; they assume what `PoliciesAssumption`,
`NormalizeAssumption`, `SourceAssumption` and `ServerAssumption` say.

`StoreCorrect`: `StoreInv` (types, `PointersAgree`, `ApprovalBinding`,
`IntentPrecedesActivation`, and that the log names only recorded versions)
is inductive for `StoreNext` by itself, one lemma per transaction. So these
four hold whatever the handlers do.

`ServerImplementsStore`: each step of the service is a store transaction or
leaves the store alone; hence `StoreCorrect` and `StoreSpendsOnce` carry over.

`ServerInvariant`: `ServerInv` joins `StoreInv`, the types,
`RunningIsNewestActive`, `CommitNeedsApproval` and `JobConsistent`. The last is
the strengthening: between intent and outcome the job owns the newest version,
still `prepared`, and the engines before the current one have its policy.
Without it nothing says that the version being activated is newest, or that
the engines match it. From it follow `RunningNewest`, `ApprovalsMatchCommits`,
`DivergenceExplained`, `HistoryAppendOnly`, `StartupReapplies` and
`NoApplyWithoutIntent`. `SerializedCommitsAreApproved` assumes that no unlocked
writer exists and adds that the candidate does not change between the two
reads of `Commit`.

`ProcInvariant`: `ProcInv` joins the types, `Bookkeeping`, `NoOrphan` and
`StatusHonest`, for any number of callers, any restart limit and any bounds
(`ProcAssumption`). `Bookkeeping` is the strengthening: the mutex is held
exactly over a stop, with nothing supervised, and no two children share a
generation. The latter is why a waiter that finds its own generation current
cannot clear or restart another child. `NoOrphanProcess`, `StatusIsHonest`,
`StopFinal` and `SuccessMeansOwnChild` follow.

`LoopKeepsSets` assumes that no client calls `RefreshFeeds` and that no policy
job fails, the two things `intel_stale_refresh` and `intel_progress` show to
matter. The strengthening, `LoopIsCurrent`, says that without a token in the
channel the loop is working on, or has finished with, the policy that is
running; `TableFollowsJob` ties the loaded ruleset to the job. It is needed
because a refresh may start on the old policy in the middle of a commit.

Only model-checked: `MutexReleased`, `CallsReturn`, `RestartingEnds`,
`EventuallyPopulated` (liveness); `EnginesRestored` and `StagedChangeKept` (they
hold under a restricted environment only); `RestartBudget` (it counts the
descendants of a start).

## Plan

1. `CandidateEdit`: the read-modify-write edits and previews over the store.
2. `HAReplication`: two stores, pull decision, failover; composed with
   `PolicyServer`'s apply as an atomic step.
3. `FleetRegistry`, `StepUp`, `RateLimiter`.
4. `RuleIdentity`: the backfill checked against its specification, which
   discharges `NormalizeAssumption`.
5. Proofs: `RestartBudget`, `StepUp` (single use), `EnginesRestored` under the
   faults that allow it, `StagedChangeKept` without unlocked writers.
