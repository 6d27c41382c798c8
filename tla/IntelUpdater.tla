---------------------------- MODULE IntelUpdater ----------------------------
(***************************************************************************)
(* The threat-intelligence updater (internal/intel/updater.go) and what it *)
(* shares with the policy path: the running policy it reads, the nftables  *)
(* table whose blocklist sets it fills, and the one-slot channel that      *)
(* commits and startup write to (cmd/controld/main.go).                    *)
(*                                                                         *)
(* running   the running policy; a policy is the set of feeds it enables   *)
(* table     the policy whose ruleset nftables has; a ruleset declares the *)
(*           blocklist sets if its policy enables a feed                   *)
(* sets      feeds whose entries the blocklist sets hold                   *)
(* trigger   the channel holds a token                                     *)
(* job       the commit, rollback or pull that holds the policy mutex      *)
(* refresh   where each goroutine that calls Refresh is, with the feeds it *)
(*           read, the ones it could not fetch, and its last result        *)
(*                                                                         *)
(* PolicyServer models the job itself; here it is what it does to these    *)
(* variables.  A feed's entries do not change, and its fetch fails or      *)
(* returns all of them; overlaps between feeds are left out.               *)
(***************************************************************************)
EXTENDS Naturals

CONSTANTS
    Feeds,
    Loop,         \* the goroutine in Updater.Run
    Clients,      \* goroutines that serve RefreshFeeds
    Faults,       \* which failures happen, of "fetch", "nft", "read", "apply"
    MaxRequests,  \* bound: policy jobs and RefreshFeeds requests
    MaxFaults     \* bound: failures

ASSUME IntelAssumption ==
    /\ Loop \notin Clients
    /\ MaxRequests \in Nat /\ MaxFaults \in Nat

VARIABLES running, table, sets, trigger, job, refresh, requests, faults

vars == <<running, table, sets, trigger, job, refresh, requests, faults>>
policyVars == <<running, table, job>>

Goroutines == {Loop} \cup Clients

Refreshing == [pc : {"idle", "woken", "fetch", "program"},
               feeds : SUBSET Feeds, failed : SUBSET Feeds,
               result : {"none", "ok", "error"}]

IntelTypeOK ==
    /\ running \in SUBSET Feeds
    /\ table \in SUBSET Feeds
    /\ sets \in SUBSET Feeds
    /\ trigger \in BOOLEAN
    /\ job \in [pc : {"idle", "apply", "restore", "activate", "notify"},
                policy : SUBSET Feeds]
    /\ refresh \in [Goroutines -> Refreshing]
    /\ \A g \in Goroutines : refresh[g].failed \subseteq refresh[g].feeds
    /\ requests \in 0..MaxRequests
    /\ faults \in 0..MaxFaults

\* Startup re-applied the running policy, if there is one, and left a token.
Init ==
    /\ running \in SUBSET Feeds
    /\ table = running
    /\ sets = {}
    /\ trigger \in BOOLEAN
    /\ running # {} => trigger
    /\ job = [pc |-> "idle", policy |-> {}]
    /\ refresh = [g \in Goroutines |->
                    [pc |-> "idle", feeds |-> {}, failed |-> {},
                     result |-> "none"]]
    /\ requests = 0
    /\ faults = 0

Request == requests < MaxRequests /\ requests' = requests + 1
Fault(kind) == kind \in Faults /\ faults < MaxFaults /\ faults' = faults + 1

----------------------------------------------------------------------------
(* The policy path.                                                        *)

Goto(pc) == job' = [job EXCEPT !.pc = pc]

\* The rendered ruleset deletes the table and declares it anew, with empty
\* sets.
LoadTable(policy) == table' = policy /\ sets' = {}

Begin(policy) ==
    /\ job.pc = "idle"
    /\ Request
    /\ job' = [pc |-> "apply", policy |-> policy]
    /\ UNCHANGED <<running, table, sets, trigger, refresh, faults>>

\* nftables is the first engine of the supervisor; nft applies all or nothing.
ApplyTable ==
    /\ job.pc = "apply"
    /\ LoadTable(job.policy)
    /\ Goto("activate")
    /\ UNCHANGED <<running, trigger, refresh, requests, faults>>

\* nftables or, after it, another engine fails.
ApplyFails ==
    /\ job.pc \in {"apply", "activate"}
    /\ Fault("apply")
    /\ Goto("restore")
    /\ UNCHANGED <<running, table, sets, trigger, refresh, requests>>

\* The restore reloads the running policy's table, unless it fails too.  The
\* job ends without OnCommit.
Restore ==
    /\ job.pc = "restore"
    /\ Goto("idle")
    /\ \/ LoadTable(running) /\ UNCHANGED faults
       \/ Fault("apply") /\ UNCHANGED <<table, sets>>
    /\ UNCHANGED <<running, trigger, refresh, requests>>

\* The store does not take the activation: the engines keep the new policy.
ActivateFails ==
    /\ job.pc = "activate"
    /\ Fault("apply")
    /\ Goto("idle")
    /\ UNCHANGED <<running, table, sets, trigger, refresh, requests>>

Activate ==
    /\ job.pc = "activate"
    /\ running' = job.policy
    /\ Goto("notify")
    /\ UNCHANGED <<table, sets, trigger, refresh, requests, faults>>

\* Mutant: the updater is told only when it is waiting for a token.
OnCommitUnbuffered ==
    /\ job.pc = "notify"
    /\ trigger' = (trigger \/ refresh[Loop].pc = "idle")
    /\ Goto("idle")
    /\ UNCHANGED <<running, table, sets, refresh, requests, faults>>

\* OnCommit puts a token into the channel; if one is there already the send
\* is dropped.
OnCommit ==
    /\ job.pc = "notify"
    /\ trigger' = TRUE
    /\ Goto("idle")
    /\ UNCHANGED <<running, table, sets, refresh, requests, faults>>

----------------------------------------------------------------------------
(* The updater.                                                            *)

Wake(g) == refresh' = [refresh EXCEPT ![g] = [@ EXCEPT !.pc = "woken"]]

\* Run: the loop takes the token, or its interval is over.
TakeTrigger ==
    /\ refresh[Loop].pc = "idle"
    /\ trigger
    /\ trigger' = FALSE
    /\ Wake(Loop)
    /\ UNCHANGED <<policyVars, sets, requests, faults>>

Tick ==
    /\ refresh[Loop].pc = "idle"
    /\ Wake(Loop)
    /\ UNCHANGED <<policyVars, sets, trigger, requests, faults>>

\* The RefreshFeeds handler calls Refresh in its own goroutine.
RefreshFeeds(c) ==
    /\ refresh[c].pc = "idle"
    /\ Request
    /\ Wake(c)
    /\ UNCHANGED <<policyVars, sets, trigger, faults>>

Step(g, pc, feeds, failed, result) ==
    refresh' = [refresh EXCEPT ![g] = [pc |-> pc, feeds |-> feeds,
                                       failed |-> failed, result |-> result]]

\* Mutants: the running policy is read once and kept; the failures of the
\* refresh before are kept.
ReadPolicyOnce(g) ==
    LET feeds == IF refresh[g].result = "none" THEN running
                 ELSE refresh[g].feeds IN
    /\ refresh[g].pc = "woken"
    /\ IF feeds = {} THEN Step(g, "idle", {}, {}, "ok")
                     ELSE Step(g, "fetch", feeds, {}, "none")
    /\ UNCHANGED <<policyVars, sets, trigger, requests, faults>>

ReadPolicyKeepFailed(g) ==
    /\ refresh[g].pc = "woken"
    /\ IF running = {} THEN Step(g, "idle", {}, {}, "ok")
                       ELSE Step(g, "fetch", running, refresh[g].failed, "none")
    /\ UNCHANGED <<policyVars, sets, trigger, requests, faults>>

\* Refresh reads the running policy, and returns if no feed is enabled.
ReadPolicy(g) ==
    /\ refresh[g].pc = "woken"
    /\ IF running = {} THEN Step(g, "idle", {}, {}, "ok")
                       ELSE Step(g, "fetch", running, {}, "none")
    /\ UNCHANGED <<policyVars, sets, trigger, requests, faults>>

ReadPolicyFails(g) ==
    /\ refresh[g].pc = "woken"
    /\ Fault("read")
    /\ Step(g, "idle", {}, {}, "error")
    /\ UNCHANGED <<policyVars, sets, trigger, requests>>

\* Refresh fetches one feed after the other; nobody sees the order.  A feed
\* that fails is left out.
Fetch(g) ==
    /\ refresh[g].pc = "fetch"
    /\ \E failed \in SUBSET refresh[g].feeds :
         /\ \/ failed = {} /\ UNCHANGED faults
            \/ failed # {} /\ Fault("fetch")
         /\ Step(g, "program", refresh[g].feeds, failed, "none")
    /\ UNCHANGED <<policyVars, sets, trigger, requests>>

Fetched(g) == refresh[g].feeds \ refresh[g].failed

Return(g, result) ==
    Step(g, "idle", refresh[g].feeds, refresh[g].failed, result)

\* applySets flushes and refills the sets in one nft transaction, which fails
\* when the loaded ruleset declares none.
ApplySets(g) ==
    /\ refresh[g].pc = "program"
    /\ table # {}
    /\ sets' = Fetched(g)
    /\ Return(g, "ok")
    /\ UNCHANGED <<policyVars, trigger, requests, faults>>

ApplySetsFails(g) ==
    /\ refresh[g].pc = "program"
    /\ \/ table = {} /\ UNCHANGED faults
       \/ Fault("nft")
    /\ Return(g, "error")
    /\ UNCHANGED <<policyVars, sets, trigger, requests>>

----------------------------------------------------------------------------
JobStep ==
    \/ ApplyTable \/ ApplyFails \/ Restore
    \/ ActivateFails \/ Activate \/ OnCommit

RefreshStep(g) ==
    \/ ReadPolicy(g) \/ ReadPolicyFails(g)
    \/ Fetch(g) \/ ApplySets(g) \/ ApplySetsFails(g)

Next ==
    \/ \E policy \in SUBSET Feeds : Begin(policy)
    \/ JobStep
    \/ TakeTrigger \/ Tick
    \/ \E c \in Clients : RefreshFeeds(c)
    \/ \E g \in Goroutines : RefreshStep(g)

Spec == Init /\ [][Next]_vars

\* The ticker fires, a refresh that runs goes on (fetches have a timeout), and
\* so does a policy job.  Clients owe nothing.
FairSpec ==
    /\ Spec
    /\ WF_vars(JobStep)
    /\ WF_vars(Tick)
    /\ \A g \in Goroutines : WF_vars(RefreshStep(g))

----------------------------------------------------------------------------
(* Properties.                                                             *)

\* No job and no refresh is in flight, no token waits, and the loaded ruleset
\* is the running policy's.
Settled ==
    /\ job.pc = "idle"
    /\ \A g \in Goroutines : refresh[g].pc = "idle"
    /\ ~trigger
    /\ table = running

(***************************************************************************)
(* However commits and refreshes interleave, once all is quiet the sets    *)
(* hold the feeds of the running policy, less the ones the last refresh of *)
(* the loop could not fetch, unless that refresh failed altogether         *)
(* (updater.go: the sets "are repopulated after every commit").            *)
(***************************************************************************)
SetsFollowPolicy ==
    Settled /\ refresh[Loop].result # "error" =>
        sets = running \ refresh[Loop].failed

(***************************************************************************)
(* Once commits, requests and failures end, the sets come to hold all the  *)
(* feeds of the running policy and keep them, provided its ruleset is the  *)
(* one that is loaded (updater.go, Run: every interval ends in a refresh). *)
(***************************************************************************)
EventuallyPopulated == <>[](table = running => sets = running)

(***************************************************************************)
(* A refresh that could not fetch a feed returns an error (updater.go,     *)
(* Refresh: the failure is surfaced "in logs and the error return").       *)
(***************************************************************************)
FetchFailureReturned ==
    \A g \in Goroutines : refresh[g].result = "ok" => refresh[g].failed = {}
============================================================================
