------------------------- MODULE IntelUpdaterProofs -------------------------
(***************************************************************************)
(* SetsFollowPolicy for any feeds and bounds, when the loop is the only    *)
(* goroutine that refreshes and no policy job fails.                       *)
(***************************************************************************)
EXTENDS IntelUpdater, TLAPS

\* The loaded ruleset is the running policy's until a job replaces it, and
\* holds no entries if it declares no sets.
TableFollowsJob ==
    /\ job.pc # "restore"
    /\ job.pc \in {"idle", "apply", "notify"} => table = running
    /\ job.pc = "activate" => table = job.policy
    /\ job.pc = "notify" => running = job.policy
    /\ table = {} => sets = {}

\* With no token in the channel and no table replaced since, the loop works
\* on the running policy, or has finished with it.
LoopIsCurrent ==
    job.pc \in {"idle", "apply"} /\ ~trigger =>
      /\ refresh[Loop].pc \in {"fetch", "program"} =>
           refresh[Loop].feeds = running
      /\ refresh[Loop].pc = "idle" /\ refresh[Loop].result # "error" =>
           sets = running \ refresh[Loop].failed

IntelInv == IntelTypeOK /\ TableFollowsJob /\ LoopIsCurrent

----------------------------------------------------------------------------
\* The goroutine that wakes up, and all others.
LEMMA WakeFacts ==
  ASSUME refresh \in [Goroutines -> Refreshing], NEW g \in Goroutines, Wake(g)
  PROVE  /\ refresh' \in [Goroutines -> Refreshing]
         /\ refresh'[g].pc = "woken"
         /\ refresh'[g].feeds = refresh[g].feeds
         /\ refresh'[g].failed = refresh[g].failed
         /\ \A h \in Goroutines \ {g} : refresh'[h] = refresh[h]
  <1>1. refresh[g] \in Refreshing
    OBVIOUS
  <1>2. refresh'[g] = [refresh[g] EXCEPT !.pc = "woken"]
    BY DEF Wake
  <1>3. refresh'[g] \in Refreshing
    BY <1>1, <1>2 DEF Refreshing
  <1>. QED  BY <1>1, <1>2, <1>3 DEF Wake, Refreshing

\* Init.
LEMMA InitInv == Init => IntelInv
  <1>. SUFFICES ASSUME Init PROVE IntelInv
    OBVIOUS
  <1>. USE IntelAssumption
  <1>1. Loop \in Goroutines
    BY DEF Goroutines
  <1>2. IntelTypeOK
    BY DEF Init, IntelTypeOK, Refreshing
  <1>. QED  BY <1>1, <1>2 DEF Init, IntelInv, TableFollowsJob, LoopIsCurrent

\* The steps of a policy job.
LEMMA JobInv ==
  ASSUME IntelInv, "apply" \notin Faults,
         (\E policy \in SUBSET Feeds : Begin(policy)) \/ JobStep
  PROVE  IntelInv'
  <1>. USE IntelAssumption
  <1>t. IntelTypeOK /\ TableFollowsJob /\ LoopIsCurrent
    BY DEF IntelInv
  <1>1. ASSUME NEW policy \in SUBSET Feeds, Begin(policy) PROVE IntelInv'
    <2>1. IntelTypeOK'
      BY <1>t, <1>1 DEF Begin, Request, IntelTypeOK
    <2>. QED  BY <1>t, <1>1, <2>1
              DEF Begin, IntelInv, IntelTypeOK, TableFollowsJob, LoopIsCurrent
  <1>2. CASE ApplyTable
    <2>1. IntelTypeOK'
      BY <1>t, <1>2 DEF ApplyTable, LoadTable, Goto, IntelTypeOK
    <2>. QED  BY <1>t, <1>2, <2>1
              DEF ApplyTable, LoadTable, Goto, IntelInv, IntelTypeOK,
                  TableFollowsJob, LoopIsCurrent
  <1>3. CASE Activate
    <2>1. IntelTypeOK'
      BY <1>t, <1>3 DEF Activate, Goto, IntelTypeOK
    <2>. QED  BY <1>t, <1>3, <2>1
              DEF Activate, Goto, IntelInv, IntelTypeOK, TableFollowsJob,
                  LoopIsCurrent
  <1>4. CASE OnCommit
    <2>1. IntelTypeOK'
      BY <1>t, <1>4 DEF OnCommit, Goto, IntelTypeOK
    <2>. QED  BY <1>t, <1>4, <2>1
              DEF OnCommit, Goto, IntelInv, IntelTypeOK, TableFollowsJob,
                  LoopIsCurrent
  <1>5. ~ApplyFails /\ ~ActivateFails /\ ~Restore
    BY <1>t DEF ApplyFails, ActivateFails, Restore, Fault, TableFollowsJob
  <1>. QED  BY <1>1, <1>2, <1>3, <1>4, <1>5 DEF JobStep

\* The loop wakes up.
LEMMA WakeInv ==
  ASSUME IntelInv, TakeTrigger \/ Tick
  PROVE  IntelInv'
  <1>. USE IntelAssumption
  <1>t. IntelTypeOK /\ TableFollowsJob /\ LoopIsCurrent
    BY DEF IntelInv
  <1>1. Loop \in Goroutines /\ Wake(Loop)
    BY DEF TakeTrigger, Tick, Goroutines
  <1>2. /\ UNCHANGED <<policyVars, sets, requests, faults>>
        /\ trigger' \in BOOLEAN
    BY <1>t DEF TakeTrigger, Tick, IntelTypeOK
  <1>3. /\ refresh' \in [Goroutines -> Refreshing]
        /\ refresh'[Loop].pc = "woken"
        /\ \A g \in Goroutines : refresh'[g].failed \subseteq refresh'[g].feeds
    BY <1>t, <1>1, WakeFacts DEF IntelTypeOK
  <1>4. IntelTypeOK'
    BY <1>t, <1>2, <1>3 DEF IntelTypeOK, policyVars
  <1>5. TableFollowsJob' /\ LoopIsCurrent'
    BY <1>t, <1>2, <1>3 DEF TableFollowsJob, LoopIsCurrent, policyVars
  <1>. QED  BY <1>4, <1>5 DEF IntelInv

\* What a step of Refresh by the loop must establish.
LEMMA LoopStepInv ==
  ASSUME IntelInv, Goroutines = {Loop},
         NEW pc \in {"idle", "woken", "fetch", "program"},
         NEW feeds \in SUBSET Feeds, NEW failed \in SUBSET feeds,
         NEW result \in {"none", "ok", "error"},
         Step(Loop, pc, feeds, failed, result),
         UNCHANGED <<policyVars, trigger, requests>>,
         faults' \in 0..MaxFaults,
         sets' \in SUBSET Feeds, table = {} => sets' = {},
         job.pc \in {"idle", "apply"} /\ ~trigger =>
           /\ pc \in {"fetch", "program"} => feeds = running
           /\ pc = "idle" /\ result # "error" => sets' = running \ failed
  PROVE  IntelInv'
  <1>t. IntelTypeOK /\ TableFollowsJob
    BY DEF IntelInv
  <1>0. Loop \in Goroutines /\ refresh \in [Goroutines -> Refreshing]
    BY <1>t DEF IntelTypeOK
  <1>1. /\ refresh' \in [Goroutines -> Refreshing]
        /\ refresh'[Loop] = [pc |-> pc, feeds |-> feeds, failed |-> failed,
                             result |-> result]
    <2>1. [pc |-> pc, feeds |-> feeds, failed |-> failed, result |-> result]
            \in Refreshing
      BY DEF Refreshing
    <2>. QED  BY <1>0, <2>1 DEF Step
  <1>2. /\ refresh'[Loop].pc = pc
        /\ refresh'[Loop].feeds = feeds
        /\ refresh'[Loop].failed = failed
        /\ refresh'[Loop].result = result
    BY <1>1
  <1>3. IntelTypeOK'
    BY <1>t, <1>1, <1>2 DEF IntelTypeOK, policyVars
  <1>4. TableFollowsJob'
    BY <1>t DEF TableFollowsJob, policyVars
  <1>5. LoopIsCurrent'
    BY <1>2 DEF LoopIsCurrent, policyVars
  <1>. QED  BY <1>3, <1>4, <1>5 DEF IntelInv

\* The steps of Refresh.
LEMMA RefreshInv ==
  ASSUME IntelInv, Goroutines = {Loop}, RefreshStep(Loop)
  PROVE  IntelInv'
  <1>. USE IntelAssumption
  <1>t. IntelTypeOK /\ TableFollowsJob /\ LoopIsCurrent
    BY DEF IntelInv
  <1>r. /\ refresh[Loop].feeds \in SUBSET Feeds
        /\ refresh[Loop].failed \in SUBSET refresh[Loop].feeds
    BY <1>t DEF IntelTypeOK, Refreshing
  <1>f. ASSUME NEW kind, Fault(kind) PROVE faults' \in 0..MaxFaults
    BY <1>t, <1>f DEF Fault, IntelTypeOK
  <1>1. CASE ReadPolicy(Loop)
    <2>1. CASE running = {}
      <3>1. Step(Loop, "idle", {}, {}, "ok")
        BY <1>1, <2>1 DEF ReadPolicy
      <3>2. job.pc \in {"idle", "apply"} => sets = {}
        BY <1>t, <2>1 DEF TableFollowsJob
      <3>. QED  BY <1>t, <1>1, <2>1, <3>1, <3>2, LoopStepInv
                DEF ReadPolicy, IntelTypeOK, TableFollowsJob
    <2>2. CASE running # {}
      <3>1. Step(Loop, "fetch", running, {}, "none")
        BY <1>1, <2>2 DEF ReadPolicy
      <3>. QED  BY <1>t, <1>1, <3>1, LoopStepInv
                DEF ReadPolicy, IntelTypeOK, TableFollowsJob
    <2>. QED  BY <2>1, <2>2
  <1>2. CASE ReadPolicyFails(Loop)
    <2>1. faults' \in 0..MaxFaults
      BY <1>2, <1>f DEF ReadPolicyFails
    <2>. QED  BY <1>t, <1>2, <2>1, LoopStepInv
              DEF ReadPolicyFails, IntelTypeOK, TableFollowsJob
  <1>3. CASE Fetch(Loop)
    <2>1. PICK failed \in SUBSET refresh[Loop].feeds :
            /\ \/ failed = {} /\ UNCHANGED faults
               \/ failed # {} /\ Fault("fetch")
            /\ Step(Loop, "program", refresh[Loop].feeds, failed, "none")
      BY <1>3 DEF Fetch
    <2>2. faults' \in 0..MaxFaults
      BY <1>t, <1>f, <2>1 DEF IntelTypeOK
    <2>3. job.pc \in {"idle", "apply"} /\ ~trigger =>
            refresh[Loop].feeds = running
      BY <1>t, <1>3 DEF Fetch, LoopIsCurrent
    <2>. QED  BY <1>t, <1>r, <1>3, <2>1, <2>2, <2>3, LoopStepInv
              DEF Fetch, IntelTypeOK, TableFollowsJob
  <1>4. CASE ApplySets(Loop)
    <2>1. job.pc \in {"idle", "apply"} /\ ~trigger =>
            refresh[Loop].feeds = running
      BY <1>t, <1>4 DEF ApplySets, LoopIsCurrent
    <2>2. /\ sets' \in SUBSET Feeds
          /\ table # {}
          /\ sets' = refresh[Loop].feeds \ refresh[Loop].failed
      BY <1>r, <1>4 DEF ApplySets, Fetched
    <2>3. Step(Loop, "idle", refresh[Loop].feeds, refresh[Loop].failed, "ok")
      BY <1>4 DEF ApplySets, Return
    <2>. QED  BY <1>t, <1>r, <1>4, <2>1, <2>2, <2>3, LoopStepInv
              DEF ApplySets, IntelTypeOK
  <1>5. CASE ApplySetsFails(Loop)
    <2>1. faults' \in 0..MaxFaults
      BY <1>t, <1>5, <1>f DEF ApplySetsFails, IntelTypeOK
    <2>2. Step(Loop, "idle", refresh[Loop].feeds, refresh[Loop].failed, "error")
      BY <1>5 DEF ApplySetsFails, Return
    <2>. QED  BY <1>t, <1>r, <1>5, <2>1, <2>2, LoopStepInv
              DEF ApplySetsFails, IntelTypeOK, TableFollowsJob
  <1>. QED  BY <1>1, <1>2, <1>3, <1>4, <1>5 DEF RefreshStep

----------------------------------------------------------------------------
\* With the loop as the only refresher and no failing policy job, the sets
\* follow the running policy however commits and refreshes interleave, for
\* any feeds and number of commits (updater.go, Refresh and Run; main.go,
\* OnCommit).
THEOREM LoopKeepsSets ==
  ASSUME Clients = {}, "apply" \notin Faults
  PROVE  Spec => []SetsFollowPolicy
  <1>1. Goroutines = {Loop}
    BY DEF Goroutines
  <1>2. IntelInv /\ [Next]_vars => IntelInv'
    <2>. SUFFICES ASSUME IntelInv, [Next]_vars PROVE IntelInv'
      OBVIOUS
    <2>1. CASE (\E policy \in SUBSET Feeds : Begin(policy)) \/ JobStep
      BY <2>1, JobInv
    <2>2. CASE TakeTrigger \/ Tick
      BY <2>2, WakeInv
    <2>3. CASE RefreshStep(Loop)
      BY <1>1, <2>3, RefreshInv
    <2>4. CASE UNCHANGED vars
      BY <2>4 DEF vars, IntelInv, IntelTypeOK, TableFollowsJob, LoopIsCurrent
    <2>. QED  BY <1>1, <2>1, <2>2, <2>3, <2>4 DEF Next
  <1>3. IntelInv => SetsFollowPolicy
    BY <1>1 DEF IntelInv, LoopIsCurrent, SetsFollowPolicy, Settled
  <1>. QED  BY InitInv, <1>2, <1>3, PTL DEF Spec
============================================================================
