---------------------------- MODULE ProcManager ----------------------------
(***************************************************************************)
(* The process manager of an engine that is a child process, Suricata or   *)
(* Vector (internal/engines/process.go): restart and stop, the goroutine   *)
(* that waits for each child, and the bounded automatic restart.           *)
(*                                                                         *)
(* mu        caller that holds procManager.mu over a wait, or Nobody       *)
(* cmd       child the manager supervises (p.cmd), 0 for none              *)
(* gen       p.gen                                                         *)
(* restarts  automatic restarts since the last planned one                 *)
(* state     what Status reports                                           *)
(* child     every process started so far: its generation, the process     *)
(*           itself, its waiter goroutine, whether it outlived the grace    *)
(*           time, and (for the properties) the planned start it descends  *)
(*           from                                                          *)
(* caller    where each call of restart or stop is                         *)
(*                                                                         *)
(* A critical section is one step, except for stopLocked, which waits for  *)
(* the child with the mutex held, and for restart, which gives the mutex   *)
(* back while it sleeps.  Time is left out: a timeout may fire whenever    *)
(* its wait is in progress, and a child's uptime is stable or not.         *)
(***************************************************************************)
EXTENDS Naturals, Sequences, FiniteSets

CONSTANTS
    Callers,      \* goroutines that call restart or stop: applies, shutdown
    Nobody,
    MaxRestarts,  \* restartLimit()
    MaxChildren,  \* bound: processes started; at the bound a start fails
    MaxGen        \* bound: generation up to which calls are made

ASSUME ProcAssumption ==
    /\ Nobody \notin Callers
    /\ MaxRestarts \in Nat /\ MaxChildren \in Nat /\ MaxGen \in Nat

VARIABLES mu, cmd, gen, restarts, state, child, caller

vars == <<mu, cmd, gen, restarts, state, child, caller>>
managed == <<cmd, gen, restarts, state>>

ProcessStates == {"stopped", "running", "restarting", "failed"}

\* proc: "killed" is a process that was sent SIGKILL and is not reaped yet.
\* waiter: in cmd.Wait; returned, with done closed; in the restart delay; gone.
Child == [gen : Nat, proc : {"live", "killed", "dead"},
          waiter : {"wait", "exited", "delay", "gone"},
          stable : BOOLEAN, origin : Nat \ {0}]

\* target: the child stopLocked waits for; child: the one restart started.
Caller == [pc : {"idle", "stopping", "killing", "start", "grace"},
           op : {"restart", "stop"}, target : Nat, child : Nat, gen : Nat,
           ok : BOOLEAN]

Children == DOMAIN child

ProcTypeOK ==
    /\ mu \in Callers \cup {Nobody}
    /\ cmd \in 0..Len(child)
    /\ gen \in Nat
    /\ restarts \in 0..MaxRestarts
    /\ state \in ProcessStates
    /\ child \in Seq(Child)
    /\ caller \in [Callers -> Caller]

Init ==
    /\ mu = Nobody
    /\ cmd = 0
    /\ gen = 0
    /\ restarts = 0
    /\ state = "stopped"
    /\ child = <<>>
    /\ caller = [c \in Callers |-> [pc |-> "idle", op |-> "stop", target |-> 0,
                                    child |-> 0, gen |-> 0, ok |-> FALSE]]

Free == mu = Nobody
DoneClosed(k) == child[k].waiter # "wait"

----------------------------------------------------------------------------
\* startLocked, when the command starts.
StartLocked(origin) ==
    /\ Len(child) < MaxChildren
    /\ child' = Append(child, [gen |-> gen + 1, proc |-> "live",
                               waiter |-> "wait", stable |-> FALSE,
                               origin |-> origin])
    /\ cmd' = Len(child) + 1
    /\ gen' = gen + 1
    /\ state' = "running"

\* Mutant: without a live child the generation stays.
StopOnlyLiveChild(c, op) ==
    /\ Free
    /\ gen < MaxGen
    /\ caller[c].pc = "idle"
    /\ mu' = c
    /\ gen' = IF cmd = 0 THEN gen ELSE gen + 1
    /\ state' = "stopped"
    /\ cmd' = 0
    /\ caller' = [caller EXCEPT ![c] =
                    [@ EXCEPT !.pc = IF cmd = 0 THEN "start" ELSE "stopping",
                              !.op = op, !.target = cmd]]
    /\ UNCHANGED <<restarts, child>>

\* restart or stop takes the mutex and enters stopLocked, which bumps the
\* generation and, when there is a child, interrupts it and waits.
Call(c, op) ==
    /\ Free
    /\ gen < MaxGen
    /\ caller[c].pc = "idle"
    /\ mu' = c
    /\ gen' = gen + 1
    /\ state' = "stopped"
    /\ cmd' = 0
    /\ caller' = [caller EXCEPT ![c] =
                    [@ EXCEPT !.pc = IF cmd = 0 THEN "start" ELSE "stopping",
                              !.op = op, !.target = cmd]]
    /\ UNCHANGED <<restarts, child>>

Goto(c, pc) == caller' = [caller EXCEPT ![c] = [@ EXCEPT !.pc = pc]]

\* Mutants: the wait has no timeout; the timeout gives up without a kill.
WaitForever(c) ==
    /\ caller[c].pc = "stopping"
    /\ DoneClosed(caller[c].target)
    /\ Goto(c, "start")
    /\ UNCHANGED <<mu, managed, child>>

GiveUp(c) ==
    /\ caller[c].pc = "stopping"
    /\ Goto(c, "start")
    /\ UNCHANGED <<mu, managed, child>>

\* Killing a process that has exited already does nothing.
Killed(proc) == IF proc = "live" THEN "killed" ELSE proc

\* stopLocked, first select: the child is done, or five seconds are over and
\* it is killed.
StopWait(c) ==
    LET k == caller[c].target IN
    /\ caller[c].pc = "stopping"
    /\ \/ DoneClosed(k) /\ Goto(c, "start") /\ UNCHANGED child
       \/ /\ Goto(c, "killing")
          /\ child' = [child EXCEPT ![k] =
                         [@ EXCEPT !.proc = Killed(child[k].proc)]]
    /\ UNCHANGED <<mu, managed>>

\* stopLocked, second select: the child is done, or one second is over.
KillWait(c) ==
    /\ caller[c].pc = "killing"
    /\ Goto(c, "start")
    /\ UNCHANGED <<mu, managed, child>>

\* After stopLocked: stop returns; restart starts the command and gives the
\* mutex back for the grace time, or returns the error of the start.
StopReturns(c) ==
    /\ caller[c].pc = "start"
    /\ caller[c].op = "stop"
    /\ mu' = Nobody
    /\ Goto(c, "idle")
    /\ UNCHANGED <<managed, child>>

Sleeping(call, g, k) ==
    [call EXCEPT !.pc = "grace", !.gen = g, !.child = k, !.ok = FALSE]

RestartStarts(c) ==
    /\ caller[c].pc = "start"
    /\ caller[c].op = "restart"
    /\ mu' = Nobody
    /\ restarts' = 0
    /\ StartLocked(Len(child) + 1)
    /\ caller' = [caller EXCEPT ![c] =
                    Sleeping(caller[c], gen + 1, Len(child) + 1)]

RestartFails(c) ==
    /\ caller[c].pc = "start"
    /\ caller[c].op = "restart"
    /\ mu' = Nobody
    /\ restarts' = 0
    /\ caller' = [caller EXCEPT ![c] = [@ EXCEPT !.pc = "idle", !.ok = FALSE]]
    /\ UNCHANGED <<cmd, gen, state, child>>

\* Mutant: any live child will do.
ReturnsAnyChild(c) ==
    /\ caller[c].pc = "grace"
    /\ Free
    /\ caller' = [caller EXCEPT ![c] = [@ EXCEPT !.pc = "idle", !.ok = cmd # 0]]
    /\ UNCHANGED <<mu, managed, child>>

\* restart after the grace time: the child it started must still be current.
RestartReturns(c) ==
    /\ caller[c].pc = "grace"
    /\ Free
    /\ caller' = [caller EXCEPT ![c] =
                    [@ EXCEPT !.pc = "idle",
                              !.ok = caller[c].gen = gen /\ cmd # 0]]
    /\ UNCHANGED <<mu, managed, child>>

----------------------------------------------------------------------------
\* The process ends: by itself, on the interrupt or by the kill.
Exit(k) ==
    /\ child[k].proc # "dead"
    /\ child' = [child EXCEPT ![k] = [@ EXCEPT !.proc = "dead"]]
    /\ UNCHANGED <<mu, managed, caller>>

Reaped(x, stable) == [x EXCEPT !.waiter = "exited", !.stable = stable]

\* wait: cmd.Wait returns and done is closed, before the mutex is taken.
Reap(k) ==
    /\ child[k].proc = "dead"
    /\ child[k].waiter = "wait"
    /\ \E stable \in BOOLEAN :
         child' = [child EXCEPT ![k] = Reaped(child[k], stable)]
    /\ UNCHANGED <<mu, managed, caller>>

WaiterGoes(k, to) == child' = [child EXCEPT ![k] = [@ EXCEPT !.waiter = to]]

\* Mutants: a planned stop is taken for a crash; the budget is not counted;
\* the budget is one too large.
RecordAnyExit(k) ==
    /\ child[k].waiter = "exited"
    /\ Free
    /\ IF child[k].stable /\ restarts < MaxRestarts
         THEN /\ restarts' = restarts + 1
              /\ state' = "restarting"
              /\ WaiterGoes(k, "delay")
         ELSE /\ state' = "failed"
              /\ WaiterGoes(k, "gone")
              /\ UNCHANGED restarts
    /\ cmd' = 0
    /\ UNCHANGED <<mu, gen, caller>>

RecordUncounted(k) ==
    /\ child[k].waiter = "exited"
    /\ Free
    /\ IF child[k].gen # gen \/ cmd # k
         THEN WaiterGoes(k, "gone") /\ UNCHANGED managed
         ELSE /\ cmd' = 0
              /\ state' = IF child[k].stable THEN "restarting" ELSE "failed"
              /\ WaiterGoes(k, IF child[k].stable THEN "delay" ELSE "gone")
              /\ UNCHANGED <<gen, restarts>>
    /\ UNCHANGED <<mu, caller>>

RecordOneMore(k) ==
    /\ child[k].waiter = "exited"
    /\ Free
    /\ IF child[k].gen # gen \/ cmd # k
         THEN WaiterGoes(k, "gone") /\ UNCHANGED managed
         ELSE /\ cmd' = 0
              /\ IF child[k].stable /\ restarts <= MaxRestarts
                   THEN /\ restarts' = restarts + 1
                        /\ state' = "restarting"
                        /\ WaiterGoes(k, "delay")
                   ELSE /\ state' = "failed"
                        /\ WaiterGoes(k, "gone")
                        /\ UNCHANGED restarts
              /\ UNCHANGED gen
    /\ UNCHANGED <<mu, caller>>

\* wait, first critical section: an exit nobody planned is recorded, and a
\* stable child within the budget is to be restarted after the delay.
RecordExit(k) ==
    /\ child[k].waiter = "exited"
    /\ Free
    /\ IF child[k].gen # gen \/ cmd # k
         THEN WaiterGoes(k, "gone") /\ UNCHANGED managed
         ELSE /\ cmd' = 0
              /\ IF child[k].stable /\ restarts < MaxRestarts
                   THEN /\ restarts' = restarts + 1
                        /\ state' = "restarting"
                        /\ WaiterGoes(k, "delay")
                   ELSE /\ state' = "failed"
                        /\ WaiterGoes(k, "gone")
                        /\ UNCHANGED restarts
              /\ UNCHANGED gen
    /\ UNCHANGED <<mu, caller>>

\* wait, after the delay: another start or stop came first.
RestartOvertaken(k) ==
    /\ child[k].waiter = "delay"
    /\ Free
    /\ child[k].gen # gen \/ cmd # 0
    /\ WaiterGoes(k, "gone")
    /\ UNCHANGED <<mu, managed, caller>>

\* Mutant: the new child takes over the generation of the old one.
AutoRestartSameGen(k) ==
    /\ child[k].waiter = "delay"
    /\ Free
    /\ child[k].gen = gen /\ cmd = 0
    /\ Len(child) < MaxChildren
    /\ child' = Append([child EXCEPT ![k] = [@ EXCEPT !.waiter = "gone"]],
                       [gen |-> gen, proc |-> "live", waiter |-> "wait",
                        stable |-> FALSE, origin |-> child[k].origin])
    /\ cmd' = Len(child) + 1
    /\ state' = "running"
    /\ UNCHANGED <<mu, gen, restarts, caller>>

\* wait, after the delay: the child is started again, with a new waiter.
AutoRestart(k) ==
    /\ child[k].waiter = "delay"
    /\ Free
    /\ child[k].gen = gen /\ cmd = 0
    /\ Len(child) < MaxChildren
    /\ child' = Append([child EXCEPT ![k] = [@ EXCEPT !.waiter = "gone"]],
                       [gen |-> gen + 1, proc |-> "live", waiter |-> "wait",
                        stable |-> FALSE, origin |-> child[k].origin])
    /\ cmd' = Len(child) + 1
    /\ gen' = gen + 1
    /\ state' = "running"
    /\ UNCHANGED <<mu, restarts, caller>>

\* Mutant: a failed automatic restart is not reported.
AutoRestartFailsSilently(k) ==
    /\ child[k].waiter = "delay"
    /\ Free
    /\ child[k].gen = gen /\ cmd = 0
    /\ WaiterGoes(k, "gone")
    /\ UNCHANGED <<mu, managed, caller>>

\* wait, after the delay: the command does not start.
AutoRestartFails(k) ==
    /\ child[k].waiter = "delay"
    /\ Free
    /\ child[k].gen = gen /\ cmd = 0
    /\ state' = "failed"
    /\ WaiterGoes(k, "gone")
    /\ UNCHANGED <<mu, cmd, gen, restarts, caller>>

----------------------------------------------------------------------------
CallStep(c) ==
    \/ StopWait(c) \/ KillWait(c) \/ StopReturns(c)
    \/ RestartStarts(c) \/ RestartFails(c) \/ RestartReturns(c)

WaiterStep(k) ==
    \/ Reap(k) \/ RecordExit(k)
    \/ RestartOvertaken(k) \/ AutoRestart(k) \/ AutoRestartFails(k)

Next ==
    \/ \E c \in Callers : \/ \E op \in {"restart", "stop"} : Call(c, op)
                         \/ CallStep(c)
    \/ \E k \in Children : Exit(k) \/ WaiterStep(k)

Spec == Init /\ [][Next]_vars

\* Timers fire and a blocked goroutine gets the mutex in the end (Go's mutex
\* does not starve); processes and new calls owe nothing.
FairSpec ==
    /\ Spec
    /\ \A c \in Callers : SF_vars(CallStep(c))
    /\ \A k \in 1..MaxChildren : SF_vars(k \in Children /\ WaiterStep(k))

----------------------------------------------------------------------------
(* Properties.                                                             *)

BeingStopped(k) ==
    \E c \in Callers : caller[c].pc = "stopping" /\ caller[c].target = k

(***************************************************************************)
(* No orphan: a process that was not killed is the supervised child or the *)
(* one a stop is waiting for (process.go, startLocked is reached after     *)
(* stopLocked or after an exit).  A killed process may still overlap its   *)
(* successor until the kernel is done with it.                             *)
(***************************************************************************)
NoOrphan ==
    \A k \in Children : child[k].proc = "live" => cmd = k \/ BeingStopped(k)

(***************************************************************************)
(* Status is honest: it says "running" exactly while a child is            *)
(* supervised, and "restarting" exactly while a waiter that will restart   *)
(* the engine is in its delay (process.go, Status and wait).               *)
(***************************************************************************)
StatusHonest ==
    /\ state = "running" <=> cmd # 0
    /\ state = "restarting" <=>
         \E k \in Children : child[k].waiter = "delay" /\ child[k].gen = gen

(***************************************************************************)
(* What the mutex and the generation protect: the mutex is held exactly    *)
(* over a stop, with no child supervised; no two children share a          *)
(* generation, so a waiter or a sleeping restart that finds its generation *)
(* current cannot mistake another child for its own; a process is reaped   *)
(* before its exit is recorded (process.go: gen is "bumped on every        *)
(* (re)start so the waiter can tell planned stops from crashes").          *)
(***************************************************************************)
Holding == {"stopping", "killing", "start"}

Bookkeeping ==
    /\ \A c \in Callers : mu = c <=> caller[c].pc \in Holding
    /\ mu # Nobody => cmd = 0
    /\ \A c \in Callers :
         /\ caller[c].pc \in {"stopping", "killing"} =>
              caller[c].target \in Children
         /\ caller[c].pc = "grace" =>
              /\ caller[c].child \in Children
              /\ child[caller[c].child].gen = caller[c].gen
    /\ \A k \in Children :
         /\ child[k].gen <= gen
         /\ child[k].proc = "live" => child[k].waiter = "wait"
         /\ \A j \in Children : child[j].gen = child[k].gen => j = k
    /\ cmd # 0 => /\ child[cmd].gen = gen
                  /\ child[cmd].waiter \in {"wait", "exited"}

(***************************************************************************)
(* Between two planned starts the engine is restarted at most MaxRestarts  *)
(* times, however its exits, stops and restarts interleave (process.go:    *)
(* "bounded auto-restart on stable unexpected exits").                     *)
(***************************************************************************)
RestartBudget ==
    \A k \in Children :
        Cardinality({j \in Children : child[j].origin = k}) <= MaxRestarts + 1

(***************************************************************************)
(* Once stopped, an engine starts only through a planned restart: a stop   *)
(* cancels restarts that waiters still have in their delay (process.go,    *)
(* stopLocked: "cancels waiter-owned delayed restarts even when no child   *)
(* is live").                                                              *)
(***************************************************************************)
StopIsFinal ==
    [][state = "stopped" /\ state' # "stopped" =>
         \E c \in Callers : mu = c /\ caller[c].op = "restart"]_vars

(***************************************************************************)
(* restart reports success only if the child it started itself is the      *)
(* supervised one when it returns (process.go, restart after the grace     *)
(* time).                                                                  *)
(***************************************************************************)
SuccessIsOwnChild ==
    [][\A c \in Callers : ~caller[c].ok /\ caller'[c].ok =>
         cmd = caller[c].child]_vars

(***************************************************************************)
(* restart and stop return, also when the child ignores interrupt and kill *)
(* (process.go, the timeouts of stopLocked).                               *)
(***************************************************************************)
CallsReturn ==
    \A c \in Callers : caller[c].pc # "idle" ~> caller[c].pc = "idle"

(***************************************************************************)
(* An announced restart happens, fails or is overtaken: "restarting" is    *)
(* never the last word (process.go, wait after the delay).                 *)
(***************************************************************************)
RestartingEnds == state = "restarting" ~> state # "restarting"
============================================================================
