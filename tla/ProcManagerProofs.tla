------------------------- MODULE ProcManagerProofs -------------------------
(***************************************************************************)
(* Proofs about the process manager, for any number of callers, children   *)
(* and restarts.                                                           *)
(***************************************************************************)
EXTENDS ProcManager, SequenceLemmas, TLAPS

\* The inductive invariant.
ProcInv == ProcTypeOK /\ Bookkeeping /\ NoOrphan /\ StatusHonest

LEMMA ChildTypes ==
    ASSUME ProcTypeOK
    PROVE  /\ Children = 1..Len(child) /\ Len(child) \in Nat
           /\ \A k \in Children : child[k] \in Child /\ k \in Nat \ {0}
           /\ \A c \in Callers : caller[c] \in Caller
  BY DEF ProcTypeOK, Children

\* One child's record changes.
LEMMA ReplaceChild ==
    ASSUME ProcTypeOK, NEW k \in Children, NEW r \in Child,
           child' = [child EXCEPT ![k] = r]
    PROVE  /\ child' \in Seq(Child)
           /\ Children' = Children /\ Len(child') = Len(child)
           /\ child'[k] = r
           /\ \A j \in Children : j # k => child'[j] = child[j]
  BY UpdateFacts DEF ProcTypeOK, Children

\* One caller's record changes.
LEMMA ReplaceCaller ==
    ASSUME ProcTypeOK, NEW c \in Callers, NEW r \in Caller,
           caller' = [caller EXCEPT ![c] = r]
    PROVE  /\ caller' \in [Callers -> Caller]
           /\ caller'[c] = r
           /\ \A d \in Callers : d # c => caller'[d] = caller[d]
  BY DEF ProcTypeOK

LEMMA InitInv == Init => ProcInv
  BY ProcAssumption DEF Init, ProcInv, ProcTypeOK, Bookkeeping, NoOrphan,
         StatusHonest, Children, Child, Caller, ProcessStates, Holding

LEMMA CallInv ==
    ASSUME ProcInv, NEW c \in Callers, NEW op \in {"restart", "stop"},
           Call(c, op)
    PROVE  ProcInv'
  <1> DEFINE r == [caller[c] EXCEPT !.pc = IF cmd = 0 THEN "start"
                                                      ELSE "stopping",
                                    !.op = op, !.target = cmd]
  <1>0. ProcTypeOK
    BY DEF ProcInv
  <1>1. /\ r \in Caller /\ r.target = cmd
        /\ r.pc = IF cmd = 0 THEN "start" ELSE "stopping"
    <2>1. cmd \in Nat /\ caller[c] \in Caller
      BY <1>0, ChildTypes DEF ProcTypeOK
    <2> QED
      BY <2>1 DEF Caller
  <1>2. caller' = [caller EXCEPT ![c] = r]
    BY DEF Call
  <1> HIDE DEF r
  <1>3. /\ caller' \in [Callers -> Caller]
        /\ caller'[c] = r
        /\ \A d \in Callers : d # c => caller'[d] = caller[d]
    BY <1>0, <1>1, <1>2, ReplaceCaller
  <1>4. /\ mu = Nobody /\ mu' = c /\ gen' = gen + 1 /\ state' = "stopped"
        /\ cmd' = 0 /\ restarts' = restarts /\ child' = child
        /\ Children' = Children
    BY DEF Call, Free, Children
  <1>5. \A d \in Callers : caller[d].pc \notin Holding
    BY <1>4, ProcAssumption DEF ProcInv, Bookkeeping
  <1>6. ProcTypeOK'
    BY <1>0, <1>3, <1>4 DEF ProcTypeOK, ProcessStates
  <1>7. Bookkeeping'
    <2>1. \A d \in Callers : mu' = d <=> caller'[d].pc \in Holding
      BY <1>1, <1>3, <1>4, <1>5 DEF Holding
    <2>2. \A d \in Callers :
            /\ caller'[d].pc \in {"stopping", "killing"} =>
                 caller'[d].target \in Children'
            /\ caller'[d].pc = "grace" =>
                 /\ caller'[d].child \in Children'
                 /\ child'[caller'[d].child].gen = caller'[d].gen
      BY <1>0, <1>1, <1>3, <1>4, ChildTypes
         DEF ProcInv, Bookkeeping, ProcTypeOK
    <2>3. \A k \in Children' :
            /\ child'[k].gen <= gen'
            /\ child'[k].proc = "live" => child'[k].waiter = "wait"
            /\ \A j \in Children' : child'[j].gen = child'[k].gen => j = k
      BY <1>0, <1>4, ChildTypes DEF ProcInv, Bookkeeping, ProcTypeOK, Child
    <2> QED
      BY <1>4, <2>1, <2>2, <2>3 DEF Bookkeeping
  <1>8. NoOrphan'
    BY <1>0, <1>1, <1>3, <1>4, <1>5, ChildTypes
       DEF ProcInv, NoOrphan, BeingStopped, Holding
  <1>9. StatusHonest'
    BY <1>0, <1>4, ChildTypes
       DEF ProcInv, StatusHonest, Bookkeeping, ProcTypeOK, Child
  <1> QED
    BY <1>6, <1>7, <1>8, <1>9 DEF ProcInv

\* A step that moves a call to "start" with the mutex kept, or ends it with
\* the mutex free, and leaves the manager alone.
LEMMA MoveInv ==
    ASSUME ProcInv, NEW c \in Callers, NEW r \in Caller,
           caller' = [caller EXCEPT ![c] = r],
           \/ caller[c].pc \in Holding
           \/ caller[c].pc = "grace" /\ mu = Nobody,
           \/ r.pc = "start" /\ mu' = mu /\ mu = c
           \/ r.pc = "idle" /\ mu' = Nobody,
           caller[c].pc = "stopping" =>
               child[caller[c].target].proc # "live",
           UNCHANGED <<cmd, gen, state, child>>,
           restarts' \in {restarts, 0}
    PROVE  ProcInv'
  <1>0. ProcTypeOK
    BY DEF ProcInv
  <1>1. /\ caller' \in [Callers -> Caller]
        /\ caller'[c] = r
        /\ \A d \in Callers : d # c => caller'[d] = caller[d]
    BY <1>0, ReplaceCaller
  <1>2. Children' = Children
    BY DEF Children
  <1>3. \A d \in Callers : d # c => mu # d /\ caller[d].pc \notin Holding
    BY ProcAssumption DEF ProcInv, Bookkeeping
  <1>4. ProcTypeOK'
    BY <1>0, <1>1, ProcAssumption DEF ProcTypeOK
  <1>5. \A d \in Callers : mu' = d <=> caller'[d].pc \in Holding
    BY <1>1, <1>3, ProcAssumption DEF Holding
  <1>6. Bookkeeping'
    BY <1>1, <1>2, <1>5 DEF ProcInv, Bookkeeping
  <1>7. NoOrphan'
    BY <1>1, <1>2, <1>3 DEF ProcInv, NoOrphan, BeingStopped, Holding
  <1>8. StatusHonest'
    BY <1>2 DEF ProcInv, StatusHonest
  <1> QED
    BY <1>4, <1>6, <1>7, <1>8 DEF ProcInv

LEMMA CallerRecord ==
    ASSUME ProcTypeOK, NEW c \in Callers, NEW pc \in {"idle", "killing", "start"}
    PROVE  LET r == [caller[c] EXCEPT !.pc = pc] IN
           r \in Caller /\ r.pc = pc /\ r.target = caller[c].target
  BY ChildTypes DEF Caller

LEMMA StopWaitInv ==
    ASSUME ProcInv, NEW c \in Callers, StopWait(c)
    PROVE  ProcInv'
  <1> DEFINE k == caller[c].target
  <1>0. ProcTypeOK /\ k \in Children /\ mu = c /\ cmd = 0
    BY ProcAssumption DEF StopWait, ProcInv, Bookkeeping, Holding
  <1>1. CASE DoneClosed(k) /\ Goto(c, "start") /\ UNCHANGED child
    <2> DEFINE r == [caller[c] EXCEPT !.pc = "start"]
    <2>1. r \in Caller /\ r.pc = "start"
      BY <1>0, CallerRecord
    <2>2. caller' = [caller EXCEPT ![c] = r]
      BY <1>1 DEF Goto
    <2> HIDE DEF r
    <2>3. child[k].proc # "live"
      BY <1>0, <1>1 DEF DoneClosed, ProcInv, Bookkeeping
    <2> QED
      BY <1>0, <1>1, <2>1, <2>2, <2>3, MoveInv
         DEF StopWait, managed, Holding
  <1>2. CASE /\ Goto(c, "killing")
             /\ child' = [child EXCEPT ![k] =
                              [@ EXCEPT !.proc = Killed(child[k].proc)]]
    <2> DEFINE r == [caller[c] EXCEPT !.pc = "killing"]
               x == [child[k] EXCEPT !.proc = Killed(child[k].proc)]
    <2>1. r \in Caller /\ r.pc = "killing" /\ r.target = k
      BY <1>0, CallerRecord
    <2>2. x \in Child /\ x.gen = child[k].gen /\ x.proc # "live"
            /\ x.waiter = child[k].waiter
      BY <1>0, ChildTypes DEF Child, Killed
    <2>3. caller' = [caller EXCEPT ![c] = r] /\ child' = [child EXCEPT ![k] = x]
      BY <1>2 DEF Goto
    <2> HIDE DEF r, x
    <2>4. /\ caller' \in [Callers -> Caller] /\ caller'[c] = r
          /\ \A d \in Callers : d # c => caller'[d] = caller[d]
      BY <1>0, <2>1, <2>3, ReplaceCaller
    <2>5. /\ child' \in Seq(Child) /\ Children' = Children
          /\ Len(child') = Len(child) /\ child'[k] = x
          /\ \A j \in Children : j # k => child'[j] = child[j]
      BY <1>0, <2>2, <2>3, ReplaceChild
    <2>6. UNCHANGED <<mu, cmd, gen, restarts, state>>
      BY DEF StopWait, managed
    <2>7. \A j \in Children : /\ child'[j].gen = child[j].gen
                              /\ child'[j].waiter = child[j].waiter
                              /\ child'[j].proc = "live" =>
                                   j # k /\ child[j].proc = "live"
      BY <2>2, <2>5
    <2>8. ProcTypeOK'
      BY <1>0, <2>4, <2>5, <2>6 DEF ProcTypeOK
    <2>9. Bookkeeping'
      <3>1. \A d \in Callers : mu' = d <=> caller'[d].pc \in Holding
        BY <1>0, <2>1, <2>4, <2>6 DEF ProcInv, Bookkeeping, Holding
      <3>2. \A d \in Callers :
              /\ caller'[d].pc \in {"stopping", "killing"} =>
                   caller'[d].target \in Children'
              /\ caller'[d].pc = "grace" =>
                   /\ caller'[d].child \in Children'
                   /\ child'[caller'[d].child].gen = caller'[d].gen
        BY <1>0, <2>1, <2>4, <2>5, <2>7 DEF ProcInv, Bookkeeping
      <3> QED
        BY <1>0, <2>5, <2>6, <2>7, <3>1, <3>2 DEF ProcInv, Bookkeeping
    <2>10. NoOrphan'
      BY <1>0, <2>1, <2>4, <2>5, <2>6, <2>7
         DEF ProcInv, NoOrphan, BeingStopped
    <2>11. StatusHonest'
      BY <2>5, <2>6, <2>7 DEF ProcInv, StatusHonest
    <2> QED
      BY <2>8, <2>9, <2>10, <2>11 DEF ProcInv
  <1> QED
    BY <1>1, <1>2 DEF StopWait

LEMMA KillWaitInv ==
    ASSUME ProcInv, NEW c \in Callers, KillWait(c)
    PROVE  ProcInv'
  <1> DEFINE r == [caller[c] EXCEPT !.pc = "start"]
  <1>1. r \in Caller /\ r.pc = "start"
    BY CallerRecord DEF ProcInv
  <1>2. caller' = [caller EXCEPT ![c] = r]
    BY DEF KillWait, Goto
  <1> HIDE DEF r
  <1>3. mu = c
    BY ProcAssumption DEF KillWait, ProcInv, Bookkeeping, Holding
  <1> QED
    BY <1>1, <1>2, <1>3, MoveInv DEF KillWait, managed, Holding

\* The steps that end a call.
LEMMA EndInv ==
    ASSUME ProcInv, NEW c \in Callers,
           StopReturns(c) \/ RestartFails(c) \/ RestartReturns(c)
    PROVE  ProcInv'
  <1>0. ProcTypeOK /\ caller[c] \in Caller
    BY ChildTypes DEF ProcInv
  <1>1. CASE StopReturns(c)
    <2> DEFINE r == [caller[c] EXCEPT !.pc = "idle"]
    <2>1. r \in Caller /\ r.pc = "idle"
      BY <1>0, CallerRecord
    <2>2. caller' = [caller EXCEPT ![c] = r]
      BY <1>1 DEF StopReturns, Goto
    <2> HIDE DEF r
    <2> QED
      BY <1>1, <2>1, <2>2, MoveInv DEF StopReturns, managed, Holding
  <1>2. CASE RestartFails(c)
    <2> DEFINE r == [caller[c] EXCEPT !.pc = "idle", !.ok = FALSE]
    <2>1. r \in Caller /\ r.pc = "idle"
      BY <1>0 DEF Caller
    <2>2. caller' = [caller EXCEPT ![c] = r]
      BY <1>2 DEF RestartFails
    <2> HIDE DEF r
    <2> QED
      BY <1>2, <2>1, <2>2, MoveInv DEF RestartFails, Holding
  <1>3. CASE RestartReturns(c)
    <2> DEFINE b == caller[c].gen = gen /\ cmd # 0
               r == [caller[c] EXCEPT !.pc = "idle", !.ok = b]
    <2>1. b \in BOOLEAN
      OBVIOUS
    <2>2. caller' = [caller EXCEPT ![c] = r]
      BY <1>3 DEF RestartReturns
    <2> HIDE DEF b
    <2>3. r \in Caller /\ r.pc = "idle"
      BY <1>0, <2>1 DEF Caller
    <2> HIDE DEF r
    <2> QED
      BY <1>3, <2>2, <2>3, MoveInv
         DEF RestartReturns, managed, Holding, Free
  <1> QED
    BY <1>1, <1>2, <1>3

LEMMA GraceRecord ==
    ASSUME NEW q \in Caller, NEW g \in Nat, NEW m \in Nat
    PROVE  /\ Sleeping(q, g, m) \in Caller
           /\ Sleeping(q, g, m).pc = "grace"
           /\ Sleeping(q, g, m).gen = g /\ Sleeping(q, g, m).child = m
  BY DEF Caller, Sleeping

\* A planned start: the only process that is live afterwards is the new one.
LEMMA RestartStartsInv ==
    ASSUME ProcInv, NEW c \in Callers, RestartStarts(c)
    PROVE  ProcInv'
  <1> DEFINE n == Len(child) + 1
             x == [gen |-> gen + 1, proc |-> "live", waiter |-> "wait",
                   stable |-> FALSE, origin |-> n]
             r == Sleeping(caller[c], gen + 1, n)
  <1>0. ProcTypeOK /\ caller[c] \in Caller /\ Len(child) \in Nat /\ gen \in Nat
          /\ child \in Seq(Child)
    BY ChildTypes DEF ProcInv, ProcTypeOK
  <1>1. x \in Child /\ x.gen = gen + 1 /\ x.waiter = "wait"
    BY <1>0 DEF Child
  <1>2. r \in Caller /\ r.pc = "grace" /\ r.gen = gen + 1 /\ r.child = n
    <2>1. gen + 1 \in Nat /\ n \in Nat
      BY <1>0
    <2>2. \A g, m \in Nat :
            /\ Sleeping(caller[c], g, m) \in Caller
            /\ Sleeping(caller[c], g, m).pc = "grace"
            /\ Sleeping(caller[c], g, m).gen = g
            /\ Sleeping(caller[c], g, m).child = m
      BY <1>0, GraceRecord
    <2> QED
      BY <2>1, <2>2
  <1>3. /\ caller' = [caller EXCEPT ![c] = r] /\ child' = Append(child, x)
        /\ mu' = Nobody /\ restarts' = 0 /\ cmd' = n /\ gen' = gen + 1
        /\ state' = "running" /\ caller[c].pc = "start"
    BY DEF RestartStarts, StartLocked
  <1> HIDE DEF r, x
  <1>4. /\ caller' \in [Callers -> Caller] /\ caller'[c] = r
        /\ \A d \in Callers : d # c => caller'[d] = caller[d]
    BY <1>0, <1>2, <1>3, ReplaceCaller
  <1>5. /\ child' \in Seq(Child) /\ Len(child') = n
        /\ Children = 1..Len(child) /\ Children' = 1..n
        /\ \A j \in Children : child'[j] = child[j]
        /\ child'[n] = x
    BY <1>0, <1>1, <1>3, AppendFacts DEF Children
  <1>6. mu = c /\ \A d \in Callers : d # c => caller[d].pc \notin Holding
    BY <1>3, ProcAssumption DEF ProcInv, Bookkeeping, Holding
  <1>7. ProcTypeOK'
    BY <1>0, <1>3, <1>4, <1>5, ProcAssumption DEF ProcTypeOK, ProcessStates
  <1>8. \A j \in Children : /\ child[j].gen \in Nat /\ child[j].gen <= gen
                            /\ child[j].proc # "live"
    BY <1>0, <1>3, <1>6, ChildTypes, ProcAssumption
       DEF ProcInv, Bookkeeping, NoOrphan, BeingStopped, Holding, Child
  <1>9. Bookkeeping'
    <2>1. \A d \in Callers : mu' = d <=> caller'[d].pc \in Holding
      BY <1>2, <1>3, <1>4, <1>6, ProcAssumption DEF Holding
    <2>2. \A d \in Callers :
            /\ caller'[d].pc \in {"stopping", "killing"} =>
                 caller'[d].target \in Children'
            /\ caller'[d].pc = "grace" =>
                 /\ caller'[d].child \in Children'
                 /\ child'[caller'[d].child].gen = caller'[d].gen
      BY <1>0, <1>1, <1>2, <1>4, <1>5, <1>6 DEF ProcInv, Bookkeeping, Holding
    <2>3. \A k \in Children' :
            /\ child'[k].gen <= gen'
            /\ child'[k].proc = "live" => child'[k].waiter = "wait"
            /\ \A j \in Children' : child'[j].gen = child'[k].gen => j = k
      BY <1>0, <1>1, <1>3, <1>5, <1>8 DEF ProcInv, Bookkeeping
    <2> QED
      BY <1>0, <1>1, <1>3, <1>5, <2>1, <2>2, <2>3 DEF Bookkeeping
  <1>10. NoOrphan'
    BY <1>0, <1>3, <1>5, <1>8 DEF NoOrphan
  <1>11. StatusHonest'
    BY <1>0, <1>1, <1>3, <1>5, <1>8 DEF StatusHonest
  <1> QED
    BY <1>7, <1>9, <1>10, <1>11 DEF ProcInv

\* A child's process or waiter moves on while the manager and the calls stay.
LEMMA ChildMoveInv ==
    ASSUME ProcInv, NEW k \in Children, NEW x \in Child,
           child' = [child EXCEPT ![k] = x],
           x.gen = child[k].gen, x.proc # "live",
           cmd = k => x.waiter \in {"wait", "exited"},
           child[k].gen = gen =>
               (x.waiter = "delay" <=> child[k].waiter = "delay"),
           UNCHANGED <<mu, cmd, gen, restarts, state, caller>>
    PROVE  ProcInv'
  <1>0. ProcTypeOK
    BY DEF ProcInv
  <1>1. /\ child' \in Seq(Child) /\ Children' = Children
        /\ Len(child') = Len(child) /\ child'[k] = x
        /\ \A j \in Children : j # k => child'[j] = child[j]
    BY <1>0, ReplaceChild
  <1>2. \A j \in Children : child'[j].gen = child[j].gen
    BY <1>1
  <1>3. \A j \in Children : child'[j].proc = "live" => child'[j] = child[j]
    BY <1>1
  <1>4. ProcTypeOK'
    BY <1>0, <1>1 DEF ProcTypeOK
  <1>5. Bookkeeping'
    <2>1. cmd # 0 => cmd \in Children
      BY <1>0 DEF ProcTypeOK, Children
    <2> QED
      BY <1>1, <1>2, <1>3, <2>1 DEF ProcInv, Bookkeeping
  <1>6. NoOrphan'
    BY <1>1, <1>3 DEF ProcInv, NoOrphan, BeingStopped
  <1>7. StatusHonest'
    BY <1>1, <1>2 DEF ProcInv, StatusHonest
  <1> QED
    BY <1>4, <1>5, <1>6, <1>7 DEF ProcInv

\* What the steps of a child and of its waiter write into the child's record.
LEMMA ChildRecord ==
    ASSUME NEW q \in Child, NEW w \in {"exited", "delay", "gone"},
           NEW b \in BOOLEAN
    PROVE  /\ LET x == [q EXCEPT !.proc = "dead"] IN
              x \in Child /\ x.gen = q.gen /\ x.proc = "dead"
                /\ x.waiter = q.waiter
           /\ LET x == Reaped(q, b) IN
              x \in Child /\ x.gen = q.gen /\ x.proc = q.proc
                /\ x.waiter = "exited"
           /\ LET x == [q EXCEPT !.waiter = w] IN
              x \in Child /\ x.gen = q.gen /\ x.proc = q.proc
                /\ x.waiter = w
  BY DEF Child, Reaped

LEMMA ExitInv ==
    ASSUME ProcInv, NEW k \in Children, Exit(k)
    PROVE  ProcInv'
  <1> DEFINE x == [child[k] EXCEPT !.proc = "dead"]
  <1>1. child[k] \in Child
    BY ChildTypes DEF ProcInv
  <1>2. x \in Child /\ x.gen = child[k].gen /\ x.proc = "dead"
          /\ x.waiter = child[k].waiter
    BY <1>1, ChildRecord
  <1>3. child' = [child EXCEPT ![k] = x]
    BY DEF Exit
  <1> HIDE DEF x
  <1>4. cmd = k => child[k].waiter \in {"wait", "exited"}
    BY <1>1, ChildTypes DEF ProcInv, Bookkeeping
  <1> QED
    BY <1>2, <1>3, <1>4, ChildMoveInv DEF Exit, managed

LEMMA ReapInv ==
    ASSUME ProcInv, NEW k \in Children, Reap(k)
    PROVE  ProcInv'
  <1>1. PICK b \in BOOLEAN :
          child' = [child EXCEPT ![k] = Reaped(child[k], b)]
    BY DEF Reap
  <1> DEFINE x == Reaped(child[k], b)
  <1>2. child[k] \in Child
    BY ChildTypes DEF ProcInv
  <1>3. x \in Child /\ x.gen = child[k].gen /\ x.proc = child[k].proc
          /\ x.waiter = "exited"
    BY <1>2, ChildRecord
  <1>4. child' = [child EXCEPT ![k] = x]
    BY <1>1
  <1> HIDE DEF x
  <1> QED
    BY <1>3, <1>4, ChildMoveInv DEF Reap, managed

\* A child whose exit was seen is dead.
LEMMA SeenIsDead ==
    ASSUME ProcInv, NEW k \in Children, child[k].waiter # "wait"
    PROVE  child[k].proc # "live"
  BY DEF ProcInv, Bookkeeping

\* A waiter leaves for good, or its child was overtaken.
LEMMA WaiterGoneInv ==
    ASSUME ProcInv, NEW k \in Children,
           child[k].waiter \in {"exited", "delay"},
           WaiterGoes(k, "gone"),
           cmd # k, child[k].waiter = "delay" => child[k].gen # gen,
           UNCHANGED <<mu, cmd, gen, restarts, state, caller>>
    PROVE  ProcInv'
  <1> DEFINE x == [child[k] EXCEPT !.waiter = "gone"]
  <1>1. child[k] \in Child
    BY ChildTypes DEF ProcInv
  <1>2. x \in Child /\ x.gen = child[k].gen /\ x.proc = child[k].proc
          /\ x.waiter = "gone"
    BY <1>1, ChildRecord
  <1>3. child' = [child EXCEPT ![k] = x]
    BY DEF WaiterGoes
  <1> HIDE DEF x
  <1> QED
    BY <1>2, <1>3, ChildMoveInv, SeenIsDead

\* A waiter records the exit of the supervised child, or gives up on its
\* restart: afterwards no child is supervised.
LEMMA UnsupervisedInv ==
    ASSUME ProcInv, NEW k \in Children, mu = Nobody,
           NEW w \in {"delay", "gone"},
           WaiterGoes(k, w), child[k].waiter # "wait",
           child[k].gen = gen, cmd \in {0, k}, cmd' = 0,
           state' = IF w = "delay" THEN "restarting" ELSE "failed",
           restarts' \in 0..MaxRestarts,
           UNCHANGED <<mu, gen, caller>>
    PROVE  ProcInv'
  <1> DEFINE x == [child[k] EXCEPT !.waiter = w]
  <1>0. ProcTypeOK /\ child[k] \in Child
    BY ChildTypes DEF ProcInv
  <1>1. x \in Child /\ x.gen = child[k].gen /\ x.proc = child[k].proc
          /\ x.waiter = w
    BY <1>0 DEF Child
  <1>2. child' = [child EXCEPT ![k] = x]
    BY DEF WaiterGoes
  <1> HIDE DEF x
  <1>3. /\ child' \in Seq(Child) /\ Children' = Children
        /\ Len(child') = Len(child) /\ child'[k] = x
        /\ \A j \in Children : j # k => child'[j] = child[j]
    BY <1>0, <1>1, <1>2, ReplaceChild
  <1>4. \A j \in Children : /\ child'[j].gen = child[j].gen
                            /\ child'[j].proc = child[j].proc
                            /\ child'[j].proc = "live" => j # k
    BY <1>1, <1>3, SeenIsDead
  <1>5. ProcTypeOK'
    BY <1>0, <1>3 DEF ProcTypeOK, ProcessStates
  <1>6. Bookkeeping'
    BY <1>3, <1>4 DEF ProcInv, Bookkeeping
  <1>7. NoOrphan'
    BY <1>3, <1>4 DEF ProcInv, NoOrphan, BeingStopped
  <1>8. StatusHonest'
    <2>1. \A j \in Children : j # k => child[j].gen # gen
      BY DEF ProcInv, Bookkeeping
    <2> QED
      BY <1>1, <1>3, <1>4, <2>1 DEF StatusHonest
  <1> QED
    BY <1>5, <1>6, <1>7, <1>8 DEF ProcInv

LEMMA RecordExitInv ==
    ASSUME ProcInv, NEW k \in Children, RecordExit(k)
    PROVE  ProcInv'
  <1>0. restarts \in 0..MaxRestarts /\ MaxRestarts \in Nat
    BY ProcAssumption DEF ProcInv, ProcTypeOK
  <1>1. CASE child[k].gen # gen \/ cmd # k
    <2>1. cmd # k
      BY <1>1, ChildTypes DEF ProcInv, Bookkeeping
    <2> QED
      BY <1>1, <2>1, WaiterGoneInv DEF RecordExit, managed
  <1>2. CASE child[k].gen = gen /\ cmd = k
    <2>1. CASE child[k].stable /\ restarts < MaxRestarts
      <3>1. restarts' \in 0..MaxRestarts
        BY <1>0, <1>2, <2>1 DEF RecordExit
      <3> QED
        BY <1>2, <2>1, <3>1, UnsupervisedInv DEF RecordExit, Free
    <2>2. CASE ~(child[k].stable /\ restarts < MaxRestarts)
      BY <1>0, <1>2, <2>2, UnsupervisedInv DEF RecordExit, Free
    <2> QED
      BY <2>1, <2>2
  <1> QED
    BY <1>1, <1>2

LEMMA OvertakenInv ==
    ASSUME ProcInv, NEW k \in Children, RestartOvertaken(k)
    PROVE  ProcInv'
  <1>1. cmd # k
    BY ChildTypes DEF RestartOvertaken, ProcInv, Bookkeeping
  <1>2. child[k].gen # gen
    BY DEF RestartOvertaken, ProcInv, StatusHonest
  <1> QED
    BY <1>1, <1>2, WaiterGoneInv DEF RestartOvertaken, managed

LEMMA AutoRestartFailsInv ==
    ASSUME ProcInv, NEW k \in Children, AutoRestartFails(k)
    PROVE  ProcInv'
  <1>1. restarts' \in 0..MaxRestarts
    BY DEF AutoRestartFails, ProcInv, ProcTypeOK
  <1> QED
    BY <1>1, UnsupervisedInv DEF AutoRestartFails, Free

LEMMA AutoRestartInv ==
    ASSUME ProcInv, NEW k \in Children, AutoRestart(k)
    PROVE  ProcInv'
  <1> DEFINE n == Len(child) + 1
             y == [child[k] EXCEPT !.waiter = "gone"]
             s == [child EXCEPT ![k] = y]
             x == [gen |-> gen + 1, proc |-> "live", waiter |-> "wait",
                   stable |-> FALSE, origin |-> child[k].origin]
  <1>0. ProcTypeOK /\ child[k] \in Child /\ Len(child) \in Nat /\ gen \in Nat
          /\ child \in Seq(Child) /\ Children = 1..Len(child)
    BY ChildTypes DEF ProcInv, ProcTypeOK
  <1>1. x \in Child /\ x.gen = gen + 1 /\ x.waiter = "wait"
    BY <1>0 DEF Child
  <1>2. y \in Child /\ y.gen = child[k].gen /\ y.proc = child[k].proc
          /\ y.waiter = "gone"
    BY <1>0 DEF Child
  <1>3. /\ child' = Append(s, x) /\ mu = Nobody /\ cmd = 0
        /\ child[k].waiter = "delay" /\ child[k].gen = gen
        /\ cmd' = n /\ gen' = gen + 1 /\ state' = "running"
        /\ UNCHANGED <<mu, restarts, caller>>
    BY DEF AutoRestart, Free
  <1> HIDE DEF x, y
  <1>4. /\ s \in Seq(Child) /\ Len(s) = Len(child) /\ s[k] = y
        /\ \A j \in Children : j # k => s[j] = child[j]
    BY <1>0, <1>2, UpdateFacts DEF Children
  <1> HIDE DEF s
  <1>5. /\ child' \in Seq(Child) /\ Len(child') = n /\ Children' = 1..n
        /\ \A j \in Children : child'[j] = s[j]
        /\ child'[n] = x
    BY <1>0, <1>1, <1>3, <1>4, AppendFacts DEF Children
  <1>6. \A j \in Children : /\ child'[j].gen = child[j].gen
                            /\ child[j].gen \in Nat /\ child[j].gen <= gen
                            /\ child'[j].proc = child[j].proc
                            /\ child[j].proc # "live"
    <2>1. \A j \in Children : child[j].proc # "live"
      BY <1>0, <1>3, ProcAssumption
         DEF ProcInv, Bookkeeping, NoOrphan, BeingStopped, Holding
    <2>2. \A j \in Children : child[j].gen \in Nat /\ child[j].gen <= gen
      BY <1>0, ChildTypes DEF ProcInv, Bookkeeping, Child
    <2> QED
      BY <1>2, <1>4, <1>5, <2>1, <2>2
  <1>7. ProcTypeOK'
    BY <1>0, <1>3, <1>5 DEF ProcTypeOK, ProcessStates
  <1>8. Bookkeeping'
    <2>1. \A k1 \in Children' :
            /\ child'[k1].gen <= gen'
            /\ child'[k1].proc = "live" => child'[k1].waiter = "wait"
            /\ \A j \in Children' : child'[j].gen = child'[k1].gen => j = k1
      <3>1. \A j \in Children' : j \in Children \/ j = n
        BY <1>0, <1>5
      <3>2. \A j \in Children : child'[j].gen # child'[n].gen
        BY <1>0, <1>1, <1>5, <1>6
      <3>3. \A j, i \in Children : child'[j].gen = child'[i].gen => j = i
        BY <1>6 DEF ProcInv, Bookkeeping
      <3>4. \A j \in Children' :
              /\ child'[j].gen <= gen'
              /\ child'[j].proc = "live" => child'[j].waiter = "wait"
        BY <1>0, <1>1, <1>3, <1>5, <1>6, <3>1
      <3> QED
        BY <3>1, <3>2, <3>3, <3>4
    <2>2. \A d \in Callers :
            /\ caller'[d].pc \in {"stopping", "killing"} =>
                 caller'[d].target \in Children'
            /\ caller'[d].pc = "grace" =>
                 /\ caller'[d].child \in Children'
                 /\ child'[caller'[d].child].gen = caller'[d].gen
      BY <1>0, <1>3, <1>5, <1>6 DEF ProcInv, Bookkeeping
    <2> QED
      BY <1>0, <1>1, <1>3, <1>5, <2>1, <2>2 DEF ProcInv, Bookkeeping
  <1>9. NoOrphan'
    BY <1>0, <1>3, <1>5, <1>6 DEF NoOrphan
  <1>10. StatusHonest'
    BY <1>0, <1>1, <1>3, <1>5, <1>6 DEF StatusHonest
  <1> QED
    BY <1>7, <1>8, <1>9, <1>10 DEF ProcInv

LEMMA StepInv == ProcInv /\ [Next]_vars => ProcInv'
  <1> SUFFICES ASSUME ProcInv, [Next]_vars PROVE ProcInv'
    OBVIOUS
  <1>1. CASE UNCHANGED vars
    BY <1>1 DEF vars, ProcInv, ProcTypeOK, Bookkeeping, NoOrphan,
         BeingStopped, StatusHonest, Children
  <1>2. ASSUME NEW c \in Callers, NEW op \in {"restart", "stop"}, Call(c, op)
        PROVE  ProcInv'
    BY <1>2, CallInv
  <1>3. ASSUME NEW c \in Callers, CallStep(c) PROVE ProcInv'
    BY <1>3, StopWaitInv, KillWaitInv, EndInv, RestartStartsInv DEF CallStep
  <1>4. ASSUME NEW k \in Children, Exit(k) \/ WaiterStep(k) PROVE ProcInv'
    BY <1>4, ExitInv, ReapInv, RecordExitInv, OvertakenInv, AutoRestartInv,
       AutoRestartFailsInv DEF WaiterStep
  <1> QED
    BY <1>1, <1>2, <1>3, <1>4 DEF Next

\* The process manager's inductive invariant holds in every behaviour.
THEOREM ProcInvariant == Spec => []ProcInv
  BY InitInv, StepInv, PTL DEF Spec

\* The manager keeps its types (process.go, procManager).
THEOREM ProcTypeCorrect == Spec => []ProcTypeOK
  BY ProcInvariant, PTL DEF ProcInv

\* A process that was not killed is supervised or being stopped, so at most
\* one engine process runs (process.go, startLocked and stopLocked).
THEOREM NoOrphanProcess == Spec => []NoOrphan
  BY ProcInvariant, PTL DEF ProcInv

\* Status says "running" and "restarting" exactly when that is so
\* (process.go, Status).
THEOREM StatusIsHonest == Spec => []StatusHonest
  BY ProcInvariant, PTL DEF ProcInv

\* A stopped engine starts through a planned restart only (process.go,
\* stopLocked cancels delayed restarts).
THEOREM StopFinal == Spec => StopIsFinal
  <1>1. ProcInv /\ [Next]_vars =>
          [state = "stopped" /\ state' # "stopped" =>
             \E c \in Callers : mu = c /\ caller[c].op = "restart"]_vars
    <2> SUFFICES ASSUME ProcInv, Next, state = "stopped", state' # "stopped"
                 PROVE  \E c \in Callers : mu = c /\ caller[c].op = "restart"
      BY DEF vars
    <2>1. cmd = 0 /\ \A k \in Children : child[k].waiter = "delay" =>
                                           child[k].gen # gen
      BY DEF ProcInv, StatusHonest
    <2>2. ASSUME NEW k \in Children, Exit(k) \/ WaiterStep(k) PROVE FALSE
      BY <2>1, <2>2, ChildTypes
         DEF WaiterStep, Exit, Reap, RecordExit, RestartOvertaken, AutoRestart,
             AutoRestartFails, managed, ProcInv
    <2>3. PICK c \in Callers : RestartStarts(c)
      BY <2>2 DEF Next, Call, CallStep, StopWait, KillWait, StopReturns,
                  RestartFails, RestartReturns, managed
    <2> QED
      BY <2>3 DEF RestartStarts, ProcInv, Bookkeeping, Holding
  <1> QED
    BY <1>1, ProcInvariant, PTL DEF Spec, StopIsFinal

\* A restart that reports success supervises the child it started itself
\* (process.go, restart after the grace time).
THEOREM SuccessMeansOwnChild == Spec => SuccessIsOwnChild
  <1>1. ProcInv /\ [Next]_vars =>
          [\A c \in Callers : ~caller[c].ok /\ caller'[c].ok =>
             cmd = caller[c].child]_vars
    <2> SUFFICES ASSUME ProcInv, Next, NEW c \in Callers,
                        ~caller[c].ok, caller'[c].ok
                 PROVE  cmd = caller[c].child
      BY DEF vars
    <2>1. PICK d \in Callers : \/ \E op \in {"restart", "stop"} : Call(d, op)
                               \/ CallStep(d)
      BY DEF Next, Exit, WaiterStep, Reap, RecordExit, RestartOvertaken,
             AutoRestart, AutoRestartFails
    <2>2. caller \in [Callers -> Caller] /\ caller[d] \in Caller
      BY DEF ProcInv, ProcTypeOK
    <2>3. ASSUME NEW r \in Caller, caller' = [caller EXCEPT ![d] = r],
                 r.ok => caller[d].ok
          PROVE  FALSE
      BY <2>2, <2>3
    <2>4. ~(\E op \in {"restart", "stop"} : Call(d, op))
      <3> SUFFICES ASSUME NEW op \in {"restart", "stop"}, Call(d, op)
                   PROVE  FALSE
        OBVIOUS
      <3> DEFINE r == [caller[d] EXCEPT !.pc = IF cmd = 0 THEN "start"
                                                          ELSE "stopping",
                                        !.op = op, !.target = cmd]
      <3>1. cmd \in Nat
        BY ChildTypes DEF ProcInv, ProcTypeOK
      <3>2. r \in Caller /\ r.ok = caller[d].ok
        BY <2>2, <3>1 DEF Caller
      <3>3. caller' = [caller EXCEPT ![d] = r]
        BY DEF Call
      <3> HIDE DEF r
      <3> QED
        BY <2>3, <3>2, <3>3
    <2>5. ~(StopWait(d) \/ KillWait(d) \/ StopReturns(d))
      <3> SUFFICES ASSUME NEW pc \in {"idle", "killing", "start"}, Goto(d, pc)
                   PROVE  FALSE
        BY DEF StopWait, KillWait, StopReturns
      <3> DEFINE r == [caller[d] EXCEPT !.pc = pc]
      <3>1. r \in Caller /\ r.ok = caller[d].ok
        BY <2>2 DEF Caller
      <3>2. caller' = [caller EXCEPT ![d] = r]
        BY DEF Goto
      <3> HIDE DEF r
      <3> QED
        BY <2>3, <3>1, <3>2
    <2>6. ~RestartStarts(d)
      <3> SUFFICES ASSUME RestartStarts(d) PROVE FALSE
        OBVIOUS
      <3> DEFINE r == Sleeping(caller[d], gen + 1, Len(child) + 1)
      <3>1. caller' = [caller EXCEPT ![d] = r]
        BY DEF RestartStarts
      <3>2. ~caller'[d].ok
        BY <2>2, <3>1 DEF Sleeping, Caller
      <3> HIDE DEF r
      <3> QED
        BY <2>2, <3>1, <3>2
    <2>7. ~RestartFails(d)
      BY <2>2 DEF RestartFails, Caller
    <2>8. RestartReturns(d)
      BY <2>1, <2>4, <2>5, <2>6, <2>7 DEF CallStep
    <2>9. c = d /\ caller[c].gen = gen /\ cmd # 0
      <3> DEFINE b == caller[d].gen = gen /\ cmd # 0
                 r == [caller[d] EXCEPT !.pc = "idle", !.ok = b]
      <3>1. b \in BOOLEAN
        OBVIOUS
      <3>2. caller' = [caller EXCEPT ![d] = r]
        BY <2>8 DEF RestartReturns
      <3> HIDE DEF b
      <3>3. caller'[d].ok = b
        BY <2>2, <3>1, <3>2 DEF Caller
      <3>4. c = d
        BY <2>2, <3>2
      <3> USE DEF b
      <3> QED
        BY <3>3, <3>4
    <2> QED
      BY <2>8, <2>9 DEF RestartReturns, ProcInv, Bookkeeping, ProcTypeOK, Children
  <1> QED
    BY <1>1, ProcInvariant, PTL DEF Spec, SuccessIsOwnChild
============================================================================
