------------------------ MODULE DeployLifecycleProofs ------------------------
(***************************************************************************)
(* The inductive invariant of DeployLifecycle and the theorems it gives,   *)
(* for any number of deploys, deployers and workers, any number of         *)
(* crashes, and with DELETE /deploys/{id} allowed or not. Clients are      *)
(* assumed to keep to the comment of PUT /deploys/{id} and to send no      *)
(* state (PutStates = {}): without that every theorem below is false.      *)
(***************************************************************************)
EXTENDS DeployLifecycle, TLAPS

Holds(w)    == worker[w].pc \in {"read", "decide", "retire", "write"}
Captured(w) == worker[w].pc \in {"decide", "retire", "write"}

\* A worker inside the critical section holds the lock of its deploy, and
\* never was there a deploy to work on before its row was inserted.
Locking ==
  \A w \in Workers : worker[w].pc # "idle" =>
    /\ worker[w].deploy \in Deploys
    /\ worker[w].env \in {NoDeploy, worker[w].deploy}
    /\ state[worker[w].deploy] # "NONE"
    /\ Holds(w) => lock[worker[w].deploy] = w

\* A deploy judged obsolete does not become current again.
Obsolete ==
  \A w \in Workers : worker[w].pc = "retire" => worker[w].deploy # envDeploy

\* What a worker read under the lock: suc_date cannot have changed since, and
\* the state can only have become final.
Snapshots ==
  \A w \in Workers :
    /\ Captured(w) =>
         /\ worker[w].state \in ActiveStates
         /\ worker[w].suc = sucDate[worker[w].deploy]
         /\ state[worker[w].deploy] \in {worker[w].state, "GONE"} \cup FinalStates
         /\ worker[w].state = "SUCCEEDING" => worker[w].suc
    /\ worker[w].pc = "write" => worker[w].next \in ActiveStates

\* What a deployer read of the old deploy, without a lock.
Remembered ==
  \A p \in Deployers : deployer[p].pc # "idle" /\ deployer[p].old # NoDeploy =>
    /\ state[deployer[p].old] # "NONE"
    /\ deployer[p].pc = "commit" =>
         /\ deployer[p].state \in DeployState
         /\ deployer[p].state \in {"SUCCEEDING", "SUCCEEDED"} => sucDate[deployer[p].old]

\* An environment points at a deploy that was inserted.
Inserted == envDeploy # NoDeploy => state[envDeploy] # "NONE"

\* The hooks are out and the write that records it is still to come.
Pending(d) ==
  \E w \in Workers : worker[w].pc = "write" /\ worker[w].deploy = d /\ worker[w].next = "SUCCEEDING"

\* Some worker may still decide to submit the hooks of d.
InPlay(d) ==
  \/ state[d] \in ActiveStates \cup {"NONE"}
  \/ \E w \in Workers : worker[w].pc = "decide" /\ worker[w].deploy = d

\* As long as hooks may be submitted, each submission so far ended in a crash.
Budget ==
  \A d \in Deploys :
    /\ hooks[d] <= 1 + crashes
    /\ InPlay(d) /\ ~sucDate[d] /\ ~Pending(d) => hooks[d] <= crashes

\* The inductive invariant: it contains CurrentIsActive, SucceededHasDate and
\* HooksBounded, and what their preservation rests on.
IInv ==
  /\ TypeOK
  /\ Locking
  /\ Obsolete
  /\ Snapshots
  /\ Remembered
  /\ Inserted
  /\ CurrentIsActive
  /\ SucceededHasDate
  /\ Budget

-----------------------------------------------------------------------------
LEMMA TypeInit == ASSUME Init PROVE TypeOK
BY LifecycleAssumption DEF Init, TypeOK, DeployId, DeployState, ActiveStates, FinalStates,
   AcceptanceStatus, IdleDeployer, IdleWorker, DeployerRecord, WorkerRecord

\* What transition() proposes is an active state.
LEMMA ProposedIsActive ==
  ASSUME NEW s, NEW enough \in BOOLEAN, NEW tooMany \in BOOLEAN, NEW stalled \in BOOLEAN
  PROVE  ProposedState(s, enough, tooMany, stalled) \in ActiveStates
BY DEF ProposedState, ActiveStates

LEMMA IdleRecords == IdleDeployer \in DeployerRecord /\ IdleWorker \in WorkerRecord
BY DEF IdleDeployer, IdleWorker, DeployerRecord, WorkerRecord, DeployId, AcceptanceStatus

LEMMA TypeStep == ASSUME TypeOK, Locking, [Next]_vars PROVE TypeOK'
<1> USE LifecycleAssumption, IdleRecords DEF TypeOK
<1>1. ASSUME NEW p \in Deployers, ReadEnv(p) PROVE TypeOK'
  <2>1. deployer[p] \in DeployerRecord
    OBVIOUS
  <2>2. deployer'[p] \in DeployerRecord
    BY <1>1, <2>1 DEF ReadEnv, DeployerRecord
  <2> QED
    BY <1>1, <2>2 DEF ReadEnv
<1>2. ASSUME NEW p \in Deployers, ReadOld(p) PROVE TypeOK'
  <2>1. deployer[p] \in DeployerRecord
    OBVIOUS
  <2>2. CASE Exists(deployer[p].old)
    <3>1. deployer' = [deployer EXCEPT ![p] = [deployer[p] EXCEPT !.pc = "commit",
                         !.state = state[deployer[p].old], !.acc = acc[deployer[p].old]]]
      BY <1>2, <2>2 DEF ReadOld
    <3>2. state[deployer[p].old] \in DeployState /\ acc[deployer[p].old] \in AcceptanceStatus
      BY <2>2 DEF Exists
    <3>3. deployer'[p] \in DeployerRecord
      BY <2>1, <3>1, <3>2 DEF DeployerRecord
    <3> QED
      BY <1>2, <3>1, <3>3 DEF ReadOld
  <2>3. CASE ~Exists(deployer[p].old)
    BY <1>2, <2>3 DEF ReadOld
  <2> QED
    BY <2>2, <2>3
<1>3. ASSUME NEW p \in Deployers, NEW d \in Deploys, Commit(p, d) PROVE TypeOK'
  BY <1>3 DEF Commit, DeployId, FinalState, FinalAcceptance, AcceptanceStatus, DeployState,
              ActiveStates, FinalStates
<1>4. ASSUME NEW w \in Workers, PickCurrent(w) PROVE TypeOK'
  BY <1>4 DEF PickCurrent, IdleWorker, WorkerRecord
<1>5. ASSUME NEW w \in Workers, RefreshProgress(w) PROVE TypeOK'
  BY <1>5 DEF RefreshProgress, IdleWorker, WorkerRecord
<1>6. ASSUME NEW w \in Workers, Acquire(w) PROVE TypeOK'
  <2>1. worker[w] \in WorkerRecord
    OBVIOUS
  <2>2. worker'[w] \in WorkerRecord
    BY <1>6, <2>1 DEF Acquire, WorkerRecord
  <2> QED
    BY <1>6, <2>2 DEF Acquire
<1>7. ASSUME NEW w \in Workers, ReadDeploy(w) PROVE TypeOK'
  <2>1. worker[w] \in WorkerRecord /\ worker[w].deploy \in Deploys
    BY <1>7 DEF ReadDeploy, Locking
  <2>2. CASE state[worker[w].deploy] \in ActiveStates
    <3>1. worker' = [worker EXCEPT ![w] = [worker[w] EXCEPT !.pc = "decide",
                       !.state = state[worker[w].deploy], !.suc = sucDate[worker[w].deploy]]]
      BY <1>7, <2>2 DEF ReadDeploy
    <3>2. worker'[w] \in WorkerRecord
      BY <2>1, <2>2, <3>1 DEF WorkerRecord, DeployState
    <3> QED
      BY <1>7, <2>2, <3>1, <3>2 DEF ReadDeploy
  <2>3. CASE state[worker[w].deploy] \notin ActiveStates
    BY <1>7, <2>3 DEF ReadDeploy, Leave
  <2> QED
    BY <2>2, <2>3
<1>8. ASSUME NEW w \in Workers, Decide(w) PROVE TypeOK'
  <2>1. worker[w] \in WorkerRecord /\ worker[w].deploy \in Deploys
    BY <1>8 DEF Decide, Locking
  <2>2. hooks' \in [Deploys -> Nat]
    <3> DEFINE submit == worker'[w].next = "SUCCEEDING" /\ ~worker[w].suc
    <3>1. \/ hooks' = hooks
          \/ hooks' = [hooks EXCEPT ![worker[w].deploy] = IF submit THEN @ + 1 ELSE @]
      BY <1>8 DEF Decide
    <3> HIDE DEF submit
    <3> QED
      BY <2>1, <3>1
  <2>3. CASE worker' = [worker EXCEPT ![w] = [worker[w] EXCEPT !.pc = "retire"]]
    <3>1. worker'[w] \in WorkerRecord
      BY <2>1, <2>3 DEF WorkerRecord
    <3> QED
      BY <1>8, <2>2, <2>3, <3>1 DEF Decide
  <2>4. ASSUME NEW enough \in BOOLEAN, NEW tooMany \in BOOLEAN, NEW stalled \in BOOLEAN,
               worker' = [worker EXCEPT ![w] = [worker[w] EXCEPT !.pc = "write",
                 !.next = ProposedState(worker[w].state, enough, tooMany, stalled)]]
        PROVE  TypeOK'
    <3>1. ProposedState(worker[w].state, enough, tooMany, stalled) \in ActiveStates
      BY ProposedIsActive
    <3>2. worker'[w] \in WorkerRecord
      BY <2>1, <2>4, <3>1 DEF WorkerRecord
    <3>3. worker' \in [Workers -> WorkerRecord]
      BY <2>4, <3>2
    <3> QED
      BY <1>8, <2>2, <3>3 DEF Decide
  <2> QED
    BY <1>8, <2>3, <2>4 DEF Decide
<1>9. ASSUME NEW w \in Workers, Retire(w) PROVE TypeOK'
  BY <1>9 DEF Retire, Leave, FinalState, DeployState, FinalStates
<1>10. ASSUME NEW w \in Workers, Write(w) PROVE TypeOK'
  <2>1. worker[w] \in WorkerRecord /\ worker[w].deploy \in Deploys
    BY <1>10 DEF Write, Locking
  <2>2. worker[w].next \in DeployState \cup {"NONE", "GONE"} /\ worker[w].suc \in BOOLEAN
    BY <2>1 DEF WorkerRecord, DeployState
  <2>3. state' \in [Deploys -> DeployState \cup {"NONE", "GONE"}]
    BY <1>10, <2>2 DEF Write
  <2>4. sucDate' \in [Deploys -> BOOLEAN]
    BY <1>10, <2>1, <2>2 DEF Write
  <2>5. acc' \in [Deploys -> AcceptanceStatus]
    BY <1>10, <2>1 DEF Write, AcceptanceStatus
  <2> QED
    BY <1>10, <2>3, <2>4, <2>5 DEF Write, Leave
<1>11. ASSUME NEW w \in Workers, Crash(w) PROVE TypeOK'
  BY <1>11 DEF Crash
<1>12. ASSUME PauseOrResume PROVE TypeOK'
  BY <1>12 DEF PauseOrResume
<1>13. ASSUME NEW d \in Deploys, UserStep(d) PROVE TypeOK'
  BY <1>13 DEF UserStep, Put, JanitorDelete, RestDelete
<1>14. CASE UNCHANGED vars
  BY <1>14 DEF vars
<1> QED
  BY <1>1, <1>2, <1>3, <1>4, <1>5, <1>6, <1>7, <1>8, <1>9, <1>10, <1>11, <1>12, <1>13, <1>14
  DEF Next, DeployerStep, WorkerStep

\* A row that was inserted stays known, and suc_date is never cleared.
LEMMA RowsStep ==
  ASSUME TypeOK, Locking, Snapshots, [Next]_vars, NEW e \in Deploys
  PROVE  /\ state[e] # "NONE" => state'[e] # "NONE"
         /\ sucDate[e] => sucDate'[e]
<1> USE LifecycleAssumption DEF TypeOK
<1>1. ASSUME NEW p \in Deployers, DeployerStep(p)
      PROVE  /\ state[e] # "NONE" => state'[e] # "NONE"
             /\ sucDate' = sucDate
  BY <1>1 DEF DeployerStep, ReadEnv, ReadOld, Commit, FinalState
<1>2. ASSUME NEW w \in Workers, PickCurrent(w) \/ RefreshProgress(w) \/ Crash(w)
      PROVE  state' = state /\ sucDate' = sucDate
  BY <1>2 DEF PickCurrent, RefreshProgress, Crash
<1>3. ASSUME NEW w \in Workers, Acquire(w) \/ ReadDeploy(w) \/ Decide(w)
      PROVE  state' = state /\ sucDate' = sucDate
  BY <1>3 DEF Acquire, ReadDeploy, Decide
<1>4. ASSUME NEW w \in Workers, Retire(w)
      PROVE  /\ state[e] # "NONE" => state'[e] # "NONE"
             /\ sucDate' = sucDate
  BY <1>4 DEF Retire, FinalState
<1>5. ASSUME NEW w \in Workers, Write(w)
      PROVE  /\ state[e] # "NONE" => state'[e] # "NONE"
             /\ sucDate[e] => sucDate'[e]
  <2>1. worker[w].next \in ActiveStates
    BY <1>5 DEF Write, Snapshots
  <2> QED
    BY <1>5, <2>1 DEF Write, ActiveStates
<1>6. ASSUME NEW d \in Deploys, UserStep(d)
      PROVE  /\ state[e] # "NONE" => state'[e] # "NONE"
             /\ sucDate' = sucDate
  BY <1>6 DEF UserStep, Put, JanitorDelete, RestDelete, DeployState, ActiveStates, FinalStates
<1>7. CASE PauseOrResume \/ UNCHANGED vars
  BY <1>7 DEF PauseOrResume, vars
<1> QED
  BY <1>1, <1>2, <1>3, <1>4, <1>5, <1>6, <1>7 DEF Next, WorkerStep

\* What the steps of a worker do to the fields of its record.
LEMMA PickEffect ==
  ASSUME TypeOK, NEW w \in Workers, PickCurrent(w) \/ RefreshProgress(w)
  PROVE  /\ worker' = [worker EXCEPT ![w] = worker'[w]]
         /\ worker'[w].pc = "lock"
         /\ worker'[w].deploy = envDeploy /\ envDeploy # NoDeploy
         /\ worker'[w].env \in {NoDeploy, envDeploy}
<1> USE DEF TypeOK
<1>1. CASE PickCurrent(w)
  BY <1>1 DEF PickCurrent, IdleWorker
<1>2. CASE RefreshProgress(w)
  BY <1>2 DEF RefreshProgress, IdleWorker
<1> QED
  BY <1>1, <1>2

LEMMA ReadEffect ==
  ASSUME TypeOK, NEW w \in Workers, ReadDeploy(w), state[worker[w].deploy] \in ActiveStates
  PROVE  /\ worker' = [worker EXCEPT ![w] = worker'[w]]
         /\ worker'[w].pc = "decide"
         /\ worker'[w].deploy = worker[w].deploy
         /\ worker'[w].env = worker[w].env
         /\ worker'[w].state = state[worker[w].deploy]
         /\ worker'[w].suc = sucDate[worker[w].deploy]
<1>1. worker \in [Workers -> WorkerRecord] /\ worker[w] \in WorkerRecord
  BY DEF TypeOK
<1>2. worker' = [worker EXCEPT ![w] = [worker[w] EXCEPT !.pc = "decide",
                   !.state = state[worker[w].deploy], !.suc = sucDate[worker[w].deploy]]]
  BY DEF ReadDeploy
<1>3. worker'[w] = [worker[w] EXCEPT !.pc = "decide", !.state = state[worker[w].deploy],
                                     !.suc = sucDate[worker[w].deploy]]
  BY <1>1, <1>2
<1>4. worker' = [worker EXCEPT ![w] = worker'[w]]
  BY <1>2, <1>3
<1> QED
  BY <1>1, <1>3, <1>4 DEF WorkerRecord

LEMMA DecideEffect ==
  ASSUME TypeOK, NEW w \in Workers, Decide(w), worker[w].deploy \in Deploys
  PROVE  /\ worker' = [worker EXCEPT ![w] = worker'[w]]
         /\ worker'[w].deploy = worker[w].deploy
         /\ worker'[w].env = worker[w].env
         /\ worker'[w].state = worker[w].state
         /\ worker'[w].suc = worker[w].suc
         /\ \/ /\ worker'[w].pc = "retire"
               /\ (IF worker[w].env = NoDeploy THEN envDeploy ELSE worker[w].env) # worker[w].deploy
               /\ hooks' = hooks
            \/ /\ worker'[w].pc = "write"
               /\ worker'[w].next \in ActiveStates
               /\ \/ hooks' = hooks
                  \/ /\ hooks' = [hooks EXCEPT ![worker[w].deploy] = @ + 1]
                     /\ worker'[w].next = "SUCCEEDING"
                     /\ ~worker[w].suc
<1>1. worker \in [Workers -> WorkerRecord] /\ worker[w] \in WorkerRecord
  BY DEF TypeOK
<1>2. CASE /\ worker' = [worker EXCEPT ![w] = [worker[w] EXCEPT !.pc = "retire"]]
           /\ (IF worker[w].env = NoDeploy THEN envDeploy ELSE worker[w].env) # worker[w].deploy
           /\ hooks' = hooks
  <2>1. worker'[w] = [worker[w] EXCEPT !.pc = "retire"]
    BY <1>1, <1>2
  <2>2. worker' = [worker EXCEPT ![w] = worker'[w]]
    BY <1>2, <2>1
  <2> QED
    BY <1>1, <1>2, <2>1, <2>2 DEF WorkerRecord
<1>3. ASSUME NEW s \in ActiveStates,
             worker' = [worker EXCEPT ![w] = [worker[w] EXCEPT !.pc = "write", !.next = s]]
      PROVE  /\ worker' = [worker EXCEPT ![w] = worker'[w]]
             /\ worker'[w].deploy = worker[w].deploy
             /\ worker'[w].env = worker[w].env
             /\ worker'[w].state = worker[w].state
             /\ worker'[w].suc = worker[w].suc
             /\ worker'[w].pc = "write"
             /\ worker'[w].next \in ActiveStates
  <2>1. worker'[w] = [worker[w] EXCEPT !.pc = "write", !.next = s]
    BY <1>1, <1>3
  <2>2. worker' = [worker EXCEPT ![w] = worker'[w]]
    BY <1>3, <2>1
  <2> QED
    BY <1>1, <2>1, <2>2 DEF WorkerRecord
<1>4. \/ hooks' = hooks
      \/ /\ hooks' = [hooks EXCEPT ![worker[w].deploy] = @ + 1]
         /\ worker'[w].next = "SUCCEEDING"
         /\ ~worker[w].suc
  <2> DEFINE submit == worker'[w].next = "SUCCEEDING" /\ ~worker[w].suc
  <2>1. \/ hooks' = hooks
        \/ hooks' = [hooks EXCEPT ![worker[w].deploy] = IF submit THEN @ + 1 ELSE @]
    BY DEF Decide
  <2>2. hooks \in [Deploys -> Nat]
    BY DEF TypeOK
  <2>3. CASE submit
    BY <2>1, <2>3
  <2>4. CASE ~submit
    <3> HIDE DEF submit
    <3> QED
      BY <2>1, <2>2, <2>4
  <2> QED
    BY <2>3, <2>4
<1> QED
  <2>1. \/ /\ worker' = [worker EXCEPT ![w] = [worker[w] EXCEPT !.pc = "retire"]]
           /\ (IF worker[w].env = NoDeploy THEN envDeploy ELSE worker[w].env) # worker[w].deploy
           /\ hooks' = hooks
        \/ \E s \in ActiveStates :
             worker' = [worker EXCEPT ![w] = [worker[w] EXCEPT !.pc = "write", !.next = s]]
    BY ProposedIsActive DEF Decide
  <2> QED
    BY <1>2, <1>3, <1>4, <2>1

\* A worker that leaves gives back its own lock and no other's.
LEMMA LeaveKeepsLocks ==
  ASSUME TypeOK, Locking, NEW w \in Workers, Holds(w), Leave(w), NEW v \in Workers
  PROVE  IF v = w THEN worker'[v] = IdleWorker
         ELSE /\ worker'[v] = worker[v]
              /\ Holds(v) => lock'[worker[v].deploy] = v
BY LifecycleAssumption DEF TypeOK, Locking, Leave, Holds

LEMMA LockingStep ==
  ASSUME TypeOK, Locking, Snapshots, Inserted, [Next]_vars PROVE Locking'
<1> USE LifecycleAssumption DEF TypeOK
<1> DEFINE Good(v) == worker[v].pc # "idle" =>
             /\ worker[v].deploy \in Deploys
             /\ worker[v].env \in {NoDeploy, worker[v].deploy}
             /\ state[worker[v].deploy] # "NONE"
             /\ Holds(v) => lock[worker[v].deploy] = v
<1> SUFFICES ASSUME NEW v \in Workers PROVE Good(v)'
  BY DEF Locking
<1>1. Good(v)
  BY DEF Locking
<1>2. ASSUME worker'[v] = worker[v],
             Holds(v) => lock'[worker[v].deploy] = lock[worker[v].deploy]
      PROVE  Good(v)'
  BY <1>1, <1>2, RowsStep DEF Holds
<1>3. ASSUME worker'[v] = IdleWorker PROVE Good(v)'
  BY <1>3 DEF IdleWorker, Holds
<1>4. ASSUME NEW w \in Workers, PickCurrent(w) \/ RefreshProgress(w) PROVE Good(v)'
  <2>1. /\ UNCHANGED <<lock, state>>
        /\ envDeploy \in Deploys /\ state[envDeploy] # "NONE"
    BY <1>4, PickEffect DEF PickCurrent, RefreshProgress, DeployId, Inserted
  <2>2. CASE v = w
    BY <1>4, <2>1, <2>2, PickEffect DEF Holds
  <2>3. CASE v # w
    BY <1>2, <1>4, <2>1, <2>3, PickEffect
  <2> QED
    BY <2>2, <2>3
<1>5. ASSUME NEW w \in Workers, Acquire(w) PROVE Good(v)'
  <2>1. CASE lock[worker[w].deploy] # Free
    BY <1>1, <1>2, <1>3, <1>5, <2>1 DEF Acquire
  <2>2. CASE lock[worker[w].deploy] = Free /\ v # w
    BY <1>1, <1>2, <1>5, <2>2 DEF Acquire, Holds
  <2>3. CASE lock[worker[w].deploy] = Free /\ v = w
    BY <1>1, <1>5, <2>3 DEF Acquire, Holds, WorkerRecord
  <2> QED
    BY <2>1, <2>2, <2>3
<1>6. ASSUME NEW w \in Workers, ReadDeploy(w) PROVE Good(v)'
  <2>1. CASE state[worker[w].deploy] \notin ActiveStates
    BY <1>1, <1>2, <1>3, <1>6, <2>1, LeaveKeepsLocks DEF ReadDeploy, Holds, Locking
  <2>2. CASE state[worker[w].deploy] \in ActiveStates /\ v # w
    BY <1>2, <1>6, <2>2 DEF ReadDeploy
  <2>3. CASE state[worker[w].deploy] \in ActiveStates /\ v = w
    <3>1. lock' = lock /\ state' = state
      BY <1>6, <2>3 DEF ReadDeploy
    <3> QED
      BY <1>1, <1>6, <2>3, <3>1, ReadEffect DEF ReadDeploy, Holds
  <2> QED
    BY <2>1, <2>2, <2>3
<1>7. ASSUME NEW w \in Workers, Decide(w) PROVE Good(v)'
  <2>1. /\ lock' = lock /\ state' = state
        /\ worker[w].pc = "decide" /\ worker[w].deploy \in Deploys
    BY <1>7 DEF Decide, Locking
  <2>2. CASE v # w
    BY <1>2, <1>7, <2>1, <2>2, DecideEffect
  <2>3. CASE v = w
    <3>1. worker'[w].deploy = worker[w].deploy /\ worker'[w].env = worker[w].env
      BY <1>7, <2>1, DecideEffect
    <3> QED
      BY <1>1, <2>1, <2>3, <3>1 DEF Holds
  <2> QED
    BY <2>2, <2>3
<1>8. ASSUME NEW w \in Workers, Retire(w) \/ Write(w) PROVE Good(v)'
  <2>1. Holds(w) /\ Leave(w)
    BY <1>8 DEF Retire, Write, Holds
  <2> QED
    BY <1>1, <1>2, <1>3, <2>1, LeaveKeepsLocks DEF Locking
<1>9. ASSUME NEW w \in Workers, Crash(w) PROVE Good(v)'
  BY <1>1, <1>2, <1>3, <1>9, SMTT(30) DEF Crash
<1>10. CASE worker' = worker /\ lock' = lock
  BY <1>2, <1>10
<1> QED
  <2>1. ASSUME NEW p \in Deployers, DeployerStep(p) PROVE worker' = worker /\ lock' = lock
    BY <2>1 DEF DeployerStep, ReadEnv, ReadOld, Commit
  <2>2. ASSUME NEW d \in Deploys, UserStep(d) PROVE worker' = worker /\ lock' = lock
    BY <2>2 DEF UserStep, Put, JanitorDelete, RestDelete
  <2>3. ASSUME PauseOrResume \/ UNCHANGED vars PROVE worker' = worker /\ lock' = lock
    BY <2>3 DEF PauseOrResume, vars
  <2> QED
    BY <1>4, <1>5, <1>6, <1>7, <1>8, <1>9, <1>10, <2>1, <2>2, <2>3 DEF Next, WorkerStep

LEMMA InsertedStep ==
  ASSUME TypeOK, Locking, Snapshots, Inserted, [Next]_vars PROVE Inserted'
<1>1. ASSUME NEW p \in Deployers, NEW d \in Deploys, Commit(p, d) PROVE Inserted'
  BY <1>1 DEF Commit, Inserted, TypeOK
<1>2. CASE envDeploy' = envDeploy
  BY <1>2, RowsStep DEF Inserted, TypeOK, DeployId
<1> QED
  BY <1>1, <1>2 DEF Next, vars, DeployerStep, WorkerStep, UserStep, ReadEnv, ReadOld, PickCurrent,
     RefreshProgress, Acquire, ReadDeploy, Decide, Retire, Write, Crash, PauseOrResume, Put,
     JanitorDelete, RestDelete

LEMMA ObsoleteStep == ASSUME TypeOK, Locking, Obsolete, [Next]_vars PROVE Obsolete'
<1> USE LifecycleAssumption DEF TypeOK
<1> SUFFICES ASSUME NEW v \in Workers, worker'[v].pc = "retire"
             PROVE  worker'[v].deploy # envDeploy'
  BY DEF Obsolete
<1>1. CASE worker'[v] = worker[v] /\ envDeploy' = envDeploy
  BY <1>1 DEF Obsolete
<1>2. ASSUME NEW p \in Deployers, NEW d \in Deploys, Commit(p, d)
      PROVE  worker'[v].deploy # envDeploy'
  BY <1>2 DEF Commit, Locking
<1>3. ASSUME NEW w \in Workers, Decide(w) PROVE worker'[v].deploy # envDeploy'
  <2>1. worker[w].deploy \in Deploys /\ worker[w].env \in {NoDeploy, worker[w].deploy}
        /\ envDeploy' = envDeploy
    BY <1>3 DEF Decide, Locking
  <2>2. CASE v = w
    BY <1>3, <2>1, <2>2, DecideEffect
  <2>3. CASE v # w
    BY <1>1, <1>3, <2>1, <2>3, DecideEffect
  <2> QED
    BY <2>2, <2>3
<1>4. ASSUME NEW w \in Workers, PickCurrent(w) \/ RefreshProgress(w)
      PROVE  worker'[v].deploy # envDeploy'
  BY <1>1, <1>4, PickEffect DEF PickCurrent, RefreshProgress
<1>5. ASSUME NEW w \in Workers, Acquire(w) \/ Retire(w) \/ Write(w) \/ Crash(w)
      PROVE  worker'[v].deploy # envDeploy'
  <2>1. envDeploy' = envDeploy /\ (worker'[v].pc \in {"idle", "read"} \/ worker'[v] = worker[v])
    BY <1>5 DEF Acquire, Retire, Write, Crash, Leave, IdleWorker, WorkerRecord
  <2> QED
    BY <1>1, <2>1
<1>6. ASSUME NEW w \in Workers, ReadDeploy(w) PROVE worker'[v].deploy # envDeploy'
  <2>1. CASE state[worker[w].deploy] \in ActiveStates
    BY <1>1, <1>6, <2>1, ReadEffect DEF ReadDeploy
  <2>2. CASE state[worker[w].deploy] \notin ActiveStates
    BY <1>1, <1>6, <2>2 DEF ReadDeploy, Leave, IdleWorker
  <2> QED
    BY <2>1, <2>2
<1> QED
  <2>1. ASSUME NEW p \in Deployers, ReadEnv(p) \/ ReadOld(p)
        PROVE  worker' = worker /\ envDeploy' = envDeploy
    BY <2>1 DEF ReadEnv, ReadOld
  <2>2. ASSUME NEW d \in Deploys, UserStep(d) PROVE worker' = worker /\ envDeploy' = envDeploy
    BY <2>2 DEF UserStep, Put, JanitorDelete, RestDelete
  <2>3. ASSUME PauseOrResume \/ UNCHANGED vars PROVE worker' = worker /\ envDeploy' = envDeploy
    BY <2>3 DEF PauseOrResume, vars
  <2> QED
    BY <1>1, <1>2, <1>3, <1>4, <1>5, <1>6, <2>1, <2>2, <2>3 DEF Next, DeployerStep, WorkerStep

\* What a step may do to the row of a deploy. The third case needs the lock:
\* only its holder writes an active state over the active state it read.
LEMMA StateStep ==
  ASSUME PutStates = {}, TypeOK, Locking, Snapshots, [Next]_vars, NEW e \in Deploys,
         state'[e] # state[e]
  PROVE  \/ state'[e] \in FinalStates \cup {"GONE"} /\ state[e] \in DeployState
         \/ state[e] = "NONE" /\ state'[e] = "RUNNING"
         \/ \E w \in Workers : Write(w) /\ worker[w].deploy = e /\ state[e] \in ActiveStates
<1> USE LifecycleAssumption DEF TypeOK, Exists
<1>1. ASSUME NEW p \in Deployers, NEW d \in Deploys, Commit(p, d)
      PROVE  \/ state'[e] \in FinalStates /\ state[e] \in DeployState
             \/ state[e] = "NONE" /\ state'[e] = "RUNNING"
  BY <1>1 DEF Commit, FinalState, FinalStates
<1>2. ASSUME NEW w \in Workers, Retire(w)
      PROVE  state'[e] \in FinalStates /\ state[e] \in DeployState
  BY <1>2 DEF Retire, FinalState, FinalStates
<1>3. ASSUME NEW w \in Workers, Write(w)
      PROVE  worker[w].deploy = e /\ state[e] \in ActiveStates
  BY <1>3 DEF Write, Snapshots, Captured
<1>4. ASSUME NEW d \in Deploys, UserStep(d)
      PROVE  state'[e] = "GONE" /\ state[e] \in DeployState
  BY <1>4 DEF UserStep, Put, JanitorDelete, RestDelete
<1> QED
  BY <1>1, <1>2, <1>3, <1>4 DEF Next, DeployerStep, WorkerStep, ReadEnv, ReadOld, PickCurrent,
     RefreshProgress, Acquire, ReadDeploy, Decide, Crash, PauseOrResume, vars

\* suc_date is set by the holder of the deploy's lock alone.
LEMMA SucDateStep ==
  ASSUME TypeOK, [Next]_vars, NEW e \in Deploys, sucDate'[e] # sucDate[e]
  PROVE  \E w \in Workers : Write(w) /\ worker[w].deploy = e
<1>1. ASSUME NEW w \in Workers, Write(w) PROVE worker[w].deploy = e
  BY <1>1 DEF Write, TypeOK
<1> QED
  BY <1>1 DEF Next, DeployerStep, WorkerStep, UserStep, ReadEnv, ReadOld, Commit, PickCurrent,
     RefreshProgress, Acquire, ReadDeploy, Decide, Retire, Crash, PauseOrResume, Put,
     JanitorDelete, RestDelete, vars

\* How a worker gets past its read of the row, or stays there.
LEMMA CapturedStep ==
  ASSUME TypeOK, Locking, [Next]_vars, NEW v \in Workers, Captured(v)'
  PROVE  \/ worker'[v] = worker[v] /\ ~Write(v)
         \/ ReadDeploy(v) /\ state[worker[v].deploy] \in ActiveStates
         \/ Decide(v)
<1> USE DEF TypeOK
<1>1. ASSUME NEW w \in Workers, WorkerStep(w) \/ Crash(w) \/ PickCurrent(w) \/ RefreshProgress(w),
             w # v
      PROVE  worker'[v] = worker[v]
  <2>1. CASE Decide(w)
    BY <1>1, <2>1, DecideEffect, ZenonT(40) DEF Decide, Locking
  <2>2. CASE PickCurrent(w) \/ RefreshProgress(w)
    BY <1>1, <2>2, PickEffect
  <2> QED
    BY <1>1, <2>1, <2>2 DEF WorkerStep, Acquire, ReadDeploy, Retire, Write, Crash, Leave
<1>2. ASSUME Acquire(v) \/ Retire(v) \/ Write(v) \/ Crash(v) PROVE FALSE
  BY <1>2 DEF Acquire, Retire, Write, Crash, Leave, IdleWorker, Captured, WorkerRecord
<1>3. ASSUME PickCurrent(v) \/ RefreshProgress(v) PROVE FALSE
  BY <1>3, PickEffect DEF Captured
<1>4. ASSUME ReadDeploy(v) PROVE state[worker[v].deploy] \in ActiveStates
  BY <1>4 DEF ReadDeploy, Leave, IdleWorker, Captured
<1>5. ASSUME NEW p \in Deployers, DeployerStep(p) PROVE worker' = worker
  BY <1>5 DEF DeployerStep, ReadEnv, ReadOld, Commit
<1>6. ASSUME NEW d \in Deploys, UserStep(d) PROVE worker' = worker
  BY <1>6 DEF UserStep, Put, JanitorDelete, RestDelete
<1>7. ASSUME PauseOrResume \/ UNCHANGED vars PROVE worker' = worker
  BY <1>7 DEF PauseOrResume, vars
<1> QED
  BY <1>1, <1>2, <1>3, <1>4, <1>5, <1>6, <1>7 DEF Next, WorkerStep

\* The lock is what makes these two the same worker.
LEMMA MutualExclusion ==
  ASSUME Locking, NEW v \in Workers, NEW w \in Workers, Holds(v), Holds(w),
         worker[v].deploy = worker[w].deploy
  PROVE  v = w
BY DEF Locking, Holds

LEMMA SnapshotsStep ==
  ASSUME PutStates = {}, TypeOK, Locking, Snapshots, SucceededHasDate, [Next]_vars
  PROVE  Snapshots'
<1> USE LifecycleAssumption DEF TypeOK
<1> DEFINE Row(v) == /\ worker[v].state \in ActiveStates
                     /\ worker[v].suc = sucDate[worker[v].deploy]
                     /\ state[worker[v].deploy] \in {worker[v].state, "GONE"} \cup FinalStates
                     /\ worker[v].state = "SUCCEEDING" => worker[v].suc
           Known(v) == worker[v].pc = "write" => worker[v].next \in ActiveStates
<1> SUFFICES ASSUME NEW v \in Workers, Captured(v)'
             PROVE  Row(v)' /\ Known(v)'
  BY DEF Snapshots, Captured
<1>1. CASE worker'[v] = worker[v] /\ ~Write(v)
  <2>1. Captured(v) /\ Holds(v) /\ Row(v) /\ Known(v) /\ worker[v].deploy \in Deploys
    BY <1>1 DEF Captured, Holds, Snapshots, Locking
  <2>2. ASSUME NEW w \in Workers, Write(w) PROVE worker[w].deploy # worker[v].deploy
    BY <1>1, <2>1, <2>2, MutualExclusion DEF Write, Holds
  <2>3. sucDate'[worker[v].deploy] = sucDate[worker[v].deploy]
    BY <2>1, <2>2, SucDateStep
  <2>4. state[worker[v].deploy] # "NONE"
    BY <2>1 DEF Locking, Captured
  <2>5. \/ state'[worker[v].deploy] = state[worker[v].deploy]
        \/ state'[worker[v].deploy] \in FinalStates \cup {"GONE"}
    BY <2>1, <2>2, <2>4, StateStep
  <2> QED
    BY <1>1, <2>1, <2>3, <2>5
<1>2. CASE ReadDeploy(v) /\ state[worker[v].deploy] \in ActiveStates
  <2>1. worker[v].deploy \in Deploys /\ state' = state /\ sucDate' = sucDate
    BY <1>2 DEF ReadDeploy, Locking
  <2> QED
    BY <1>2, <2>1, ReadEffect DEF SucceededHasDate
<1>3. CASE Decide(v)
  <2>1. worker[v].deploy \in Deploys /\ state' = state /\ sucDate' = sucDate /\ Row(v)
    BY <1>3 DEF Decide, Locking, Snapshots, Captured
  <2> QED
    BY <1>3, <2>1, DecideEffect
<1> QED
  BY <1>1, <1>2, <1>3, CapturedStep

LEMMA RememberedStep ==
  ASSUME TypeOK, Locking, Snapshots, Inserted, Remembered, SucceededHasDate, [Next]_vars
  PROVE  Remembered'
<1> USE LifecycleAssumption DEF TypeOK
<1> DEFINE Old(p) == deployer[p].pc # "idle" /\ deployer[p].old # NoDeploy =>
             /\ state[deployer[p].old] # "NONE"
             /\ deployer[p].pc = "commit" =>
                  /\ deployer[p].state \in DeployState
                  /\ deployer[p].state \in {"SUCCEEDING", "SUCCEEDED"} => sucDate[deployer[p].old]
<1> SUFFICES ASSUME NEW p \in Deployers PROVE Old(p)'
  BY DEF Remembered
<1>1. deployer[p] \in DeployerRecord /\ Old(p)
  BY DEF Remembered
<1>2. CASE deployer'[p] = deployer[p]
  BY <1>1, <1>2, RowsStep DEF DeployerRecord, DeployId
<1>3. CASE deployer'[p] = IdleDeployer
  BY <1>3 DEF IdleDeployer
<1>4. CASE ReadEnv(p)
  <2>1. deployer'[p] = [deployer[p] EXCEPT !.pc = IF envDeploy = NoDeploy THEN "commit" ELSE "readOld",
                                           !.old = envDeploy]
    BY <1>4 DEF ReadEnv
  <2>2. /\ deployer'[p].pc = "commit" => deployer'[p].old = NoDeploy
        /\ deployer'[p].old = envDeploy
    BY <1>1, <2>1 DEF DeployerRecord
  <2> QED
    BY <1>4, <2>2 DEF ReadEnv, Inserted
<1>5. CASE ReadOld(p) /\ Exists(deployer[p].old)
  <2>1. deployer'[p] = [deployer[p] EXCEPT !.pc = "commit", !.state = state[deployer[p].old],
                                           !.acc = acc[deployer[p].old]]
    BY <1>5 DEF ReadOld
  <2>2. deployer'[p].state = state[deployer[p].old] /\ deployer'[p].old = deployer[p].old
    BY <1>1, <2>1 DEF DeployerRecord
  <2> QED
    BY <1>1, <1>5, <2>2 DEF ReadOld, Exists, SucceededHasDate
<1>6. CASE ReadOld(p) /\ ~Exists(deployer[p].old)
  BY <1>3, <1>6 DEF ReadOld
<1>7. ASSUME NEW d \in Deploys, Commit(p, d) PROVE Old(p)'
  BY <1>3, <1>7 DEF Commit
<1>8. ASSUME NEW q \in Deployers, q # p, DeployerStep(q) PROVE Old(p)'
  BY <1>2, <1>8 DEF DeployerStep, ReadEnv, ReadOld, Commit
<1>9. CASE deployer' = deployer
  BY <1>2, <1>9
<1> QED
  BY <1>4, <1>5, <1>6, <1>7, <1>8, <1>9 DEF Next, DeployerStep, WorkerStep, UserStep, PickCurrent,
     RefreshProgress, Acquire, ReadDeploy, Decide, Retire, Write, Crash, PauseOrResume, Put,
     JanitorDelete, RestDelete, vars

LEMMA CurrentIsActiveStep ==
  ASSUME PutStates = {}, TypeOK, Locking, Obsolete, Snapshots, Inserted, CurrentIsActive, [Next]_vars
  PROVE  CurrentIsActive'
<1> USE LifecycleAssumption DEF TypeOK
<1>1. ASSUME NEW p \in Deployers, NEW d \in Deploys, Commit(p, d) PROVE CurrentIsActive'
  BY <1>1 DEF Commit, CurrentIsActive, ActiveStates
<1>2. ASSUME NEW w \in Workers, Retire(w) PROVE CurrentIsActive'
  BY <1>2 DEF Retire, Obsolete, CurrentIsActive, DeployId
<1>3. ASSUME NEW w \in Workers, Write(w) PROVE CurrentIsActive'
  BY <1>3 DEF Write, Snapshots, CurrentIsActive, DeployId
<1>4. ASSUME NEW d \in Deploys, UserStep(d) PROVE CurrentIsActive'
  BY <1>4 DEF UserStep, Put, JanitorDelete, RestDelete, CurrentIsActive, DeployId
<1>5. CASE envDeploy' = envDeploy /\ state' = state
  BY <1>5 DEF CurrentIsActive
<1> QED
  BY <1>1, <1>2, <1>3, <1>4, <1>5 DEF Next, DeployerStep, WorkerStep, ReadEnv, ReadOld, PickCurrent,
     RefreshProgress, Acquire, ReadDeploy, Decide, Crash, PauseOrResume, vars

LEMMA SucceededHasDateStep ==
  ASSUME PutStates = {}, TypeOK, Locking, Snapshots, Remembered, SucceededHasDate, [Next]_vars
  PROVE  SucceededHasDate'
<1> USE LifecycleAssumption DEF TypeOK
<1> SUFFICES ASSUME NEW e \in Deploys, state'[e] \in {"SUCCEEDING", "SUCCEEDED"}
             PROVE  sucDate'[e]
  BY DEF SucceededHasDate
<1>1. CASE state'[e] = state[e]
  BY <1>1, RowsStep DEF SucceededHasDate
<1>2. ASSUME NEW p \in Deployers, NEW d \in Deploys, Commit(p, d), state'[e] # state[e]
      PROVE  sucDate'[e]
  <2>1. e = deployer[p].old /\ state'[e] = FinalState(deployer[p].state)
    BY <1>2 DEF Commit
  <2>2. deployer[p].state \in {"SUCCEEDING", "SUCCEEDED"}
    BY <2>1 DEF FinalState
  <2> QED
    BY <1>2, <2>1, <2>2 DEF Commit, Remembered
<1>3. ASSUME NEW w \in Workers, Retire(w), state'[e] # state[e] PROVE sucDate'[e]
  <2>1. e = worker[w].deploy /\ state'[e] = FinalState(worker[w].state)
    BY <1>3 DEF Retire
  <2>2. worker[w].state = "SUCCEEDING"
    BY <1>3, <2>1 DEF FinalState, Retire, Snapshots, Captured, ActiveStates
  <2> QED
    BY <1>3, <2>1, <2>2 DEF Retire, Snapshots, Captured
<1>4. ASSUME NEW w \in Workers, Write(w), state'[e] # state[e] PROVE sucDate'[e]
  <2>1. e = worker[w].deploy /\ state'[e] = worker[w].next /\ worker[w].next = "SUCCEEDING"
    BY <1>4 DEF Write, Snapshots, ActiveStates
  <2>2. worker[w].suc => sucDate[e]
    BY <1>4, <2>1 DEF Write, Snapshots, Captured
  <2> QED
    BY <1>4, <2>1, <2>2 DEF Write
<1>5. ASSUME NEW d \in Deploys, UserStep(d), state'[e] # state[e] PROVE FALSE
  BY <1>5 DEF UserStep, Put, JanitorDelete, RestDelete
<1> QED
  BY <1>1, <1>2, <1>3, <1>4, <1>5 DEF Next, DeployerStep, WorkerStep, ReadEnv, ReadOld, PickCurrent,
     RefreshProgress, Acquire, ReadDeploy, Decide, Crash, PauseOrResume, vars

\* A deploy no more in play does not come back into play.
LEMMA InPlayStep ==
  ASSUME PutStates = {}, TypeOK, Locking, Snapshots, [Next]_vars, NEW e \in Deploys, InPlay(e)'
  PROVE  InPlay(e)
<1> USE LifecycleAssumption DEF TypeOK
<1>1. CASE state'[e] \in ActiveStates \cup {"NONE"} /\ state'[e] # state[e]
  BY <1>1, StateStep DEF InPlay, ActiveStates, FinalStates
<1>2. CASE state'[e] \in ActiveStates \cup {"NONE"} /\ state'[e] = state[e]
  BY <1>2 DEF InPlay
<1>3. ASSUME NEW v \in Workers, worker'[v].pc = "decide", worker'[v].deploy = e
      PROVE  InPlay(e)
  <2>1. CASE worker'[v] = worker[v]
    BY <1>3, <2>1 DEF InPlay
  <2>2. CASE ReadDeploy(v) /\ state[worker[v].deploy] \in ActiveStates
    BY <1>3, <2>2, ReadEffect DEF InPlay
  <2>3. CASE Decide(v)
    BY <1>3, <2>3, DecideEffect, ZenonT(40) DEF Decide, Locking
  <2> QED
    BY <1>3, <2>1, <2>2, <2>3, CapturedStep DEF Captured
<1> QED
  BY <1>1, <1>2, <1>3 DEF InPlay

LEMMA BudgetStep ==
  ASSUME PutStates = {}, TypeOK, Locking, Snapshots, Budget, [Next]_vars
  PROVE  Budget'
<1> USE LifecycleAssumption DEF TypeOK
<1> DEFINE Ok(e) == /\ hooks[e] <= 1 + crashes
                    /\ InPlay(e) /\ ~sucDate[e] /\ ~Pending(e) => hooks[e] <= crashes
<1> SUFFICES ASSUME NEW e \in Deploys PROVE Ok(e)'
  BY DEF Budget
<1>1. Ok(e)
  BY DEF Budget
<1>2. ASSUME hooks'[e] = hooks[e], crashes' = crashes, ~Pending(e)' => ~Pending(e) \/ sucDate'[e]
      PROVE  Ok(e)'
  BY <1>1, <1>2, InPlayStep, RowsStep
<1>3. ASSUME NEW w \in Workers, Decide(w) PROVE Ok(e)'
  <2>1. /\ UNCHANGED <<sucDate, crashes>>
        /\ worker[w].deploy \in Deploys /\ worker[w].pc = "decide" /\ Holds(w)
        /\ worker[w].suc = sucDate[worker[w].deploy]
    BY <1>3 DEF Decide, Locking, Snapshots, Captured, Holds
  <2>2. Pending(e) => Pending(e)'
    BY <1>3, <2>1, DecideEffect DEF Pending
  <2>3. CASE hooks'[e] = hooks[e]
    BY <1>2, <2>1, <2>2, <2>3
  <2>4. CASE hooks'[e] # hooks[e]
    <3>1. /\ worker[w].deploy = e /\ ~sucDate[e] /\ hooks'[e] = hooks[e] + 1
          /\ worker'[w].pc = "write" /\ worker'[w].next = "SUCCEEDING" /\ worker'[w].deploy = e
      BY <1>3, <2>1, <2>4, DecideEffect
    <3>2. Pending(e)'
      BY <3>1 DEF Pending
    <3>3. ~Pending(e)
      BY <2>1, <3>1, MutualExclusion DEF Pending, Holds
    <3>4. InPlay(e)
      BY <2>1, <3>1 DEF InPlay
    <3> QED
      BY <1>1, <2>1, <3>1, <3>2, <3>3, <3>4
  <2> QED
    BY <2>3, <2>4
<1>4. ASSUME NEW w \in Workers, Write(w) PROVE Ok(e)'
  <2>1. /\ UNCHANGED <<hooks, crashes>>
        /\ worker[w].deploy \in Deploys /\ worker[w].pc = "write" /\ Holds(w)
        /\ \A v \in Workers : v # w => worker'[v] = worker[v]
    BY <1>4 DEF Write, Leave, Locking, Holds
  <2>2. CASE ~(worker[w].deploy = e /\ worker[w].next = "SUCCEEDING")
    <3>1. Pending(e) => Pending(e)'
      BY <2>1, <2>2 DEF Pending
    <3> QED
      BY <1>2, <2>1, <3>1
  <2>3. CASE worker[w].deploy = e /\ worker[w].next = "SUCCEEDING" /\ ~sucDate'[e]
    <3>1. /\ worker[w].state \in ActiveStates /\ worker[w].suc = sucDate[e]
          /\ state[e] \in {worker[w].state, "GONE"} \cup FinalStates
          /\ worker[w].state = "SUCCEEDING" => worker[w].suc
      BY <2>1, <2>3 DEF Snapshots, Captured
    <3>2. ~sucDate[e]
      BY <2>3, RowsStep
    <3>3. state[e] # worker[w].state /\ state' = state
      BY <1>4, <2>3, <3>1, <3>2 DEF Write
    <3>4. ~\E v \in Workers : worker[v].pc = "decide" /\ worker[v].deploy = e
      BY <2>1, <2>3, MutualExclusion DEF Holds
    <3>5. ~InPlay(e)
      BY <3>1, <3>3, <3>4 DEF InPlay, ActiveStates, FinalStates
    <3> QED
      BY <1>1, <2>1, <3>5, InPlayStep
  <2>4. CASE worker[w].deploy = e /\ worker[w].next = "SUCCEEDING" /\ sucDate'[e]
    BY <1>1, <2>1, <2>4
  <2> QED
    BY <2>2, <2>3, <2>4
<1>5. ASSUME NEW w \in Workers, Crash(w) PROVE Ok(e)'
  BY <1>1, <1>5 DEF Crash
<1>6. ASSUME NEW w \in Workers, Acquire(w) \/ ReadDeploy(w) \/ Retire(w)
      PROVE  Ok(e)'
  <2>1. /\ UNCHANGED <<hooks, crashes>> /\ worker[w].pc # "write"
        /\ \A v \in Workers : v # w => worker'[v] = worker[v]
    BY <1>6 DEF Acquire, ReadDeploy, Retire, Leave
  <2>2. Pending(e) => Pending(e)'
    BY <2>1 DEF Pending
  <2> QED
    BY <1>2, <2>1, <2>2
<1>7. ASSUME NEW w \in Workers, PickCurrent(w) \/ RefreshProgress(w) PROVE Ok(e)'
  <2>1. UNCHANGED <<hooks, crashes>> /\ worker[w].pc # "write"
    BY <1>7 DEF PickCurrent, RefreshProgress
  <2>2. Pending(e) => Pending(e)'
    BY <1>7, <2>1, PickEffect DEF Pending
  <2> QED
    BY <1>2, <2>1, <2>2
<1>8. CASE UNCHANGED <<worker, hooks, crashes>>
  BY <1>2, <1>8 DEF Pending
<1> QED
  BY <1>3, <1>4, <1>5, <1>6, <1>7, <1>8 DEF Next, DeployerStep, WorkerStep, UserStep, ReadEnv,
     ReadOld, Commit, PauseOrResume, Put, JanitorDelete, RestDelete, vars

-----------------------------------------------------------------------------
LEMMA IInvInit == ASSUME Init PROVE IInv
<1> USE LifecycleAssumption DEF Init, IdleWorker, IdleDeployer
<1>1. Locking /\ Obsolete /\ Snapshots /\ Remembered
  BY DEF Locking, Obsolete, Snapshots, Remembered, Captured
<1>2. Inserted /\ CurrentIsActive /\ SucceededHasDate
  BY DEF Inserted, CurrentIsActive, SucceededHasDate
<1>3. Budget
  BY DEF Budget
<1> QED
  BY <1>1, <1>2, <1>3, TypeInit DEF IInv

LEMMA IInvStep == ASSUME PutStates = {}, IInv, [Next]_vars PROVE IInv'
BY TypeStep, LockingStep, ObsoleteStep, SnapshotsStep, RememberedStep, InsertedStep,
   CurrentIsActiveStep, SucceededHasDateStep, BudgetStep DEF IInv

\* What threads remember of the deploys they work on stays true while others
\* work on them: snapshots of DeployHandler and decisions of CommonHandler are
\* written long after they were read. The theorems below follow from it.
THEOREM IInvCorrect == ASSUME PutStates = {} PROVE Spec => []IInv
BY IInvInit, IInvStep, PTL DEF Spec

\* Every variable of the deploy tables and of the threads keeps its type.
THEOREM TypeCorrect == ASSUME PutStates = {} PROVE Spec => []TypeOK
<1>1. IInv => TypeOK
  BY DEF IInv
<1> QED
  BY <1>1, IInvCorrect, PTL

\* The deploy an environment points at is never retired, whatever deployers,
\* workers and janitor do at the same time (DeployHandler.internalDeploy,
\* CommonHandler.internalTransition).
THEOREM CurrentStaysActive == ASSUME PutStates = {} PROVE Spec => []CurrentIsActive
<1>1. IInv => CurrentIsActive
  BY DEF IInv
<1> QED
  BY <1>1, IInvCorrect, PTL

\* A deploy only becomes SUCCEEDED when its success was recorded
\* (CommonHandler.transition, StateMachines.FINAL_STATE_TRANSITION_MAP).
THEOREM SucceededWasDated == ASSUME PutStates = {} PROVE Spec => []SucceededHasDate
<1>1. IInv => SucceededHasDate
  BY DEF IInv
<1> QED
  BY <1>1, IInvCorrect, PTL

\* The post-deploy webhooks are submitted at most once per deploy and crash:
\* the transition lock and suc_date together make the submission unique.
THEOREM HooksSubmittedOnce == ASSUME PutStates = {} PROVE Spec => []HooksBounded
<1>1. IInv => HooksBounded
  BY DEF IInv, Budget, HooksBounded
<1> QED
  BY <1>1, IInvCorrect, PTL

\* A deploy in a final state stays in one until it is deleted
\* (DBDeployDAOImpl.updateStateSafely).
THEOREM FinalIsFinal == ASSUME PutStates = {} PROVE Spec => FinalStaysFinal
<1>1. ASSUME IInv, [Next]_vars
      PROVE  [\A d \in Deploys :
                state[d] \in FinalStates => state'[d] \in FinalStates \cup {"GONE"}]_vars
  <2> SUFFICES ASSUME NEW d \in Deploys, state[d] \in FinalStates, state'[d] # state[d]
               PROVE  state'[d] \in FinalStates \cup {"GONE"}
    OBVIOUS
  <2>1. state[d] \notin ActiveStates \cup {"NONE"}
    BY DEF ActiveStates, FinalStates
  <2> QED
    BY <1>1, <2>1, StateStep DEF IInv
<1> QED
  BY <1>1, IInvCorrect, PTL DEF Spec, FinalStaysFinal

-----------------------------------------------------------------------------
LEMMA HeldInsideStep == ASSUME IInv, HeldInside, [Next]_vars PROVE HeldInside'
<1> USE LifecycleAssumption DEF IInv, TypeOK
<1> DEFINE In(d) == lock[d] # Free => worker[lock[d]].deploy = d /\ Holds(lock[d])
<1> SUFFICES ASSUME NEW d \in Deploys, lock'[d] # Free PROVE In(d)'
  BY DEF HeldInside, Holds
<1>1. In(d)
  BY DEF HeldInside, Holds
<1>2. ASSUME lock'[d] = lock[d], worker'[lock[d]] = worker[lock[d]] PROVE In(d)'
  BY <1>1, <1>2 DEF Holds
\* A thread that is not yet inside holds no lock.
<1>3. ASSUME NEW w \in Workers, ~Holds(w) PROVE lock[d] # w
  BY <1>1, <1>3
<1>4. ASSUME NEW w \in Workers, PickCurrent(w) \/ RefreshProgress(w) PROVE In(d)'
  <2>1. lock' = lock /\ ~Holds(w) /\ \A v \in Workers : v # w => worker'[v] = worker[v]
    BY <1>4, PickEffect DEF PickCurrent, RefreshProgress, Holds
  <2> QED
    BY <1>2, <1>3, <2>1
<1>5. ASSUME NEW w \in Workers, Acquire(w) PROVE In(d)'
  <2>1. ~Holds(w) /\ \A v \in Workers : v # w => worker'[v] = worker[v]
    BY <1>5 DEF Acquire, Holds
  <2>2. CASE lock'[d] = lock[d]
    BY <1>2, <1>3, <2>1, <2>2
  <2>3. CASE lock'[d] # lock[d]
    BY <1>5, <2>3 DEF Acquire, Holds, WorkerRecord
  <2> QED
    BY <2>2, <2>3
<1>6. ASSUME NEW w \in Workers, Holds(w), Leave(w) PROVE In(d)'
  <2>1. \A v \in Workers : v # w => worker'[v] = worker[v]
    BY <1>6 DEF Leave
  <2>2. lock[d] # w /\ lock'[d] = lock[d]
    BY <1>1, <1>6 DEF Leave
  <2> QED
    BY <1>2, <2>1, <2>2
<1>7. ASSUME NEW w \in Workers, ReadDeploy(w) PROVE In(d)'
  <2>1. Holds(w)
    BY <1>7 DEF ReadDeploy, Holds
  <2>2. CASE state[worker[w].deploy] \notin ActiveStates
    BY <1>6, <1>7, <2>1, <2>2 DEF ReadDeploy
  <2>3. CASE state[worker[w].deploy] \in ActiveStates
    <3>1. lock' = lock /\ worker[w].deploy \in Deploys /\ state' = state
      BY <1>7, <2>1, <2>3 DEF ReadDeploy, Locking, Holds
    <3>2. worker'[w].deploy = worker[w].deploy /\ Holds(w)'
      BY <1>7, <2>3, ReadEffect DEF Holds
    <3>3. \A v \in Workers : v # w => worker'[v] = worker[v]
      BY <1>7, <2>3, <3>1 DEF ReadDeploy
    <3> QED
      BY <1>1, <3>1, <3>2, <3>3 DEF Holds
  <2> QED
    BY <2>2, <2>3
<1>8. ASSUME NEW w \in Workers, Decide(w) PROVE In(d)'
  <2>1. lock' = lock /\ worker[w].pc = "decide" /\ worker[w].deploy \in Deploys
    BY <1>8 DEF Decide, Locking
  <2>2. worker'[w].deploy = worker[w].deploy /\ Holds(w)'
    BY <1>8, <2>1, DecideEffect DEF Holds
  <2>3. \A v \in Workers : v # w => worker'[v] = worker[v]
    BY <1>8, <2>1, DecideEffect
  <2> QED
    BY <1>1, <2>1, <2>2, <2>3 DEF Holds
<1>9. ASSUME NEW w \in Workers, Retire(w) \/ Write(w) PROVE In(d)'
  BY <1>6, <1>9 DEF Retire, Write, Holds
<1>10. ASSUME NEW w \in Workers, Crash(w) PROVE In(d)'
  BY <1>1, <1>10, SMTT(30) DEF Crash, Holds
<1>11. CASE worker' = worker /\ lock' = lock
  BY <1>2, <1>11
<1> QED
  <2>1. ASSUME NEW p \in Deployers, DeployerStep(p) PROVE worker' = worker /\ lock' = lock
    BY <2>1 DEF DeployerStep, ReadEnv, ReadOld, Commit
  <2>2. ASSUME NEW e \in Deploys, UserStep(e) PROVE worker' = worker /\ lock' = lock
    BY <2>2 DEF UserStep, Put, JanitorDelete, RestDelete
  <2>3. ASSUME PauseOrResume \/ UNCHANGED vars PROVE worker' = worker /\ lock' = lock
    BY <2>3 DEF PauseOrResume, vars
  <2> QED
    BY <1>4, <1>5, <1>7, <1>8, <1>9, <1>10, <1>11, <2>1, <2>2, <2>3 DEF Next, WorkerStep

\* No transition lock leaks: whichever way a worker leaves the critical section,
\* a lock is held by a thread inside only (CommonHandler.transitionDeployState).
THEOREM LocksHeldInside == ASSUME PutStates = {} PROVE Spec => []HeldInside
<1>1. Init => HeldInside
  BY DEF Init, HeldInside
<1> QED
  BY <1>1, HeldInsideStep, IInvCorrect, PTL DEF Spec

-----------------------------------------------------------------------------
(***************************************************************************)
(* What more holds when no two threads are inside internalDeploy at once.  *)
(***************************************************************************)
Serial == \A p, q \in Deployers : p = q

\* Nobody moves the environment on between a deployer's reads and its commit.
Fresh == \A p \in Deployers : deployer[p].pc # "idle" => deployer[p].old = envDeploy

SerialInv == IInv /\ Fresh /\ NoOrphan

LEMMA FreshStep == ASSUME Serial, TypeOK, Fresh, [Next]_vars PROVE Fresh'
<1> USE DEF TypeOK
<1> SUFFICES ASSUME NEW p \in Deployers, deployer'[p].pc # "idle"
             PROVE  deployer'[p].old = envDeploy'
  BY DEF Fresh
<1>1. deployer[p] \in DeployerRecord
  OBVIOUS
<1>2. ASSUME NEW q \in Deployers, ReadEnv(q) PROVE deployer'[p].old = envDeploy'
  <2>1. deployer'[p] = [deployer[p] EXCEPT !.pc = IF envDeploy = NoDeploy THEN "commit" ELSE "readOld",
                                           !.old = envDeploy]
    BY <1>2 DEF ReadEnv, Serial
  <2> QED
    BY <1>1, <1>2, <2>1 DEF ReadEnv, DeployerRecord
<1>3. ASSUME NEW q \in Deployers, ReadOld(q), Exists(deployer[q].old)
      PROVE  deployer'[p].old = envDeploy'
  <2>1. deployer'[p] = [deployer[p] EXCEPT !.pc = "commit", !.state = state[deployer[p].old],
                                           !.acc = acc[deployer[p].old]]
    BY <1>3 DEF ReadOld, Serial
  <2> QED
    BY <1>1, <1>3, <2>1 DEF ReadOld, Serial, Fresh, DeployerRecord
<1>4. ASSUME NEW q \in Deployers, ReadOld(q), ~Exists(deployer[q].old) PROVE FALSE
  BY <1>4 DEF ReadOld, Serial, IdleDeployer
<1>5. ASSUME NEW q \in Deployers, NEW d \in Deploys, Commit(q, d) PROVE FALSE
  BY <1>5 DEF Commit, Serial, IdleDeployer
<1>6. CASE UNCHANGED <<deployer, envDeploy>>
  BY <1>6 DEF Fresh
<1> QED
  BY <1>2, <1>3, <1>4, <1>5, <1>6 DEF Next, DeployerStep, WorkerStep, UserStep, PickCurrent,
     RefreshProgress, Acquire, ReadDeploy, Decide, Retire, Write, Crash, PauseOrResume, Put,
     JanitorDelete, RestDelete, vars

\* A row comes into being in the transaction of a deployer only.
LEMMA OnlyCommitInserts ==
  ASSUME PutStates = {}, TypeOK, Locking, Snapshots, [Next]_vars, NEW e \in Deploys,
         state[e] = "NONE", state'[e] # "NONE"
  PROVE  \E p \in Deployers, d \in Deploys : Commit(p, d)
<1>1. ASSUME NEW w \in Workers, Retire(w) PROVE FALSE
  <2>1. state'[e] # state[e]
    OBVIOUS
  <2>2. state[e] \in DeployState
    BY <1>1, <2>1 DEF Retire, Exists, TypeOK
  <2> QED
    BY <2>2 DEF DeployState, ActiveStates, FinalStates
<1>2. ASSUME NEW w \in Workers, Write(w) PROVE FALSE
  <2>1. /\ worker[w].state \in ActiveStates
        /\ worker[w].deploy \in Deploys
    BY <1>2 DEF Write, Snapshots, Captured, Locking
  <2>2. \/ state' = state
        \/ /\ state[worker[w].deploy] = worker[w].state
           /\ state' = [state EXCEPT ![worker[w].deploy] = worker[w].next]
    BY <1>2 DEF Write
  <2>3. state \in [Deploys -> DeployState \cup {"NONE", "GONE"}]
    BY DEF TypeOK
  <2> QED
    BY <2>1, <2>2, <2>3 DEF ActiveStates
<1>3. ASSUME NEW d \in Deploys, UserStep(d) PROVE FALSE
  <2>1. state'[e] # state[e]
    OBVIOUS
  <2>2. state[e] \in DeployState
    BY <1>3, <2>1 DEF UserStep, Put, JanitorDelete, RestDelete, Exists, TypeOK
  <2> QED
    BY <2>2 DEF DeployState, ActiveStates, FinalStates
<1>4. ASSUME NEW w \in Workers, PickCurrent(w) \/ RefreshProgress(w) \/ Crash(w) PROVE FALSE
  BY <1>4 DEF PickCurrent, RefreshProgress, Crash
<1>5. ASSUME NEW w \in Workers, Acquire(w) \/ ReadDeploy(w) \/ Decide(w) PROVE FALSE
  BY <1>5 DEF Acquire, ReadDeploy, Decide
<1>6. ASSUME NEW p \in Deployers, ReadEnv(p) \/ ReadOld(p) PROVE FALSE
  BY <1>6 DEF ReadEnv, ReadOld
<1>7. CASE PauseOrResume
  BY <1>7 DEF PauseOrResume
<1>8. CASE UNCHANGED vars
  BY <1>8 DEF vars
<1> QED
  BY <1>1, <1>2, <1>3, <1>4, <1>5, <1>6, <1>7, <1>8 DEF Next, DeployerStep, WorkerStep

\* The environment is moved to another deploy in that transaction only.
LEMMA OnlyCommitMoves ==
  ASSUME [Next]_vars
  PROVE  envDeploy' = envDeploy \/ \E p \in Deployers, d \in Deploys : Commit(p, d)
<1>1. ASSUME NEW w \in Workers, WorkerStep(w) PROVE envDeploy' = envDeploy
  BY <1>1 DEF WorkerStep, Acquire, ReadDeploy, Decide, Retire, Write
<1>2. ASSUME NEW w \in Workers, PickCurrent(w) \/ RefreshProgress(w) \/ Crash(w)
      PROVE  envDeploy' = envDeploy
  BY <1>2 DEF PickCurrent, RefreshProgress, Crash
<1>3. ASSUME NEW d \in Deploys, UserStep(d) PROVE envDeploy' = envDeploy
  BY <1>3 DEF UserStep, Put, JanitorDelete, RestDelete
<1>4. ASSUME NEW p \in Deployers, ReadEnv(p) \/ ReadOld(p) PROVE envDeploy' = envDeploy
  BY <1>4 DEF ReadEnv, ReadOld
<1>5. CASE PauseOrResume \/ UNCHANGED vars
  BY <1>5 DEF PauseOrResume, vars
<1> QED
  BY <1>1, <1>2, <1>3, <1>4, <1>5 DEF Next, DeployerStep

LEMMA NoOrphanStep ==
  ASSUME PutStates = {}, IInv, Fresh, NoOrphan, [Next]_vars PROVE NoOrphan'
<1> USE DEF IInv, TypeOK
<1> SUFFICES ASSUME NEW e \in Deploys, state'[e] \in ActiveStates PROVE envDeploy' = e
  BY DEF NoOrphan
<1>1. ASSUME NEW p \in Deployers, NEW d \in Deploys, Commit(p, d) PROVE envDeploy' = e
  <2> SUFFICES ASSUME e # d PROVE FALSE
    BY <1>1 DEF Commit
  <2>1. CASE e = deployer[p].old /\ Exists(e)
    BY <1>1, <2>1 DEF Commit, FinalState, ActiveStates
  <2>2. CASE ~(e = deployer[p].old /\ Exists(e))
    <3>1. state[e] \in ActiveStates
      BY <1>1, <2>2 DEF Commit
    <3> QED
      BY <1>1, <2>2, <3>1 DEF Commit, Fresh, NoOrphan, Exists, DeployState
  <2> QED
    BY <2>1, <2>2
<1>3. CASE envDeploy' = envDeploy /\ state[e] # "NONE"
  <2>1. CASE state'[e] = state[e]
    BY <1>3, <2>1 DEF NoOrphan
  <2>2. CASE state'[e] # state[e]
    <3>1. state'[e] \notin FinalStates \cup {"GONE"}
      BY DEF ActiveStates, FinalStates
    <3>2. state[e] \in ActiveStates
      BY <1>3, <2>2, <3>1, StateStep
    <3> QED
      BY <1>3, <3>2 DEF NoOrphan
  <2> QED
    BY <2>1, <2>2
<1>4. ASSUME state[e] = "NONE", state'[e] # "NONE"
      PROVE  \E p \in Deployers, d \in Deploys : Commit(p, d)
  BY <1>4, OnlyCommitInserts
<1>5. \/ envDeploy' = envDeploy
      \/ \E p \in Deployers, d \in Deploys : Commit(p, d)
  BY OnlyCommitMoves
<1> QED
  BY <1>1, <1>3, <1>4, <1>5 DEF ActiveStates

LEMMA SerialInvCorrect == ASSUME PutStates = {}, Serial PROVE Spec => []SerialInv
<1>1. Init => SerialInv
  BY IInvInit DEF Init, SerialInv, Fresh, NoOrphan, IdleDeployer, ActiveStates
<1>2. SerialInv /\ [Next]_vars => SerialInv'
  BY IInvStep, FreshStep, NoOrphanStep DEF SerialInv, IInv
<1> QED
  BY <1>1, <1>2, PTL DEF Spec

\* When deployers do not overlap, a deploy that is still active is the current
\* one: the comment of CommonHandler.internalTransition holds then.
THEOREM SerialNoOrphan == ASSUME PutStates = {}, Serial PROVE Spec => []NoOrphan
<1>1. SerialInv => NoOrphan
  BY DEF SerialInv
<1> QED
  BY <1>1, SerialInvCorrect, PTL

LEMMA ContractStep ==
  ASSUME PutStates = {}, AllowDelete = FALSE, SerialInv, SerialInv', [Next]_vars
  PROVE  [Contract!Next]_<<envDeploy, Over>>
<1> USE DEF SerialInv, IInv, TypeOK
<1>1. ASSUME NEW p \in Deployers, NEW d \in Deploys, Commit(p, d) PROVE Contract!Next
  <2>1. deployer[p].old = envDeploy
    BY <1>1 DEF Commit, Fresh
  <2>2. d \notin Over \cup {envDeploy}
    BY <1>1, LifecycleAssumption DEF Commit, Over, FinalStates, Inserted
  <2>3. ASSUME NEW e \in Deploys
        PROVE  e \in Over' <=> e \in Over \/ e = envDeploy
    <3>1. CASE e = d
      BY <1>1, <2>2, <3>1 DEF Commit, Over, FinalStates
    <3>2. CASE e # d /\ e = envDeploy
      <4>1. state[e] # "NONE"
        BY <3>2, LifecycleAssumption DEF Inserted
      <4>2. state'[e] \in FinalStates \cup {"GONE"}
        BY <1>1, <2>1, <3>2, <4>1 DEF Commit, FinalState, FinalStates, Exists
      <4> QED
        BY <3>2, <4>2 DEF Over
    <3>3. CASE e # d /\ e # envDeploy
      BY <1>1, <2>1, <3>3 DEF Commit, Over
    <3> QED
      BY <3>1, <3>2, <3>3
  <2>4. Over' = Over \cup ({envDeploy} \ {NoDeploy})
    BY <2>3, LifecycleAssumption DEF Over, DeployId
  <2> QED
    BY <1>1, <2>2, <2>4 DEF Contract!Next, Contract!Replace, Commit
<1>2. CASE envDeploy' = envDeploy
  <2>1. ASSUME NEW e \in Deploys, state'[e] # state[e], state[e] # "NONE"
        PROVE  e \in Over' <=> e \in Over
    <3>1. CASE state'[e] \in FinalStates \cup {"GONE"} /\ state[e] \in DeployState
      <4>1. state'[e] \notin ActiveStates
        BY <3>1 DEF ActiveStates, FinalStates
      <4>2. state[e] \notin ActiveStates
        BY <1>2, <4>1, LifecycleAssumption DEF NoOrphan, CurrentIsActive
      <4> QED
        BY <3>1, <4>2 DEF Over, DeployState
    <3>2. ASSUME NEW w \in Workers, Write(w), worker[w].deploy = e, state[e] \in ActiveStates
          PROVE  e \in Over' <=> e \in Over
      <4>1. state'[e] \in ActiveStates
        BY <2>1, <3>2 DEF Write, Snapshots
      <4> QED
        BY <3>2, <4>1 DEF Over, ActiveStates, FinalStates
    <3> QED
      BY <2>1, <3>1, <3>2, StateStep
  <2>2. ASSUME NEW e \in Deploys, state[e] = "NONE" PROVE state'[e] # "RUNNING"
    BY <1>2, <2>2, LifecycleAssumption DEF NoOrphan, Inserted, ActiveStates
  <2>3. ASSUME NEW e \in Deploys PROVE e \in Over' <=> e \in Over
    BY <2>1, <2>2, StateStep DEF Over, DeployState, ActiveStates, FinalStates
  <2>4. Over' = Over
    BY <2>3 DEF Over
  <2> QED
    BY <1>2, <2>4
<1> HIDE DEF SerialInv, IInv, TypeOK
<1> QED
  BY <1>1, <1>2, OnlyCommitMoves

\* When deployers do not overlap and nobody deletes the current deploy, the
\* three reads and writes of internalDeploy, the workers with their crashes
\* and the janitor together look like one step that replaces the deploy.
THEOREM SerialImplementsContract ==
  ASSUME PutStates = {}, Serial, AllowDelete = FALSE PROVE Spec => ImplementsContract
<1>1. Init => Contract!Init
  BY DEF Init, Contract!Init, Over, FinalStates
<1> QED
  BY <1>1, ContractStep, SerialInvCorrect, PTL
  DEF Spec, ImplementsContract, Contract!Spec
=============================================================================
