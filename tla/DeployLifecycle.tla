--------------------------- MODULE DeployLifecycle ---------------------------
(***************************************************************************)
(* The life of the deploys of one environment in the MySQL tables environs *)
(* and deploys, under every interleaving of                                *)
(*   - deployers: threads inside DeployHandler.internalDeploy(), called by  *)
(*     the REST resources and by AutoPromoter; they take no lock;          *)
(*   - workers: StateTransitioner threads and the REST call that refreshes *)
(*     the progress of a deploy, both inside CommonHandler                 *)
(*     .transitionDeployState(), under the lock STATE_TRANSITION-<deploy>; *)
(*   - DeployJanitor, users who pause, review, edit or delete, and service *)
(*     crashes.                                                            *)
(* A step is one statement sent to the database, or one transaction.       *)
(***************************************************************************)
EXTENDS DeployStates

CONSTANTS
  Deploys,       \* the deploy ids that can ever be drawn; a bound on the run
  Deployers,     \* threads that can be inside internalDeploy
  Workers,       \* threads that can be inside transitionDeployState
  NoDeploy,      \* a null deploy_id
  Free,          \* no connection holds the lock
  AcceptType,    \* environs.accept_type: "AUTO" or "MANUAL"
  Verdicts,      \* the acc_status reviewers send in PUT /deploys/{id}
  PutStates,     \* the states clients send in PUT /deploys/{id}
  AllowDelete,   \* whether DELETE /deploys/{id} is used
  MaxCrashes     \* bound on the crashes of workers

ASSUME LifecycleAssumption ==
  /\ NoDeploy \notin Deploys
  /\ Free \notin Workers
  /\ AcceptType \in {"AUTO", "MANUAL"}
  /\ Verdicts \subseteq AcceptanceStatus
  /\ PutStates \subseteq DeployState
  /\ AllowDelete \in BOOLEAN
  /\ MaxCrashes \in Nat

VARIABLES
  envDeploy,   \* environs.deploy_id
  envState,    \* environs.env_state
  state,       \* deploys.state, "NONE" before the insert, "GONE" after a delete
  acc,         \* deploys.acc_status
  sucDate,     \* whether deploys.suc_date is set
  lock,        \* GET_LOCK('STATE_TRANSITION-<deploy>')
  deployer,    \* the local variables of internalDeploy, per thread
  worker,      \* the local variables of transitionDeployState, per thread
  hooks,       \* history: post-deploy webhook jobs submitted for a deploy
  crashes      \* history: crashes of workers

vars == <<envDeploy, envState, state, acc, sucDate, lock, deployer, worker,
          hooks, crashes>>

Exists(d) == d \in Deploys /\ state[d] \in DeployState
DeployId  == Deploys \cup {NoDeploy}

IdleDeployer == [pc |-> "idle", old |-> NoDeploy, state |-> "NONE", acc |-> "TERMINATED"]
IdleWorker   == [pc |-> "idle", deploy |-> NoDeploy, env |-> NoDeploy,
                 state |-> "NONE", suc |-> FALSE, next |-> "NONE"]

Init ==
  /\ envDeploy = NoDeploy
  /\ envState = "NORMAL"
  /\ state = [d \in Deploys |-> "NONE"]
  /\ acc = [d \in Deploys |-> "PENDING_DEPLOY"]
  /\ sucDate = [d \in Deploys |-> FALSE]
  /\ lock = [d \in Deploys |-> Free]
  /\ deployer = [p \in Deployers |-> IdleDeployer]
  /\ worker = [w \in Workers |-> IdleWorker]
  /\ hooks = [d \in Deploys |-> 0]
  /\ crashes = 0

-----------------------------------------------------------------------------
(***************************************************************************)
(* internalDeploy: deploy, promote, rollback and restart differ in the     *)
(* build they pick, not in what follows.                                   *)
(***************************************************************************)

\* The caller reads the environ row; envBean keeps that deploy_id.
ReadEnv(p) ==
  /\ deployer[p].pc = "idle"
  /\ deployer' = [deployer EXCEPT ![p] =
       [@ EXCEPT !.pc = IF envDeploy = NoDeploy THEN "commit" ELSE "readOld", !.old = envDeploy]]
  /\ UNCHANGED <<envDeploy, envState, state, acc, sucDate, lock, worker, hooks, crashes>>

\* oldDeployBean = getById(envBean.deploy_id); a null row ends in an exception.
ReadOld(p) ==
  LET old == deployer[p].old IN
  /\ deployer[p].pc = "readOld"
  /\ \/ /\ Exists(old)
        /\ deployer' = [deployer EXCEPT ![p] =
             [@ EXCEPT !.pc = "commit", !.state = state[old], !.acc = acc[old]]]
     \/ /\ ~Exists(old)
        /\ deployer' = [deployer EXCEPT ![p] = IdleDeployer]
  /\ UNCHANGED <<envDeploy, envState, state, acc, sucDate, lock, worker, hooks, crashes>>

\* Mutant of Commit: the deploy read before is not retired.
CommitOnly(p, d) ==
  /\ deployer[p].pc = "commit"
  /\ state[d] = "NONE"
  /\ envDeploy' = d
  /\ state' = [state EXCEPT ![d] = "RUNNING"]
  /\ deployer' = [deployer EXCEPT ![p] = IdleDeployer]
  /\ UNCHANGED <<envState, acc, sucDate, lock, worker, hooks, crashes>>

\* One transaction: insert the deploy, point the environ at it, retire the
\* deploy read before, with the values read before.
Commit(p, d) ==
  LET old == deployer[p].old IN
  /\ deployer[p].pc = "commit"
  /\ state[d] = "NONE"
  /\ envDeploy' = d
  /\ state' = [e \in Deploys |->
       IF e = d THEN "RUNNING"
       ELSE IF e = old /\ Exists(e) THEN FinalState(deployer[p].state)
       ELSE state[e]]
  /\ acc' = [e \in Deploys |->
       IF e = old /\ Exists(e) /\ deployer[p].acc \notin FinalAcceptance
         THEN "TERMINATED" ELSE acc[e]]
  /\ deployer' = [deployer EXCEPT ![p] = IdleDeployer]
  /\ UNCHANGED <<envState, sucDate, lock, worker, hooks, crashes>>

-----------------------------------------------------------------------------
(***************************************************************************)
(* transitionDeployState.                                                  *)
(***************************************************************************)

\* StateTransitioner takes the current deploys of the NORMAL environments and
\* passes no environ.
PickCurrent(w) ==
  /\ worker[w].pc = "idle"
  /\ envDeploy # NoDeploy
  /\ envState = "NORMAL"
  /\ worker' = [worker EXCEPT ![w] = [IdleWorker EXCEPT !.pc = "lock", !.deploy = envDeploy]]
  /\ UNCHANGED <<envDeploy, envState, state, acc, sucDate, lock, deployer, hooks, crashes>>

\* PUT .../deploys/current/progress passes the environ it has just read.
RefreshProgress(w) ==
  /\ worker[w].pc = "idle"
  /\ envDeploy # NoDeploy
  /\ worker' = [worker EXCEPT ![w] =
       [IdleWorker EXCEPT !.pc = "lock", !.deploy = envDeploy, !.env = envDeploy]]
  /\ UNCHANGED <<envDeploy, envState, state, acc, sucDate, lock, deployer, hooks, crashes>>

\* Mutant of Acquire: the result of GET_LOCK is ignored.
AcquireAlways(w) ==
  /\ worker[w].pc = "lock"
  /\ lock' = [lock EXCEPT ![worker[w].deploy] = w]
  /\ worker' = [worker EXCEPT ![w] = [@ EXCEPT !.pc = "read"]]
  /\ UNCHANGED <<envDeploy, envState, state, acc, sucDate, deployer, hooks, crashes>>

\* GET_LOCK with timeout 0: when another connection holds the lock, give up.
Acquire(w) ==
  LET d == worker[w].deploy IN
  /\ worker[w].pc = "lock"
  /\ \/ /\ lock[d] = Free
        /\ lock' = [lock EXCEPT ![d] = w]
        /\ worker' = [worker EXCEPT ![w] = [@ EXCEPT !.pc = "read"]]
     \/ /\ lock[d] # Free
        /\ worker' = [worker EXCEPT ![w] = IdleWorker]
        /\ lock' = lock
  /\ UNCHANGED <<envDeploy, envState, state, acc, sucDate, deployer, hooks, crashes>>

\* Mutant of Leave: an early return skips the finally block.
LeaveLocked(w) ==
  /\ worker' = [worker EXCEPT ![w] = IdleWorker]
  /\ lock' = lock

Leave(w) ==
  /\ worker' = [worker EXCEPT ![w] = IdleWorker]
  /\ lock' = [lock EXCEPT ![worker[w].deploy] = Free]

\* Read the deploy row; return when it is missing or not active.
ReadDeploy(w) ==
  LET d == worker[w].deploy IN
  /\ worker[w].pc = "read"
  /\ \/ /\ state[d] \in ActiveStates
        /\ worker' = [worker EXCEPT ![w] =
             [@ EXCEPT !.pc = "decide", !.state = state[d], !.suc = sucDate[d]]]
        /\ lock' = lock
     \/ state[d] \notin ActiveStates /\ Leave(w)
  /\ UNCHANGED <<envDeploy, envState, state, acc, sucDate, deployer, hooks, crashes>>

\* Mutant of Decide: a missing environ is not read.
DecideWithoutEnviron(w) ==
  LET me == worker[w]
      d == me.deploy IN
  /\ me.pc = "decide"
  /\ \/ /\ me.env # d
        /\ worker' = [worker EXCEPT ![w] = [@ EXCEPT !.pc = "retire"]]
        /\ hooks' = hooks
     \/ /\ me.env = d
        /\ \E enough, tooMany, stalled \in BOOLEAN :
             worker' = [worker EXCEPT ![w] = [@ EXCEPT
               !.pc = "write", !.next = ProposedState(me.state, enough, tooMany, stalled)]]
        /\ hooks' = [hooks EXCEPT ![d] =
             IF worker'[w].next = "SUCCEEDING" /\ ~me.suc THEN @ + 1 ELSE @]
  /\ UNCHANGED <<envDeploy, envState, state, acc, sucDate, lock, deployer, crashes>>

\* The environ is the one passed, or read now. Another deploy is current:
\* retire this one. Else count the agents, and at the first success submit
\* the post-deploy webhooks.
Decide(w) ==
  LET me == worker[w]
      current == IF me.env = NoDeploy THEN envDeploy ELSE me.env
      d == me.deploy IN
  /\ me.pc = "decide"
  /\ \/ /\ current # d
        /\ worker' = [worker EXCEPT ![w] = [@ EXCEPT !.pc = "retire"]]
        /\ hooks' = hooks
     \/ /\ current = d
        /\ \E enough, tooMany, stalled \in BOOLEAN :
             worker' = [worker EXCEPT ![w] = [@ EXCEPT
               !.pc = "write", !.next = ProposedState(me.state, enough, tooMany, stalled)]]
        /\ hooks' = [hooks EXCEPT ![d] =
             IF worker'[w].next = "SUCCEEDING" /\ ~me.suc THEN @ + 1 ELSE @]
  /\ UNCHANGED <<envDeploy, envState, state, acc, sucDate, lock, deployer, crashes>>

\* An update by id, whatever the row holds by now.
Retire(w) ==
  LET d == worker[w].deploy IN
  /\ worker[w].pc = "retire"
  /\ state' = [state EXCEPT ![d] = IF Exists(d) THEN FinalState(worker[w].state) ELSE @]
  /\ Leave(w)
  /\ UNCHANGED <<envDeploy, envState, acc, sucDate, deployer, hooks, crashes>>

\* Mutant of Write: the update is not conditional on the state read.
WriteBlindly(w) ==
  LET d == worker[w].deploy IN
  /\ worker[w].pc = "write"
  /\ state' = [state EXCEPT ![d] = IF Exists(d) THEN worker[w].next ELSE @]
  /\ sucDate' = [sucDate EXCEPT ![d] = @ \/ worker[w].next = "SUCCEEDING"]
  /\ Leave(w)
  /\ UNCHANGED <<envDeploy, envState, acc, deployer, hooks, crashes>>

\* updateStateSafely: UPDATE ... WHERE deploy_id=? AND state=<the state read>.
\* When neither the state nor a counter changed there is no update.
Write(w) ==
  LET me == worker[w]
      d == me.deploy
      first == me.next = "SUCCEEDING" /\ ~me.suc IN
  /\ me.pc = "write"
  /\ \/ /\ state[d] = me.state
        /\ state' = [state EXCEPT ![d] = me.next]
        /\ sucDate' = [sucDate EXCEPT ![d] = @ \/ first]
        /\ acc' = [acc EXCEPT ![d] = IF ~first THEN @
                                     ELSE IF AcceptType = "AUTO" THEN "ACCEPTED" ELSE "OUTSTANDING"]
     \/ /\ state[d] # me.state \/ me.next = me.state
        /\ UNCHANGED <<state, sucDate, acc>>
  /\ Leave(w)
  /\ UNCHANGED <<envDeploy, envState, deployer, hooks, crashes>>

\* The process dies: its connection closes and MySQL drops the lock.
Crash(w) ==
  /\ worker[w].pc # "idle"
  /\ crashes < MaxCrashes
  /\ crashes' = crashes + 1
  /\ worker' = [worker EXCEPT ![w] = IdleWorker]
  /\ lock' = [d \in Deploys |-> IF lock[d] = w THEN Free ELSE lock[d]]
  /\ UNCHANGED <<envDeploy, envState, state, acc, sucDate, deployer, hooks>>

-----------------------------------------------------------------------------
(***************************************************************************)
(* Users and DeployJanitor.                                                *)
(***************************************************************************)

\* EnvironHandler.pause and resume
PauseOrResume ==
  /\ envState' = IF envState = "NORMAL" THEN "PAUSED" ELSE "NORMAL"
  /\ UNCHANGED <<envDeploy, state, acc, sucDate, lock, deployer, worker, hooks, crashes>>

\* PUT /deploys/{id} writes every field the body carries, unguarded.
Put(d) ==
  /\ Exists(d)
  /\ \/ \E verdict \in Verdicts : acc' = [acc EXCEPT ![d] = verdict]
        /\ state' = state
     \/ \E s \in PutStates : state' = [state EXCEPT ![d] = s]
        /\ acc' = acc
  /\ UNCHANGED <<envDeploy, envState, sucDate, lock, deployer, worker, hooks, crashes>>

\* Mutant of JanitorDelete: deploys in use are not spared.
JanitorDeleteAny(d) ==
  /\ Exists(d)
  /\ state' = [state EXCEPT ![d] = "GONE"]
  /\ UNCHANGED <<envDeploy, envState, acc, sucDate, lock, deployer, worker, hooks, crashes>>

\* DELETE_UNUSED_DEPLOYS: one statement, deploys no environ refers to.
JanitorDelete(d) ==
  /\ Exists(d)
  /\ envDeploy # d
  /\ state' = [state EXCEPT ![d] = "GONE"]
  /\ UNCHANGED <<envDeploy, envState, acc, sucDate, lock, deployer, worker, hooks, crashes>>

\* DELETE /deploys/{id} does not look whether the deploy is current.
RestDelete(d) ==
  /\ AllowDelete
  /\ Exists(d)
  /\ state' = [state EXCEPT ![d] = "GONE"]
  /\ UNCHANGED <<envDeploy, envState, acc, sucDate, lock, deployer, worker, hooks, crashes>>

DeployerStep(p) == ReadEnv(p) \/ ReadOld(p) \/ \E d \in Deploys : Commit(p, d)
WorkerStep(w) == Acquire(w) \/ ReadDeploy(w) \/ Decide(w) \/ Retire(w) \/ Write(w)
UserStep(d) == Put(d) \/ JanitorDelete(d) \/ RestDelete(d)

Next ==
  \/ \E p \in Deployers : DeployerStep(p)
  \/ \E w \in Workers : PickCurrent(w) \/ RefreshProgress(w) \/ WorkerStep(w) \/ Crash(w)
  \/ PauseOrResume
  \/ \E d \in Deploys : UserStep(d)

Spec == Init /\ [][Next]_vars
-----------------------------------------------------------------------------
(***************************************************************************)
(* Properties.                                                             *)
(***************************************************************************)

DeployerRecord ==
  [pc : {"idle", "readOld", "commit"}, old : DeployId,
   state : DeployState \cup {"NONE"}, acc : AcceptanceStatus]
WorkerRecord ==
  [pc : {"idle", "lock", "read", "decide", "retire", "write"},
   deploy : DeployId, env : DeployId, state : DeployState \cup {"NONE"},
   suc : BOOLEAN, next : ActiveStates \cup {"NONE"}]

TypeOK ==
  /\ envDeploy \in DeployId
  /\ envState \in {"NORMAL", "PAUSED"}
  /\ state \in [Deploys -> DeployState \cup {"NONE", "GONE"}]
  /\ acc \in [Deploys -> AcceptanceStatus]
  /\ sucDate \in [Deploys -> BOOLEAN]
  /\ lock \in [Deploys -> Workers \cup {Free}]
  /\ deployer \in [Deployers -> DeployerRecord]
  /\ worker \in [Workers -> WorkerRecord]
  /\ hooks \in [Deploys -> Nat]
  /\ crashes \in Nat

\* The deploy an environment points at is never retired behind its back: not
\* by a deployer that read an older deploy_id, not by a worker that judged it
\* obsolete, not by the janitor (CommonHandler.internalTransition,
\* DeployHandler.internalDeploy, DBDeployDAOImpl.DELETE_UNUSED_DEPLOYS).
CurrentIsActive ==
  envDeploy # NoDeploy =>
    state[envDeploy] \in ActiveStates \cup (IF AllowDelete THEN {"GONE"} ELSE {})

\* A deploy in a final state is never revived, although a worker may still
\* hold the active state it read before the deploy was retired: the update is
\* conditional on that state (DBDeployDAOImpl.updateStateSafely).
FinalStaysFinal ==
  [][\A d \in Deploys : state[d] \in FinalStates => state'[d] \in FinalStates \cup {"GONE"}]_vars

\* SUCCEEDED, the state rollback searches for, is only ever given to a deploy
\* that once reached its success threshold, even when it is written by a
\* deployer or worker from a state read earlier.
SucceededHasDate ==
  \A d \in Deploys : state[d] \in {"SUCCEEDING", "SUCCEEDED"} => sucDate[d]

\* The post-deploy webhooks of a deploy are submitted once, and once more at
\* most for each worker that dies between submitting them and recording
\* suc_date (CommonHandler.transition, under STATE_TRANSITION-<deploy>).
HooksBounded == \A d \in Deploys : hooks[d] <= 1 + crashes

\* A lock is held by a thread that is still inside the critical section of that
\* deploy: no early return, lost update or crash leaves it taken, so that other
\* workers are kept out only as long as that thread runs (CommonHandler
\* .transitionDeployState, the finally block).
HeldInside ==
  \A d \in Deploys : lock[d] # Free =>
    /\ worker[lock[d]].deploy = d
    /\ worker[lock[d]].pc \in {"read", "decide", "retire", "write"}

\* CommonHandler: no deploy "which is not current but somehow not in the
\* final state. This should NOT happen".
NoOrphan == \A d \in Deploys : state[d] \in ActiveStates => envDeploy = d

\* As long as no two deployers overlap, the tables keep the promise of
\* DeployContract, whatever workers, crashes and the janitor do.
Over == {d \in Deploys : state[d] \in FinalStates \cup {"GONE"}}
Contract == INSTANCE DeployContract WITH current <- envDeploy, over <- Over
ImplementsContract == Contract!Spec
=============================================================================
