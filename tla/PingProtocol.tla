---------------------------- MODULE PingProtocol ----------------------------
(***************************************************************************)
(* The conversation between the deploy agents and the service about one    *)
(* environment. An agent reports in a ping, is told the next goal in the   *)
(* answer, works on it and reports again. The service keeps one row per    *)
(* host in the table agents; the rows limit how many hosts install at once *)
(* and are what deploys are judged by.                                     *)
(*                                                                         *)
(* A ping is handled by a thread of the service: PingHandler.ping() reads  *)
(* the environment, then the row, may ask for a seat under the lock        *)
(* DEPLOY-<env>, then writes. A client that waited for 30 s sends the ping *)
(* again or gives up, the thread of the old ping goes on. Every step is    *)
(* one access to the database, except that taking the lock and counting    *)
(* again are one step, and so are the last write and the answer: a lost    *)
(* answer is a client that stopped waiting just before.                    *)
(***************************************************************************)
EXTENDS GoalAnalyst, FiniteSets

CONSTANTS
  Hosts,
  Serving,      \* hosts that serve deploy 1 already
  MaxDeploy,    \* bound on the deploys of the environment, numbered from 1
  MaxParallel,  \* environs.max_parallel
  Rollbacks,    \* whether the environment is ever rolled back
  Slots,        \* bound on the pings of a host under way
  Ops,          \* what users, the janitor and LaunchEventCollector do in this run
  MaxOps,       \* bound on how often they do it
  Faults,       \* what may go wrong in this run: clients that do not wait (LATE), agents
                \* that die (CRASH), writes of the service that fail (WRITE), a status file
                \* that is not written or lost (DISK)
  MaxFaults     \* bound on how often it does

Deploys == 1..MaxDeploy
Deploy0 == Deploys \cup {NoDeploy}
Report == [deploy : Deploy0, alias : Deploy0, stage : DeployStage, status : AgentStatus]
Row    == [deploy : Deploy0, stage : DeployStage, state : AgentState, status : AgentStatus,
           first : BOOLEAN]
EnvRec == [deploy : Deploy0, onHold : BOOLEAN, alias : Deploy0]
Goal   == [op : {"NOOP", "DEPLOY", "STOP", "DELETE"}, deploy : Deploy0, alias : Deploy0,
           stage : DeployStage]
Plan   == [upd : Row \cup {Null}, cand : Row \cup {Null}, wait : BOOLEAN, goal : Goal,
           delete : BOOLEAN]
Thread == [pc : {"free", "new", "read", "seat", "occupy", "write"}, report : Report \cup {Null},
           env : EnvRec \cup {Null}, plan : Plan]
Agent  == [pc : {"asleep", "waiting", "running"}, why : {"start", "poll", "done", "fatal"},
           report : Report \cup {Null}, goal : Goal, slot : Slots \cup {Null}]

ASSUME PingAssumption ==
  /\ NoDeploy = 0
  /\ Serving \subseteq Hosts /\ (Serving # {} => MaxDeploy >= 1)
  /\ MaxDeploy \in Nat /\ MaxParallel \in Nat
  /\ MaxOps \in Nat /\ MaxFaults \in Nat
  /\ Rollbacks \in BOOLEAN
  /\ Ops \subseteq {"PAUSE_ENV", "CAPACITY", "EXPIRE", "PAUSED_BY_USER", "NORMAL", "RESET",
                    "UNREACHABLE", "STOP"}
  /\ Faults \subseteq {"LATE", "CRASH", "WRITE", "DISK"}
  \* A host that is STOPPED but no longer in state STOP would go on to the stage
  \* after STOPPED, which is null: what the database makes of that is not modelled.
  /\ "STOP" \in Ops => Ops \cap {"EXPIRE", "NORMAL", "UNREACHABLE"} = {} /\ Faults \subseteq {"WRITE"}
  /\ IsFiniteSet(Hosts)
  /\ Null \notin Report \cup Row \cup EnvRec \cup Slots \cup (Hosts \X Slots)

VARIABLES
  envDeploy,  \* environs.deploy_id
  alias,      \* deploys.alias, per deploy
  onHold,     \* environs.env_state is not NORMAL
  member,     \* hosts whose host or group belongs to the environment
  row,        \* table agents, per host
  lock,       \* GET_LOCK('DEPLOY-<env>'): <<host, slot>> of the holder
  ping,       \* threads in PingHandler.ping(), per host and slot
  agent,      \* the agent process, per host
  disk,       \* its status file, per host
  progress,   \* history: the deploy a host works on and how many of its stages succeeded
  stopped,    \* history: whether the STOPPING script succeeded
  faults, ops \* history: faults and operations so far

tables == <<envDeploy, alias, onHold, member>>
vars == <<tables, row, lock, ping, agent, disk, progress, stopped, faults, ops>>

Free == [pc |-> "free", report |-> Null, env |-> Null, plan |-> Nothing(Null)]
\* An agent that sleeps keeps nothing: it reads its status file when it wakes up.
Asleep == [pc |-> "asleep", why |-> "start", report |-> Null, goal |-> NOOP, slot |-> Null]

ServesFirst(h) ==
  [deploy |-> 1, stage |-> "SERVING_BUILD", state |-> "NORMAL", status |-> "SUCCEEDED",
   first |-> FALSE]
ReportsFirst(h) ==
  [deploy |-> 1, alias |-> NoDeploy, stage |-> "SERVING_BUILD", status |-> "SUCCEEDED"]

Init ==
  /\ envDeploy = IF Serving = {} THEN NoDeploy ELSE 1
  /\ alias = [d \in Deploys |-> NoDeploy]
  /\ onHold = FALSE
  /\ member = Hosts
  /\ row = [h \in Hosts |-> IF h \in Serving THEN ServesFirst(h) ELSE Null]
  /\ lock = Null
  /\ ping = [h \in Hosts |-> [i \in Slots |-> Free]]
  /\ agent = [h \in Hosts |-> Asleep]
  /\ disk = [h \in Hosts |-> IF h \in Serving THEN ReportsFirst(h) ELSE Null]
  /\ progress = [h \in Hosts |-> IF h \in Serving THEN [ids |-> {1}, done |-> Len(Stages)]
                                  ELSE [ids |-> {}, done |-> 0]]
  /\ stopped = [h \in Hosts |-> FALSE]
  /\ faults = 0
  /\ ops = 0

Fault(kind) == kind \in Faults /\ faults < MaxFaults /\ faults' = faults + 1
-----------------------------------------------------------------------------
(* The service: one ping of host h, handled in slot i. *)

\* getEnvsByHost and getEnvsByGroups; deploys.alias never changes.
ReadEnv(h, i) ==
  LET env == [deploy |-> envDeploy, onHold |-> onHold,
              alias  |-> IF envDeploy = NoDeploy THEN NoDeploy ELSE alias[envDeploy]] IN
  /\ ping[h][i].pc = "new"
  /\ ping' = [ping EXCEPT ![h][i] =
       [ping[h][i] EXCEPT !.pc = "read", !.env = IF h \in member THEN env ELSE Null]]
  /\ UNCHANGED <<tables, row, lock, agent, disk, progress, stopped, faults, ops>>

\* GET_DEPLOYING_TOTAL
Deploying == {h \in Hosts : /\ row[h] # Null
                            /\ row[h].stage # "SERVING_BUILD"
                            /\ row[h].state # "PAUSED_BY_USER"
                            /\ ~row[h].first}

\* getByHost, then GoalAnalyst decides. A candidate that has to wait asks for
\* a seat; a first deploy has one at once.
Analyse(h, i) ==
  LET plan == Process(ping[h][i].env, ping[h][i].report, row[h])
      next == IF plan.cand = Null \/ ~plan.wait THEN "write"
              ELSE IF plan.cand.first THEN "occupy" ELSE "seat" IN
  /\ ping[h][i].pc = "read"
  /\ ping' = [ping EXCEPT ![h][i] = [ping[h][i] EXCEPT !.plan = plan, !.pc = next, !.env = Null]]
  /\ UNCHANGED <<tables, row, lock, agent, disk, progress, stopped, faults, ops>>

\* Mutant of Seat: the lock is not asked for.
SeatUnlocked(h, i) ==
  LET p == ping[h][i] IN
  /\ p.pc = "seat"
  /\ ping' = [ping EXCEPT ![h][i] =
       IF Cardinality(Deploying) < MaxParallel THEN [p EXCEPT !.pc = "occupy"]
       ELSE [p EXCEPT !.pc = "write", !.plan = Nothing(p.plan.upd)]]
  /\ UNCHANGED <<tables, row, lock, agent, disk, progress, stopped, faults, ops>>

\* canDeploy: count, take the lock without waiting for it, count again. When
\* no seat is free or the lock is taken, the candidate is dropped.
Seat(h, i) ==
  LET p == ping[h][i] IN
  /\ p.pc = "seat"
  /\ \/ /\ lock = Null
        /\ Cardinality(Deploying) < MaxParallel
        /\ lock' = <<h, i>>
        /\ ping' = [ping EXCEPT ![h][i] = [p EXCEPT !.pc = "occupy"]]
     \/ /\ lock # Null \/ Cardinality(Deploying) >= MaxParallel
        /\ ping' = [ping EXCEPT ![h][i] = [p EXCEPT !.pc = "write", !.plan = Nothing(p.plan.upd)]]
        /\ lock' = lock
  /\ UNCHANGED <<tables, row, agent, disk, progress, stopped, faults, ops>>

\* No answer: the agent ends its round, but goes on with a running script.
NoAnswer(a) ==
  IF a.why = "poll" THEN [a EXCEPT !.pc = "running", !.why = "start", !.slot = Null] ELSE Asleep

\* Mutant of Occupy: the lock is kept.
OccupyLocked(h, i) ==
  /\ ping[h][i].pc = "occupy"
  /\ row' = [row EXCEPT ![h] = ping[h][i].plan.cand]
  /\ ping' = [ping EXCEPT ![h][i] = [ping[h][i] EXCEPT !.pc = "write"]]
  /\ UNCHANGED <<tables, lock, agent, disk, progress, stopped, faults, ops>>

\* Occupy one seat and release the lock. When the write fails, the candidate
\* is dropped; that of a first deploy takes the ping down with it.
Occupy(h, i) ==
  LET plan == ping[h][i].plan IN
  /\ ping[h][i].pc = "occupy"
  /\ lock' = IF lock = <<h, i>> THEN Null ELSE lock
  /\ \/ /\ row' = [row EXCEPT ![h] = plan.cand]
        /\ ping' = [ping EXCEPT ![h][i] = [ping[h][i] EXCEPT !.pc = "write"]]
        /\ UNCHANGED <<agent, faults>>
     \/ /\ ~plan.cand.first
        /\ Fault("WRITE")
        /\ ping' = [ping EXCEPT ![h][i] = [ping[h][i] EXCEPT !.pc = "write", !.plan = Nothing(plan.upd)]]
        /\ UNCHANGED <<row, agent>>
     \/ /\ plan.cand.first
        /\ Fault("WRITE")
        /\ ping' = [ping EXCEPT ![h][i] = Free]
        /\ agent' = IF agent[h].slot = i THEN [agent EXCEPT ![h] = NoAnswer(agent[h])] ELSE agent
        /\ row' = row
  /\ UNCHANGED <<tables, disk, progress, stopped, ops>>

\* What the agent does with an answer: serve_build and update_deploy_status.
\* After a fatal report it quits whatever the answer says.
Receive(a, goal) ==
  IF goal.op = "NOOP" \/ a.why = "fatal" THEN Asleep
  ELSE [Asleep EXCEPT !.pc = "running", !.goal = goal,
          !.report = [deploy |-> goal.deploy, alias |-> goal.alias, stage |-> goal.stage,
                      status |-> "UNKNOWN"]]

\* updateAgentsSafely and deleteAgentSafely, then the answer. A write that
\* fails is logged and the answer is sent all the same.
Write(h, i) ==
  LET plan == ping[h][i].plan
      bean == IF plan.cand # Null THEN plan.cand ELSE plan.upd IN
  /\ ping[h][i].pc = "write"
  /\ \/ /\ row' = IF bean # Null \/ plan.delete THEN [row EXCEPT ![h] = bean] ELSE row
        /\ faults' = faults
     \/ /\ bean # Null \/ plan.delete
        /\ row' = row
        /\ Fault("WRITE")
  /\ agent' = IF agent[h].slot = i THEN [agent EXCEPT ![h] = Receive(agent[h], plan.goal)] ELSE agent
  /\ ping' = [ping EXCEPT ![h][i] = Free]
  /\ UNCHANGED <<tables, lock, disk, progress, stopped, ops>>

-----------------------------------------------------------------------------
(* The agent of host h. *)

\* send_reports in slot i
Send(h, i, a) ==
  /\ ping[h][i].pc = "free"
  /\ ping' = [ping EXCEPT ![h][i] = [Free EXCEPT !.pc = "new", !.report = a.report]]
  /\ agent' = [agent EXCEPT ![h] = [a EXCEPT !.pc = "waiting", !.slot = i]]

\* load_status_file, then the first ping of serve_build.
Start(h) ==
  /\ agent[h].pc = "asleep"
  /\ \E i \in Slots : Send(h, i, [Asleep EXCEPT !.report = disk[h]])
  /\ UNCHANGED <<tables, row, lock, disk, progress, stopped, faults, ops>>

\* _update_ping_reports, then the ping. A status file that cannot be written,
\* which may leave it empty, is reported as a failure of the agent.
DumpAndSend(h, why, report) ==
  \E i \in Slots :
    \/ /\ disk' = [disk EXCEPT ![h] = report]
       /\ Send(h, i, [agent[h] EXCEPT !.why = why, !.report = report])
       /\ faults' = faults
    \/ /\ \E left \in {disk[h], Null} : disk' = [disk EXCEPT ![h] = left]
       /\ Send(h, i, [agent[h] EXCEPT !.why = why,
            !.report = IF report = Null THEN Null ELSE [report EXCEPT !.status = "TOO_MANY_RETRY"]])
       /\ Fault("DISK")

\* The executor reports while the script runs or waits for its next try.
Poll(h) ==
  /\ agent[h].pc = "running"
  /\ agent[h].goal.op # "DELETE"
  /\ \E status \in {"UNKNOWN", "SCRIPT_FAILED"} :
       DumpAndSend(h, "poll", [agent[h].report EXCEPT !.status = status])
  /\ UNCHANGED <<tables, row, lock, progress, stopped, ops>>

\* The stage of goal succeeded: it counts when the stage before it did too.
Advance(p, goal) ==
  LET ids  == {goal.deploy, goal.alias} \ {NoDeploy}
      here == {k \in 1..Len(Stages) : Stages[k] = goal.stage} IN
  CASE here = {1}                                                    -> [ids |-> ids, done |-> 1]
    [] here # {1} /\ ids \cap p.ids # {} /\ p.done + 1 \in here -> [ids |-> ids, done |-> p.done + 1]
    [] OTHER                                                         -> p

\* process_deploy ends, by success or for good; on DELETE the agent forgets the
\* environment.
Finish(h) ==
  LET a == agent[h] IN
  /\ a.pc = "running"
  /\ \/ /\ a.goal.op = "DELETE"
        /\ DumpAndSend(h, "done", Null)
        /\ UNCHANGED <<progress, stopped>>
     \/ /\ a.goal.op # "DELETE"
        /\ DumpAndSend(h, "done", [a.report EXCEPT !.status = "SUCCEEDED"])
        /\ progress' = [progress EXCEPT ![h] = Advance(progress[h], a.goal)]
        /\ stopped' = [stopped EXCEPT ![h] = stopped[h] \/ a.goal.stage = "STOPPING"]
     \/ /\ a.goal.op # "DELETE"
        /\ DumpAndSend(h, "fatal", [a.report EXCEPT !.status = "TOO_MANY_RETRY"])
        /\ UNCHANGED <<progress, stopped>>
  /\ UNCHANGED <<tables, row, lock, ops>>

\* What is left of the ping a client no longer waits for: nothing when the
\* request got lost, a late thread when only the answer did.
Abandon(h) ==
  LET i == agent[h].slot IN
  \/ ping' = ping
  \/ /\ i # Null
     /\ ping[h][i].pc = "new"
     /\ ping' = [ping EXCEPT ![h][i] = Free]

\* @retry in the client: the same report again, next to the late thread.
Retry(h) ==
  /\ agent[h].pc = "waiting"
  /\ Fault("LATE")
  /\ \E i \in Slots : Send(h, i, agent[h])
  /\ UNCHANGED <<tables, row, lock, disk, progress, stopped, ops>>

\* The client gives up.
GiveUp(h) ==
  /\ agent[h].pc = "waiting"
  /\ Fault("LATE")
  /\ Abandon(h)
  /\ agent' = [agent EXCEPT ![h] = NoAnswer(agent[h])]
  /\ UNCHANGED <<tables, row, lock, disk, progress, stopped, ops>>

\* The agent dies, perhaps while it rewrites its status file, and is started
\* again.
Crash(h) ==
  /\ agent[h].pc # "asleep"
  /\ Fault("CRASH")
  /\ Abandon(h)
  /\ agent' = [agent EXCEPT ![h] = Asleep]
  /\ \/ disk' = disk
     \/ agent[h].pc = "running" /\ "DISK" \in Faults /\ disk' = [disk EXCEPT ![h] = Null]
  /\ UNCHANGED <<tables, row, lock, progress, stopped, ops>>

-----------------------------------------------------------------------------
(* Users, SimpleAgentJanitor and LaunchEventCollector. *)

\* internalDeploy; a rollback names the deploy it goes back to.
NewDeploy ==
  /\ envDeploy < MaxDeploy
  /\ envDeploy' = envDeploy + 1
  /\ \E d \in IF Rollbacks THEN 0..envDeploy ELSE {NoDeploy} : alias' = [alias EXCEPT ![envDeploy'] = d]
  /\ UNCHANGED <<onHold, member, row, lock, ping, agent, disk, progress, stopped, faults, ops>>

Operate(op) == op \in Ops /\ ops < MaxOps /\ ops' = ops + 1

\* EnvironHandler.pause and resume
PauseEnv ==
  /\ Operate("PAUSE_ENV")
  /\ onHold' = ~onHold
  /\ UNCHANGED <<envDeploy, alias, member, row, lock, ping, agent, disk, progress, stopped, faults>>

\* Hosts or groups are added to the capacity of the stage or removed from it.
ChangeCapacity(h) ==
  /\ Operate("CAPACITY")
  /\ member' = IF h \in member THEN member \ {h} ELSE member \cup {h}
  /\ UNCHANGED <<envDeploy, alias, onHold, row, lock, ping, agent, disk, progress, stopped, faults>>

\* agentDAO.update and updateAgentById: users pause, resume and reset an agent,
\* LaunchEventCollector stops it, the janitor marks it unreachable.
SetState(h, state) ==
  /\ Operate(state)
  /\ row[h] # Null
  /\ row' = [row EXCEPT ![h].state = state]
  /\ UNCHANGED <<tables, lock, ping, agent, disk, progress, stopped, faults>>

\* deleteAllById: the janitor forgets a host that did not ping for long.
Expire(h) ==
  /\ Operate("EXPIRE")
  /\ row[h] # Null
  /\ row' = [row EXCEPT ![h] = Null]
  /\ UNCHANGED <<tables, lock, ping, agent, disk, progress, stopped, faults>>

PingStep(h, i) == ReadEnv(h, i) \/ Analyse(h, i) \/ Seat(h, i) \/ Occupy(h, i) \/ Write(h, i)
AgentStep(h) == Start(h) \/ Poll(h) \/ Finish(h)
AgentFault(h) == Retry(h) \/ GiveUp(h) \/ Crash(h)
Operation(h) ==
  \/ ChangeCapacity(h)
  \/ \E state \in AgentState : SetState(h, state)
  \/ Expire(h)

Next ==
  \/ \E h \in Hosts : AgentStep(h) \/ AgentFault(h) \/ Operation(h)
  \/ \E h \in Hosts, i \in Slots : PingStep(h, i)
  \/ NewDeploy
  \/ PauseEnv

Spec == Init /\ [][Next]_vars

\* The daemon pings for ever, threads of the service come to their end, and the
\* executor kills a script that runs for too long.
Fairness ==
  \A h \in Hosts :
    /\ WF_vars(Start(h))
    /\ SF_vars(Finish(h))
    /\ \A i \in Slots : WF_vars(PingStep(h, i))

FairSpec == Spec /\ Fairness
-----------------------------------------------------------------------------
(***************************************************************************)
(* Properties.                                                             *)
(***************************************************************************)
TypeOK ==
  /\ envDeploy \in Deploy0 /\ alias \in [Deploys -> Deploy0]
  /\ onHold \in BOOLEAN /\ member \subseteq Hosts
  /\ row \in [Hosts -> Row \cup {Null}]
  /\ lock \in (Hosts \X Slots) \cup {Null}
  /\ ping \in [Hosts -> [Slots -> Thread]]
  /\ agent \in [Hosts -> Agent]
  /\ disk \in [Hosts -> Report \cup {Null}]
  /\ progress \in [Hosts -> [ids : SUBSET Deploys, done : 0..Len(Stages)]]
  /\ stopped \in [Hosts -> BOOLEAN]
  /\ faults \in 0..MaxFaults /\ ops \in 0..MaxOps

\* PingHandler.canDeploy: "We should not allow more than parallelThreshold
\* hosts in install in the same time".
ParallelLimit == Cardinality(Deploying) <= MaxParallel

\* A host counted as succeeded for the current deploy (GET_SUCCEEDED_TOTAL) has
\* run every stage of it, or of the deploy it rolls back to, in order.
CountedIsInstalled ==
  \A h \in Hosts :
    row[h] # Null /\ row[h].stage = "SERVING_BUILD" /\ row[h].deploy = envDeploy =>
      /\ progress[h].ids \cap {envDeploy, alias[envDeploy]} # {}
      /\ progress[h].done >= Len(Stages) - 1

\* LaunchEventCollector: "Gracefully shut down services". LifecycleUpdator lets
\* a host go when its rows are in stage STOPPED.
StoppedWasStopping ==
  \A h \in Hosts : row[h] # Null /\ row[h].stage = "STOPPED" => stopped[h]

\* Case 1.3: an agent that "has a fatal failure, and should not be given any more
\* change to try" is not started again by a ping about the same deploy, unless
\* to uninstall it, as long as it has a status file to report from (case 2).
FailedStaysPaused ==
  [][\A h \in Hosts :
       row[h] # Null /\ row[h].state = "PAUSED_BY_SYSTEM" /\ row'[h] # Null
         /\ disk[h] # Null /\ ops' = ops
         => \/ row'[h].state \in {"PAUSED_BY_SYSTEM", "DELETE"}
            \/ row'[h].deploy # row[h].deploy]_vars

\* Every host of the environment comes to serve its deploy, unless a host was
\* paused after a fatal error or the environment is on hold.
Converges ==
  <>[](\/ onHold
       \/ \E h \in Hosts : row[h] # Null /\ row[h].state = "PAUSED_BY_SYSTEM"
       \/ envDeploy = NoDeploy
       \/ \A h \in member : row[h] # Null /\ row[h].stage = "SERVING_BUILD" /\ row[h].deploy = envDeploy)
=============================================================================
