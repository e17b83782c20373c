# Teletraan in TLA+

Teletraan deploys builds to fleets of hosts. A Java service keeps the state of
every deploy in MySQL, a pool of workers moves deploys through their states, and
a Python agent on every host pings the service, is told what to do next, does it
and reports. This directory holds a model of the parts of it that decide what is
deployed where, the TLC runs that check the model on small instances, and proofs
that hold for instances of every size.

Paths below are relative to the repository (`src/`). `S` stands for
`deploy-service/common/src/main/java/com/pinterest/deployservice`, `T` for
`deploy-service/teletraanservice/src/main/java/com/pinterest/teletraan` and `A`
for `deploy-agent/deployd`.

## 1. Inventory

| Part | State | Operations | Talks to | What makes it correct |
|---|---|---|---|---|
| Deploy life cycle (`S/handler/DeployHandler`, `CommonHandler`, `T/worker/StateTransitioner`, `DeployJanitor`, `T/resource/EnvDeploys`, `Deploys`) | tables `deploys` (state, acc_status, suc_date, counters) and `environs.deploy_id` | deploy, promote, rollback, restart (all end in `internalDeploy`); transition; review; janitor; delete | several service processes over one database; locks by `GET_LOCK`; webhooks | one current deploy per environment, every other one final; final states final; SUCCEEDED only after the threshold; webhooks once |
| Ping protocol (`S/handler/PingHandler`, `GoalAnalyst`) | table `agents`, a row per host and environment | `ping` | agents (REST, retried), tables, the lock `DEPLOY-<env>` | at most `max_parallel` hosts install; a counted host has installed; a failed host stays paused; every host converges |
| Deploy agent (`A/agent.py`, `client`, `common/executor`, `env_status`) | status file, running script | serve loop, scripts, ping while a script runs | the service | resumes where it stopped after a crash; runs stages in order |
| Environments and capacity (`S/handler/EnvironHandler`, `DBEnvironDAOImpl`, `DBGroupDAOImpl`) | `environs`, `hosts_and_envs`, `groups_and_envs` | pause, resume, add and remove hosts and groups, CRUD of stages | both of the above read it | deploys and pings see a consistent environment |
| Auto promotion (`T/worker/AutoPromoter`) | table `promotes`; `environs`, `deploys` of two stages | read, judge, pick a candidate, promote under the lock; fail policies (disable, roll back) | `DeployHandler`, lock `PROMOTE-<env>`, users | never promotes over a deploy it did not judge; stops when it was switched off; promotes in the end; a failed deploy is dealt with |
| Hotfix worker (`T/worker/HotfixStateTransitioner`) | table `hotfixes` | INITIAL, PUSHING, BUILDING, SUCCEEDED, FAILED | Jenkins, which calls back with job numbers | each job is started once; its number is not lost |
| Health checks (`T/worker/HealthChecker`, `HealthCheckInserter`, `HealthCheckHostTerminator`) | table `health_checks` | launch a host, wait, verify, terminate | AWS, host and agent tables | one host per check, terminated in the end |
| Host lifecycle (`T/worker/LaunchEventCollector`, `LifecycleUpdator`, `HostTerminator`, `AgentJanitor`) | table `hosts` | launch, stop, remove | queues of AWS, `agents` | a host is let go after its services were stopped |
| Staging and download (`A/staging/stager.py`, `A/download`, `A/common/helper.py`) | files and links of a host | download, verify, mark, switch | file system; scripts that the executor starts and kills | no part of a build is ever served; a staged host serves the build of its deploy |
| Builds, source control, configuration history, notifications, ratings, authorization, autoscaling, board, tools | tables and external services | CRUD, calls | | see "Not modelled" |

What is hard here: nothing serialises deployers; rows are read, judged and
written in separate statements; a retried ping leaves a second service thread at
work for the same host; answers get lost after the row was written; agents crash
between running a script and reporting it; scripts are killed half-way, or outlive
their agent. `PROJECT.json` lists each such place
under "hazards" with the properties that look at it.

## 2. Modules

| Module | Models |
|---|---|
| `DeployStates` | deploy and acceptance states, `FINAL_STATE_TRANSITION_MAP`, and `CommonHandler.transition` as the set of states it may propose |
| `DeployLifecycle` | the tables of one environment, deployer threads, worker threads with their lock, reviews, janitor, deletes, crashes |
| `DeployContract` | the abstract promise: one current deploy, replaced in one step, never revived |
| `DeployLifecycleProofs` | the inductive invariant and the theorems |
| `GoalAnalyst` | `GoalAnalyst.process` case by case, a pure operator from (environment, report, row) to a plan |
| `PingProtocol` | `PingHandler.ping` in its database accesses, the agent's loop, the client's retries, faults, users and janitors |
| `PingProofs` | the invariant of `PingProtocol`, what a step does to one host, type correctness |
| `PingHaltProofs`, `PingSeatProofs`, `PingInstallProofs` | hosts that stand still; the limit on parallel installations; what a counted host has run |
| `HealthCheck` | the health checks of one group: `HealthChecker`, `HealthCheckInserter`, `HealthCheckHostTerminator`, and their hosts |
| `HealthCheckProofs` | its invariant and theorems |
| `Promotion` | `AutoPromoter` threads beside users, reviews, pauses and the janitor, for one environment and the stage before it |
| `PromotionProofs` | its invariant and theorems |
| `Staging` | the downloads, the copies and the links on one host, file operation by file operation |
| `StagingProofs` | its invariant and theorems |
| `MCDeployLifecycle`, `MCPingProtocol`, `MCStaging` | constants and symmetry for TLC |

### DeployLifecycle

One environment. `envDeploy` is `environs.deploy_id`; `state`, `acc` and
`sucDate` are columns of `deploys`; `lock` is `GET_LOCK('STATE_TRANSITION-..')`.
A deployer is a thread in `internalDeploy`: `ReadEnv`, `ReadOld`, then `Commit`,
which is the code's one transaction and writes what was read before. A worker
goes through `PickCurrent` (or `RefreshProgress`, the REST call that runs the
same code), `Acquire`, `ReadDeploy`, `Decide`, then `Retire` or `Write`. `Decide`
replaces the agent counts by the outcome of the three threshold tests
(`ProposedState`); `Write` is the compare-and-set of `updateStateSafely`.
`Crash` drops a worker; its connection, and with it the lock, goes too.
`Put`, `JanitorDelete`, `RestDelete` and `PauseOrResume` are single statements.

Bounds: `Deploys` (each is used once), `Deployers`, `Workers`, `MaxCrashes`. Two
of each suffice for every conflict of two threads over one row; three deploys
let a thread hold a value two deploys old. `hooks` and `crashes` are history.
A lock that nobody gives back would keep every worker out: `HeldInside` says that
its holder is between `Acquire` and `Leave`.

### GoalAnalyst and PingProtocol

One environment, so an agent's response names at most this one. `row` is the
table `agents`, `disk` the status file, `agent` the process and `ping` the
service threads that work for a host. A thread reads the environment
(`ReadEnv`), reads the row and decides (`Analyse`), asks for a seat (`Seat`:
lock and recount), occupies it (`Occupy`), writes and answers (`Write`). An agent
starts from its file (`Start`), runs a stage (`Finish`), reports while it runs
(`Poll`). `Retry` sends the same report again beside the late thread, `GiveUp`
ends the round, `Crash` also may leave the status file empty. A failed database
write and a failed write of the status file are faults inside their actions.
`Faults` says which kinds of fault a run or a theorem is about: clients that do
not wait for the answer (`LATE`), agents that die (`CRASH`), writes of the service
that fail (`WRITE`), a status file that is not written or lost (`DISK`).

Abstractions: error codes, messages, timestamps and script variables are left
out; the retries of a script are the choice between success and a fatal failure
in `Finish`; the canary of `first_deploy_time` is left out. A host that is
STOPPED but was put back to another state goes to "the stage after STOPPED",
which is null; what the database makes of that column is not modelled, hence the
assumption on `Ops`.

Bounds: `MaxDeploy` deploys (4 with rollbacks: a deploy, a rollback, a deploy
that replaces it and one to forget it), `Slots` pings per host (2: the late one
and its retry), `MaxFaults`, `MaxOps`. `ShortStages` keeps the first stage, one
with a script and the last; the proofs are about any stages. `progress` and
`stopped` are history.

### HealthCheck

One group, with health checks enabled. `row` is the table `health_checks`, `vm`
what AWS and the agents make of the hosts launched, `image` and `scaling` the
AMI and the scaling-down switch of the group. `batch` holds the beans of a
checker: `Fetch` reads all rows that are not COMPLETED, and every later step
judges the bean, not the row, under `HEALTHCHECK-<id>`; `Moved` is
`transistionState`, which writes only the columns the bean has. All a checker
does under one lock is one step, except between comparing two AMIs (`Complete`)
and writing the launch config (`UpdateLaunchConfig`); a crash between a call to
AWS and the update of the row has the same effect as an update that fails
(`Saved`). An inserted check is `TIME_TRIGGERED` (`InsertRegular`), manual or for
a new AMI. `Timeout` leaves the half hour to the clock, `Retain` the two hours.
Alerts, and the times at which a deploy started and ended, are left out.

Bounds: `MaxChecks`, `MaxHosts` (2: a second checker with an old bean launches
again), `MaxAmi`, `MaxFaults`. One check suffices for checkers that work against
each other, since they share nothing but the row; two are needed for the
scaling switch.

### Promotion

One environment ("mine") that promotes deploys of the stage before it ("pred").
`row` is the table `deploys` of both, by start date; `promoteType` is
`promotes.type`; `lock` is `GET_LOCK('PROMOTE-..')`; `thread` holds what a
promoter or a user has read. A round of `processOnce` is `ReadEnv`,
`ReadPromotes`, `Judge` (leave the current deploy, go on, or apply the fail policy),
`Pick` (the oldest of the `QueueSize` newest candidates), `SafePromote` (lock and
second look at the environ) and `Deploy` (`internalDeploy`, which users share). A
failed deploy leads to `Disable`, or to `Search` (`getLastSucceededDeploy`),
`Deploy` without a lock, and `Disable`. Policies and the kind of user request are
choices. The agent counts behind `Progress` are replaced by their outcome, as in
`DeployLifecycle`; here `internalDeploy` reads and retires the old deploy in one step,
since what may happen between the two is the subject there.

Left out: builds in place of a pred stage, the cron schedule (a further early return),
delayed candidates, rollbacks of the pred stage, users who name a deploy of a third
stage. `ops` bounds what users, reviewers, janitor and crashes do; `late`, `by`,
`old` are history.

Bounds: two promoters, a user, five deploys (two of mine and three of pred, or the
other way round), one operation: the lock and the second look are about two
threads, and each property needs one disturbance. More would not end in time.

### Staging

One host. `war[e][b]` is the content of `e_b.war`, `marker[b]` the file
`b.extracted`, `served[e]` the copy `e.war`, `link[e]` the target. A file that was
truncated and not yet written to its end has the script writing it as content.
The two scripts are the one the agent waits for and one that outlived an agent
(`os.setsid`, so `Crash` leaves it running). The steps are the file operations of
`downloader.py`, `http_download_helper.py` and `stager.py`, in their order; `Die`
ends a script at any of them: the kill of the executor, or a failure. The
retries and the limit of `run_cmd` are `Begin` again. `stage` is what the service
would ask for next; stages with scripts of the service owner are skipped.
`s3_download_helper.py` is the case that always has a checksum. The early return
of `enable_package` is never taken: `get_enabled_build` yields the file name
`e.war`, which is compared with the name of a build. `os.rename` of the link onto
itself does nothing, so the switch is not atomic: between `Unlink` and `Link` the
host has no target. `clean_stale_builds` looks for directories and finds none of
these files; they stay on the disk for ever. The transformer looks for a directory
below the target, which is a file.

Bounds: two environments with two builds each of their own, or with one build
in common; three deploys, three faults. Environments meet in the markers only,
deploys in the files of one environment, and a fault stops a script at any step.

## 3. Runs

| Run | Instance | Shows |
|---|---|---|
| LifecycleDeployers | 3 deploys, 2 deployers, 1 worker, REST deletes (4 M states) | the current deploy is active, SUCCEEDED was earned, final is final |
| LifecycleWorkers | 2 deploys, 1 deployer, 2 workers, 1 crash, reviews (1.3 M) | the inductive invariant; hooks once plus once per crash; locks are held at work only; no orphan; DeployContract is implemented |
| PingParallel | 2 serving hosts, 1 seat, 2 operations, 1 failed write (1.3 M) | no more than `max_parallel` install |
| PingFaults | 1 new host, 2 deploys, 2 faults (not `DISK`), 1 operation (2.1 M) | a counted host has run every stage in order |
| PingRollback | 1 host, 4 deploys with rollbacks, 2 operations (1.9 M) | the same; STOPPED follows a successful STOPPING script; a failed host stays paused |
| PingLive | 2 hosts, 2 deploys, 1 fault of any kind, fairness (600 k) | a counted host has run its stages; every host converges or is paused by a fatal error |
| HealthChecks | 2 checkers, 1 check, 2 hosts, 1 fault, fairness (500 k) | checks come to an end, named hosts are terminated, a new AMI was seen to serve |
| LifecycleOrphan | 2 deployers | **violated**: two deployers that overlap leave an active deploy that is not current |
| PingRace | 2 hosts, 1 retry | **violated**: the late thread of a retried ping frees a seat in use, a second host takes it |
| Promotion | 2 promoters, 1 user, 5 dates, 1 operation, fairness (1.5 M) | a deploy is promoted over once; one late promotion; promotions and failures are dealt with in the end |
| Staging | 2 environments with builds of their own, 3 deploys, 3 faults, fairness (1.7 M) | no part of a build is served; staged means served; every deploy is staged in the end |
| StagingShared | 2 environments, 1 build | **violated**: the second environment finds the marker of the first and downloads nothing |

Each violated property quotes a line of the repository (see "findings").

The passing runs say what they leave out: `ParallelLimit` is stated without
retries (PingRace), lost answers, STOP, EXPIRE, and users who unpause a
host, all of which put a host back to installing without a seat;
`StoppedWasStopping` without faults, since after a lost answer to STOP the next
report of SERVING_BUILD is taken as the end of STOPPING; `CountedIsInstalled` fails with two faults of which one loses
the status file and the other leaves a late thread (the agent starts again from the
first stage, the late thread writes SERVING_BUILD): PingFaults leaves `DISK` out,
PingLive has one fault of any kind.

Seen in the model and not kept as a run: a deploy orphaned by two deployers is
cleaned up only by a worker that picked it while it was current
(`StateTransitioner` passes current deploys only); `internalDeploy` writes
TERMINATED over a review that arrived after it read the old deploy; a ping under
way overwrites the pause or stop a user asked for (`Analyse` reads, `Write`
writes); a status file that cannot be written makes the agent report an older
success, and a failed host starts again. A second health checker with an old bean
launches a second host for the check, and the row names only one of them;
`HostsTerminated` leaves such checks out. Two checkers with checks for two AMIs
compare publish dates before they take `UPDATEAMI-<group>`, so the older AMI may
be written last. `launchEC2Instances` raises when AWS refuses, so the check stays
in INIT until it times out, and the branch of `processInitState` that the comment
above it describes is taken only on an empty answer.
The check of one environment of a group enables scaling down while that of another
is under way, even one that has failed and disabled it: `HealthCheckInserter`
tests once and then inserts a check for every environment of the group. The alias of a
rollback stays in the agent's report, so the goal of a later regular deploy may
name the deploy rolled back from or to (`PingHandler.java:436`).

Of promotion: a rollback takes no lock and does not look at the environ again, so it
may replace what a user deployed since; when `rollback` throws, promotion is not disabled and
the next round tries again; when the page of ten has no SUCCEEDED deploy,
`getLastSucceededDeploy` asks for the same page for ever (it never puts the
index into its filter), and the promoter serves no other environment any more. `FailureHandled` and
`Promotes` say what they need. When the janitor has deleted the source of the
current deploy, every round of the promoter ends in an exception.

Of staging: after an agent died under its script (`crashed`) two scripts write the same
files, and an old one may put its build in place after the new one reported
success; the safety invariants stop there, `Staged` does not. Without
checksums (no `.sha1` at the store) an error page is marked and served.
When two environments share a build (StagingShared), the second fails in
STAGING until something else writes its file.

## 4. Fairness

`PingProtocol`: the daemon pings for ever (`WF(Start)`); a service thread comes
to its end (`WF(PingStep)`); the executor kills a script after its timeout, so a
stage ends however often it is polled (`SF(Finish)`).
`HealthCheck`: batches are started at a fixed rate and end; a check that stays in
one state is found timed out one day (`SF(Timeout)`), which starts its clock
again, so that COMPLETING does not time out for ever; a pending instance boots or
goes; a retained host's two hours pass. `Promotion`: the scheduler runs `AutoPromoter` at a fixed rate, so a promoter starts a
round again and again while the environment is NORMAL (`RoundsStart`) and each ends
(`RoundsEnd`), except in the search, which only a SUCCEEDED deploy on its page ends
(`WF(Search)`). `Staging`: the agent goes on to begin what is to be done
(`WF(Begin)`) and its script comes to an end, or is killed (`WF(Step)`); a script that
outlived its agent has no fairness. No fairness for users, new deploys or faults,
which are bounded. `DeployLifecycle` is checked for safety only.

## 5. Proofs

`DeployLifecycleProofs` proves, for every number of deploys, deployers, workers
and crashes, assuming `LifecycleAssumption` and that no client sends a state in
PUT (`PutStates = {}`): `TypeCorrect`, `CurrentStaysActive`, `SucceededWasDated`,
`HooksSubmittedOnce`, `FinalIsFinal`, `LocksHeldInside`; if no two deployers overlap (`Serial`) also
`SerialNoOrphan`; if in addition nobody deletes over REST,
`SerialImplementsContract`.

`CurrentIsActive` is not inductive: a worker could hold a decision that retires
the current deploy. `IInv` adds what the threads remember. A worker that is to
retire a deploy saw the environment point at another one, and, since a deploy is
inserted and made current in one transaction and its id is never used again, a
deploy that is once not current stays so (`Obsolete`). A deployer's
snapshot of the old deploy is a state it really had, so that
the final state it will write is earned (`Snapshots`, `Remembered`);
`Locking` says who is between `Acquire` and `Leave`; `Inserted` that a deploy
not yet inserted appears nowhere; `Budget` relates the hooks of a deploy to its
date, the lock holder's decision and the crashes. The serial
theorems carry `NoOrphan` along: the one deployer's snapshot of the environment
is still what the environment says. LifecycleWorkers checks `IInv` with TLC.

`PingProofs` proves `TypeCorrect` for every number of hosts, deploys, stages,
threads, operations and faults, whatever the kinds of fault, from
`StagesAssumption` and `PingAssumption`. A type is not inductive here: the stage after a stage might
be null. `IInv` says of every host (`Sane`) that its row, its agent, its file and
its threads speak of deploys that exist, that a plan has a candidate exactly when
it tells the agent to work (`PlanOK`), and that an agent at work reports about its goal
(`AgentOK`). When clients wait for their answers (`Prompt`: no fault but `WRITE`)
it adds `OnTime`: at most one thread works for a host, and it works from what the
agent says and keeps (`Alone`); who reports that it stops does so because the row still asks
for it (`StopAsked`), so that nobody asks for the stage after STOPPED.
`Outcomes` lists what a ping may decide; `Effects` says, once for the three modules
that follow, what any step does to one host. They carry an invariant about one host each:

- `ParallelLimited` (`ParallelLimit`), if clients wait and no host is expired,
  paused by a user or stopped (`Steady`); writes may fail. The count alone is not inductive: a
  thread might write an installation over a row that was not counted. `ThreadSeat`
  says that whatever a thread may still write without a seat is already counted,
  `RowSeat` that a host that reports a stage of an installation has a row that says so, `LockInv`
  that the lock belongs to the thread that is about to write, and `Limit` that a
  seat is free while it does. Without `Steady` the limit fails: PingRace (`LATE`); a row
  that was deleted or paused comes back to the count; a lost file makes the agent install again.
- `CountedInstalled` (`CountedIsInstalled`), if clients wait and not both writes fail
  and hosts are stopped (`Waiting`). What the row says depends on what was run, under either of the two
  names a deploy has after a rollback: `Ran` ties the report to `progress`,
  `CandInst` the candidate to the stages before it, `PlanInst` the
  bean of the report to the report, `Dated` and `Latest` say that of the two names the one of the
  environment is the later, so that swapping them (`PingHandler.java:421`) keeps the
  deploy that was run. `Waiting` is needed: if the write of STOPPING and the one
  after a reset both fail, the row serves while the agent starts again.
- `StoppedIsStopped` (`StoppedWasStopping`) and `FailedPaused`
  (`FailedStaysPaused`), if nothing fails (`Faults = {}`). `NotYet` and `NotPlanned` say that before STOPPING
  succeeded nobody reports or plans a later stage; `FailedIs` and `PausePlanned` that a paused row belongs to
  a report of the fatal failure under one of the deploy's names, and that no thread
  holds a decision made before it. With `LATE`, `CRASH`
  or `DISK` faults TLC finds `FailedStaysPaused` violated; with `WRITE` faults a row keeps the
  stage STOPPING or the pause while the agent is already told to go on to something else.

`PromotionProofs` proves `TypeCorrect`, `PromotedOnce` and `AtMostOneLate` for every number
of promoters, users, deploys and operations, assuming `PromotionAssumption`.
`ReplacedOnce` alone is not inductive: the next promotion might be over
a deploy that was already replaced. `Ordered` says that dates only grow, so what a
row calls its old deploy is older than the row and never the current deploy; `Locking`,
that who is past the second look has the lock and that nobody has
promoted over its deploy, which at the second look was the current one; `Disarmed`,
that after a late promotion no promoter is left whose judgement is about the current deploy, so that
none passes its second look; `UsersApart`, that users bring no promotions.

`HealthCheckProofs` proves `TypeCorrect` and `AmiIsVerified` (`AmiWasVerified`) for every number of
checkers, checks, hosts, AMIs, environments and faults, assuming `HealthCheckAssumption`.
`AmiWasVerified` alone is not inductive: a checker judges a bean, and the bean might
claim a verdict no host gave. `Good` says what holds of every bean, in the table or
in a worker's hands, however old: its AMI is that of its check, its host was
launched for its check, and QUALIFIED means that some host of the check has
served; beans keep it because rows and hosts are never given back and never change
what they are for (`Keeps`, from `Numbered`). So checkers may write old beans over newer
rows, but only between beans that are all `Good` (`Judged`).

`StagingProofs` proves `TypeCorrect` unconditionally and, if environments deploy
builds of their own (`Apart`) and builds have checksums (`Checksums`),
`TargetStaysWhole`, `DoneStaysServed`, `DownloadedStaysWhole`, for every number of
environments, builds, deploys and faults. The invariant is `Calm` until an agent dies under
its script: what the running script has already done (`ChildOK`: between the removal
of the old link and the new one there is none), that a marker stands for a
complete file (`Marked`), and that a link leads to a complete copy (`Files`).
Both assumptions are needed, as StagingShared and the error pages show; the code ensures neither.

## 6. Only model-checked

All liveness
(`Converges`, `ChecksSettle`, `HostsTerminated`, `Promotes`, `FailureHandled`, `Staged`), which
the provers cannot reason about under fairness; refinement in runs with REST deletes;
`CountedIsInstalled` with late threads and crashes (PingFaults), where `Alone` does not hold and
two threads of a host may write over each other.

## 7. Not modelled, and why

Builds, source control, configuration history, ratings and most REST resources
are single-statement CRUD. Webhooks, chat, mail, events, AWS and the autoscaling
workers are calls to services whose behaviour is not in this repository, and the
host life cycle is mostly a copy of what AWS says. The deploy board is a user interface
over the REST API; the JavaScript of the repository is vendored libraries of that
interface (swagger-ui, DataTables, x-editable, marked) and a little glue, none of which holds
state of the system, so no module is about it: the system itself is the Java
service and the Python agent. Authorization is a pure check in front of every
resource. The hotfix worker waits for Jenkins, and everything it promises depends on
jobs that call back; its hazard is listed in `PROJECT.json`.

## 8. Left to do

1. A proof of `CountedIsInstalled` with late threads and crashes.
2. `PingProtocol` with two environments per host (candidates, priorities).
3. `Hotfix`: the hotfix worker and Jenkins.
4. Promotion of builds, delayed candidates, and rollbacks of the stage before.
5. The host table: launch events, STOP, LifecycleUpdator, termination.
