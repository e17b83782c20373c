----------------------------- MODULE HealthCheck -----------------------------
(***************************************************************************)
(* The health checks of one group: a check launches a host of its own with *)
(* the AMI to be tried, waits until the deploys of the group serve on it,  *)
(* and lets it be terminated.  A check is a row of the table health_checks.*)
(*   - checkers: HealthChecker runs in every service process; a batch reads *)
(*     the rows that are not COMPLETED once, then works through these beans *)
(*     one by one under the lock HEALTHCHECK-<id> and never reads them     *)
(*     again, so what a checker works on may be old;                       *)
(*   - the inserter, the two REST calls that add checks, and the terminator,*)
(*     which reads its batch before its locks too.                         *)
(* What happens under one lock is one step where no other actor could tell. *)
(***************************************************************************)
EXTENDS Naturals, FiniteSets

CONSTANTS
  Checkers,   \* service processes that run HealthChecker
  MaxChecks,  \* bound: rows ever inserted
  MaxHosts,   \* bound: hosts ever launched by checks
  MaxAmi,     \* AMIs are numbered in the order of their publish_date
  Envs,       \* number of environments the group belongs to
  MaxFaults,  \* bound: crashes of a checker and updates that fail
  Null        \* a null column, and no value

Checks == 1..MaxChecks
Hosts  == 1..MaxHosts
Amis   == 1..MaxAmi

VARIABLES
  row,      \* health_checks, Null where nothing was inserted yet
  vm,       \* the hosts launched: the check they are for, what AWS says of
            \* them, and how far the agents on them are
  image,    \* groups.image_id, the AMI of the launch config
  scaling,  \* whether the scaling down event of the group is enabled
  batch,    \* the beans a checker still has to work through
  updating, \* the check for which a checker is about to update the launch config
  doomed,   \* the beans the terminator still has to work through
  faults    \* history: crashes and failed updates

vars == <<row, vm, image, scaling, batch, updating, doomed, faults>>

State  == {"INIT", "LAUNCHING", "PENDING_VERIFY", "COMPLETING", "COMPLETED"}
Status == {"UNKNOWN", "SUCCEEDED", "QUALIFIED", "FAILED", "TIMEOUT"}
Type   == {"TIME_TRIGGERED", "MANUALLY_TRIGGERED", "AMI_TRIGGERED"}
Bean   == [type: Type, ami: Amis, state: State, status: Status,
           host: Hosts \cup {Null}, terminated: BOOLEAN \cup {Null}]
Vm     == [check: Checks, aws: {"pending", "running", "gone"},
           agents: {"busy", "failed", "serving"}]

ASSUME HealthCheckAssumption ==
  /\ MaxChecks \in Nat /\ MaxHosts \in Nat /\ MaxFaults \in Nat
  /\ MaxAmi \in Nat \ {0} /\ Envs \in Nat \ {0}
  /\ Null \notin Nat \cup BOOLEAN \cup Status
  /\ Null \notin Bean /\ Null \notin Vm

NoBeans == [c \in Checks |-> Null]

Rows     == {c \in Checks : row[c] # Null}
Ongoing  == {c \in Rows : row[c].state # "COMPLETED"}
Launched == {h \in Hosts : vm[h] # Null}
Alive    == {h \in Launched : vm[h].aws # "gone"}

Init ==
  /\ row = NoBeans
  /\ vm = [h \in Hosts |-> Null]
  /\ image = 1
  /\ scaling = TRUE
  /\ batch = [w \in Checkers |-> NoBeans]
  /\ updating = [w \in Checkers |-> Null]
  /\ doomed = NoBeans
  /\ faults = 0

-----------------------------------------------------------------------------
(* Inserting checks: createHealthCheck adds one row for every environment, or for
   the one that is named. *)

NewCheck(type, ami) ==
  [type |-> type, ami |-> ami, state |-> "INIT", status |-> "UNKNOWN",
   host |-> Null, terminated |-> Null]

CreateHealthCheck(type, ami, envs) ==
  LET n == Cardinality(Rows) IN
  /\ n + envs <= MaxChecks
  /\ row' = [c \in Checks |-> IF c \in n + 1 .. n + envs THEN NewCheck(type, ami) ELSE row[c]]
  /\ UNCHANGED <<vm, image, scaling, batch, updating, doomed, faults>>

\* HealthCheckInserter, under HEALTHCHECK-GROUP-<group>.  Whether the last
\* regular check is longer ago than the period is left to the clock.
InsertRegular ==
  /\ \A c \in Ongoing : row[c].type # "TIME_TRIGGERED"
  /\ CreateHealthCheck("TIME_TRIGGERED", image, Envs)

\* POST /groups/{name}/healthcheck, and POST /images for a new AMI.
InsertManual  == \E n \in {1, Envs} : CreateHealthCheck("MANUALLY_TRIGGERED", image, n)
PublishAmi(a) == CreateHealthCheck("AMI_TRIGGERED", a, Envs)

-----------------------------------------------------------------------------
(* HealthChecker *)

\* Mutant of Moved: a status that is not given empties the column.
MovedNull(c, bean, newState, newStatus) ==
  LET old == row[c] IN
  [row EXCEPT ![c] = [old EXCEPT
    !.state = newState,
    !.status = newStatus,
    !.host = IF bean.host = Null THEN old.host ELSE bean.host,
    !.terminated = IF bean.terminated = Null THEN old.terminated ELSE bean.terminated]]

\* transistionState: columns the bean does not hold are left as they are.
Moved(c, bean, newState, newStatus) ==
  LET old == row[c] IN
  [row EXCEPT ![c] = [old EXCEPT
    !.state = newState,
    !.status = IF newStatus = Null THEN old.status ELSE newStatus,
    !.host = IF bean.host = Null THEN old.host ELSE bean.host,
    !.terminated = IF bean.terminated = Null THEN old.terminated ELSE bean.terminated]]

\* An update of the table that is carried out, or fails and is only logged.
Saved(newRow) ==
  \/ row' = newRow /\ UNCHANGED faults
  \/ faults < MaxFaults /\ faults' = faults + 1 /\ UNCHANGED row

\* processBatch: the beans are read once, when the batch begins.
Fetch(w) ==
  /\ batch[w] = NoBeans
  /\ Ongoing # {}
  /\ batch' = [batch EXCEPT ![w] = [c \in Checks |-> IF c \in Ongoing THEN row[c] ELSE Null]]
  /\ UNCHANGED <<row, vm, image, scaling, updating, doomed, faults>>

\* Checker w has the lock HEALTHCHECK-<c> and takes its bean of c.
Locked(c)  == \E w \in Checkers : updating[w] = c
Has(w, c, s) ==
  /\ updating[w] = Null
  /\ ~Locked(c)
  /\ batch[w][c] # Null
  /\ batch[w][c].state = s

Done(w, c) == batch' = [batch EXCEPT ![w][c] = Null]

\* getLock gave up: the bean is left for the next batch.
Skip(w, c) ==
  /\ updating[w] = Null /\ Locked(c) /\ batch[w][c] # Null
  /\ Done(w, c)
  /\ UNCHANGED <<row, vm, image, scaling, updating, doomed, faults>>

\* Only checks that were not triggered by an AMI touch the scaling of the group.
Disabled(bean) == IF bean.type = "AMI_TRIGGERED" THEN scaling ELSE FALSE
Enabled(bean)  == IF bean.type = "AMI_TRIGGERED" THEN scaling ELSE TRUE

\* Mutant of Timeout: a check that launched nothing yet is never timed out.
TimeoutLaunched(w, c) ==
  \E s \in State \ {"INIT", "COMPLETED"} :
    /\ Has(w, c, s)
    /\ Done(w, c)
    /\ scaling' = Disabled(batch[w][c])
    /\ Saved(Moved(c, batch[w][c], "COMPLETING", "TIMEOUT"))
    /\ UNCHANGED <<vm, image, updating, doomed>>

\* shouldTimeoutHealthCheck: the bean is in its state for half an hour.
Timeout(w, c) ==
  \E s \in State \ {"COMPLETED"} :
    LET bean == batch[w][c]
        next == IF s = "INIT" THEN "COMPLETED" ELSE "COMPLETING"
    IN /\ Has(w, c, s)
       /\ Done(w, c)
       /\ scaling' = Disabled(bean)
       /\ Saved(Moved(c, bean, next, "TIMEOUT"))
       /\ UNCHANGED <<vm, image, updating, doomed>>

\* Mutant of Launch: host_terminated stays null.
LaunchUnmarked(w, c) ==
  \E h \in Hosts :
    /\ Has(w, c, "INIT")
    /\ h = Cardinality(Launched) + 1
    /\ vm' = [vm EXCEPT ![h] = [check |-> c, aws |-> "pending", agents |-> "busy"]]
    /\ Done(w, c)
    /\ Saved(Moved(c, [batch[w][c] EXCEPT !.host = h], "LAUNCHING", "SUCCEEDED"))
    /\ UNCHANGED <<image, scaling, updating, doomed>>

\* processInitState: the host is launched, then the row is told of it.
Launch(w, c) ==
  \E h \in Hosts :
    LET bean == [batch[w][c] EXCEPT !.host = h, !.terminated = FALSE] IN
    /\ Has(w, c, "INIT")
    /\ h = Cardinality(Launched) + 1
    /\ vm' = [vm EXCEPT ![h] = [check |-> c, aws |-> "pending", agents |-> "busy"]]
    /\ Done(w, c)
    /\ Saved(Moved(c, bean, "LAUNCHING", "SUCCEEDED"))
    /\ UNCHANGED <<image, scaling, updating, doomed>>

\* launchEC2Instances answered with no host.
LaunchNothing(w, c) ==
  /\ Has(w, c, "INIT")
  /\ Done(w, c)
  /\ Saved(Moved(c, batch[w][c], "COMPLETED", "FAILED"))
  /\ UNCHANGED <<vm, image, scaling, updating, doomed>>

\* processLaunchingState: the host runs, and is not PROVISIONED for too long;
\* or it is, or AWS has terminated it.
Started(w, c) ==
  /\ Has(w, c, "LAUNCHING")
  /\ vm[batch[w][c].host].aws = "running"
  /\ Done(w, c)
  /\ Saved(Moved(c, batch[w][c], "PENDING_VERIFY", "SUCCEEDED"))
  /\ UNCHANGED <<vm, image, scaling, updating, doomed>>

NotStarted(w, c) ==
  /\ Has(w, c, "LAUNCHING")
  /\ vm[batch[w][c].host].aws # "pending"
  /\ Done(w, c)
  /\ Saved(Moved(c, batch[w][c], "COMPLETING", "FAILED"))
  /\ UNCHANGED <<vm, image, scaling, updating, doomed>>

\* processPendingVerifyState: what the agents of the host came to.
Qualify(w, c) ==
  /\ Has(w, c, "PENDING_VERIFY")
  /\ vm[batch[w][c].host].agents = "serving"
  /\ Done(w, c)
  /\ Saved(Moved(c, batch[w][c], "COMPLETING", "QUALIFIED"))
  /\ UNCHANGED <<vm, image, scaling, updating, doomed>>

Disqualify(w, c) ==
  /\ Has(w, c, "PENDING_VERIFY")
  /\ vm[batch[w][c].host].agents = "failed"
  /\ Done(w, c)
  /\ scaling' = Disabled(batch[w][c])
  /\ Saved(Moved(c, batch[w][c], "COMPLETING", "FAILED"))
  /\ UNCHANGED <<vm, image, updating, doomed>>

\* Nothing to tell yet, or launchEC2Instances raised: the bean stays as it is.
Wait(w, c) ==
  /\ \/ Has(w, c, "INIT")
     \/ Has(w, c, "LAUNCHING") /\ vm[batch[w][c].host].aws = "pending"
     \/ Has(w, c, "PENDING_VERIFY") /\ vm[batch[w][c].host].agents = "busy"
  /\ Done(w, c)
  /\ UNCHANGED <<row, vm, image, scaling, updating, doomed, faults>>

\* Mutant of NewerAmi: the outcome of the check is not looked at.
NewerAmiAny(bean) == bean.type # "TIME_TRIGGERED" /\ bean.ami > image

\* processCompletingState.  The AMI of the group was read with the group; only
\* a newer one is put in its place, under UPDATEAMI-<group>.
NewerAmi(bean) ==
  /\ bean.status = "QUALIFIED"
  /\ bean.type # "TIME_TRIGGERED"
  /\ bean.ami > image

Complete(w, c) ==
  /\ Has(w, c, "COMPLETING")
  /\ scaling' = IF batch[w][c].status = "QUALIFIED" THEN Enabled(batch[w][c]) ELSE scaling
  /\ IF NewerAmi(batch[w][c])
     THEN /\ updating' = [updating EXCEPT ![w] = c]
          /\ UNCHANGED <<row, batch, faults>>
     ELSE /\ Done(w, c)
          /\ Saved(Moved(c, batch[w][c], "COMPLETED", Null))
          /\ UNCHANGED updating
  /\ UNCHANGED <<vm, image, doomed>>

\* The launch config takes the AMI, or the lock or AWS refuses; either way the
\* check is COMPLETED.
UpdateLaunchConfig(w) ==
  LET c == updating[w] IN
  /\ c # Null
  /\ image' \in {image, batch[w][c].ami}
  /\ Done(w, c)
  /\ updating' = [updating EXCEPT ![w] = Null]
  /\ Saved(Moved(c, batch[w][c], "COMPLETED", Null))
  /\ UNCHANGED <<vm, scaling, doomed>>

Crash(w) ==
  /\ faults < MaxFaults
  /\ batch[w] # NoBeans
  /\ faults' = faults + 1
  /\ batch' = [batch EXCEPT ![w] = NoBeans]
  /\ updating' = [updating EXCEPT ![w] = Null]
  /\ UNCHANGED <<row, vm, image, scaling, doomed>>

-----------------------------------------------------------------------------
(* HealthCheckHostTerminator *)

Unterminated == {c \in Rows \ Ongoing : row[c].terminated = FALSE}

Select ==
  /\ doomed = NoBeans
  /\ Unterminated # {}
  /\ doomed' = [c \in Checks |-> IF c \in Unterminated THEN row[c] ELSE Null]
  /\ UNCHANGED <<row, vm, image, scaling, batch, updating, faults>>

\* A host is pending for less than the two hours it is retained for.
Terminate(c) ==
  LET h == doomed[c].host IN
  /\ doomed[c] # Null
  /\ vm[h].aws # "pending"
  /\ vm' = [vm EXCEPT ![h].aws = "gone"]
  /\ doomed' = [doomed EXCEPT ![c] = Null]
  /\ Saved([row EXCEPT ![c].terminated = TRUE])
  /\ UNCHANGED <<image, scaling, batch, updating>>

\* The host of a check that did not qualify is kept for two hours; a call to AWS
\* may raise.
Retain(c) ==
  /\ doomed[c] # Null
  /\ IF doomed[c].status # "QUALIFIED"
     THEN UNCHANGED faults
     ELSE faults < MaxFaults /\ faults' = faults + 1
  /\ doomed' = [doomed EXCEPT ![c] = Null]
  /\ UNCHANGED <<row, vm, image, scaling, batch, updating>>

-----------------------------------------------------------------------------
(* AWS, and the agents on the hosts: no ping yet or a deploy under way, a deploy
   that failed, all deploys serving.  The agents' rows outlive the host. *)

Boot(h) ==
  /\ h \in Launched
  /\ vm[h].aws = "pending"
  /\ \E s \in {"running", "gone"} : vm' = [vm EXCEPT ![h].aws = s]
  /\ UNCHANGED <<row, image, scaling, batch, updating, doomed, faults>>

Stop(h) ==
  /\ h \in Launched
  /\ vm[h].aws = "running"
  /\ vm' = [vm EXCEPT ![h].aws = "gone"]
  /\ UNCHANGED <<row, image, scaling, batch, updating, doomed, faults>>

Agents(h) ==
  /\ h \in Launched
  /\ vm[h].aws = "running"
  /\ vm[h].agents = "busy"
  /\ \E a \in {"failed", "serving"} : vm' = [vm EXCEPT ![h].agents = a]
  /\ UNCHANGED <<row, image, scaling, batch, updating, doomed, faults>>

-----------------------------------------------------------------------------
Process(w, c) ==
  \/ Launch(w, c) \/ LaunchNothing(w, c) \/ Started(w, c) \/ NotStarted(w, c)
  \/ Qualify(w, c) \/ Disqualify(w, c) \/ Wait(w, c) \/ Complete(w, c)

CheckerStep(w) ==
  \/ Fetch(w) \/ UpdateLaunchConfig(w)
  \/ \E c \in Checks : Skip(w, c) \/ Timeout(w, c) \/ Process(w, c)

TerminatorStep == Select \/ \E c \in Checks : Terminate(c) \/ Retain(c)

Next ==
  \/ InsertRegular
  \/ InsertManual
  \/ \E a \in Amis \ {1} : PublishAmi(a)
  \/ \E w \in Checkers : CheckerStep(w) \/ Crash(w)
  \/ TerminatorStep
  \/ \E h \in Hosts : Boot(h) \/ Stop(h) \/ Agents(h)

Spec == Init /\ [][Next]_vars

\* The schedulers run the checker and the terminator again and again, and every
\* batch ends.  A check that stays in one state is one day found timed out.  As this starts its clock
\* again, and batches are minutes apart, a check in COMPLETING does not time out
\* for ever.  AWS boots or drops a pending instance, and the two hours of a
\* retained host pass.
FairSpec ==
  /\ Spec
  /\ \A w \in Checkers : WF_vars(Fetch(w)) /\ []<>(batch[w] = NoBeans)
  /\ \A c \in Checks : SF_vars(\E w \in Checkers : Timeout(w, c))
  /\ <>[][\A w \in Checkers, c \in Checks : ~(Has(w, c, "COMPLETING") /\ Timeout(w, c))]_vars
  /\ WF_vars(Select) /\ []<>(doomed = NoBeans)
  /\ \A c \in Checks : SF_vars(Terminate(c))
  /\ \A h \in Hosts : WF_vars(Boot(h))

-----------------------------------------------------------------------------
TypeOK ==
  /\ row \in [Checks -> Bean \cup {Null}]
  /\ vm \in [Hosts -> Vm \cup {Null}]
  /\ image \in Amis /\ scaling \in BOOLEAN
  /\ batch \in [Checkers -> [Checks -> Bean \cup {Null}]]
  /\ updating \in [Checkers -> Checks \cup {Null}]
  /\ doomed \in [Checks -> Bean \cup {Null}]
  /\ faults \in 0..MaxFaults

\* A group gets a new AMI only after the deploys served on a host launched with
\* it, whatever checkers with old beans write over each other
\* (HealthChecker.processCompletingState).
AmiWasVerified ==
  image # 1 => \E h \in Launched : vm[h].agents = "serving" /\ row[vm[h].check].ami = image

\* Every check that is inserted comes to COMPLETED and stays: beans read before
\* the lock may take a row back, but not for ever (HealthChecker.processBatch).
ChecksSettle == <>[](Ongoing = {})

\* In the end no host is left running that a row names, unless the check launched
\* several: then its row can only name one (processInitState,
\* HealthCheckHostTerminator.processBatch).
HostsTerminated ==
  <>[](\A h \in Alive : row[vm[h].check].host = h
         => \E g \in Launched \ {h} : vm[g].check = vm[h].check)
=============================================================================
