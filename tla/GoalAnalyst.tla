----------------------------- MODULE GoalAnalyst -----------------------------
(***************************************************************************)
(* What one ping decides about one host and one environment: the case      *)
(* analysis of GoalAnalyst.process(), a pure function of                   *)
(*   env     the environment, or Null when the host does not belong to it: *)
(*           [deploy, alias, onHold], where alias is the deploy a rollback *)
(*           goes back to and NoDeploy for every other type of deploy;     *)
(*   report  what the agent says, or Null: [deploy, alias, stage, status]; *)
(*   row     the agents row of the host, or Null:                          *)
(*           [deploy, stage, state, status, first].                        *)
(***************************************************************************)
EXTENDS Naturals, Sequences

CONSTANTS
  Null,       \* a missing bean
  NoDeploy,   \* a null deploy id
  Stages      \* the stages of an installation that are told apart, in order

InstallStages == {Stages[i] : i \in 1..Len(Stages)}
DeployStage   == InstallStages \cup {"STOPPING", "STOPPED"}
FirstStage    == Stages[1]

ASSUME StagesAssumption ==
  /\ Stages \in Seq(STRING)
  /\ Len(Stages) >= 2
  /\ \A i, j \in 1..Len(Stages) : Stages[i] = Stages[j] => i = j
  /\ Stages[1] = "PRE_DOWNLOAD"
  /\ Stages[Len(Stages)] = "SERVING_BUILD"
  /\ InstallStages \cap {"STOPPING", "STOPPED"} = {}

\* AGENT_FAILED, SCRIPT_TIMEOUT, RUNTIME_MISMATCH are TOO_MANY_RETRY here: the
\* analysis only asks whether a status is fatal.
FatalStatus == {"TOO_MANY_RETRY"}
AgentStatus == {"SUCCEEDED", "UNKNOWN", "SCRIPT_FAILED"} \cup FatalStatus
AgentState  == {"NORMAL", "PAUSED_BY_SYSTEM", "PAUSED_BY_USER", "RESET",
                "DELETE", "UNREACHABLE", "STOP"}

\* Mutant of NextStage: the last entry of the map is missing.
NextStageShort(stage) ==
  CASE stage \in {Stages[Len(Stages) - 1], "SERVING_BUILD", "STOPPED"} -> Null
    [] stage = "STOPPING" -> "STOPPED"
    [] OTHER -> Stages[1 + CHOOSE i \in 1..Len(Stages) : Stages[i] = stage]

\* DEPLOY_STAGE_TRANSITION_MAP; there is nothing after SERVING_BUILD and STOPPED.
NextStage(stage) ==
  CASE stage \in {"SERVING_BUILD", "STOPPED"} -> Null
    [] stage = "STOPPING"                     -> "STOPPED"
    [] OTHER -> Stages[1 + CHOOSE i \in 1..Len(Stages) : Stages[i] = stage]

-----------------------------------------------------------------------------
(* The beans a case proposes for the agents table. *)

\* proposeNewAgentState: what a user asked for is not overridden.
NewState(report, row) ==
  CASE row # Null /\ row.state \in {"STOP", "PAUSED_BY_USER", "RESET"} -> row.state
    [] OTHER -> CASE report.status = "SUCCEEDED"      -> "NORMAL"
                  [] report.status \in FatalStatus    -> "PAUSED_BY_SYSTEM"
                  [] OTHER -> IF row = Null THEN "NORMAL" ELSE row.state

\* genUpdateBeanByReport
ByReport(report, row) ==
  [deploy |-> report.deploy, stage |-> report.stage, state |-> NewState(report, row),
   status |-> report.status,
   first  |-> row # Null /\ row.first /\ report.stage # "SERVING_BUILD"]

\* genNextStageUpdateBean
NextBean(report, row) ==
  [ByReport(report, row) EXCEPT !.stage = NextStage(report.stage), !.state = "NORMAL",
                                !.status = "UNKNOWN"]

\* genNewUpdateBean, for a host that has no other stage of this environment
NewBean(env, row) ==
  [deploy |-> env.deploy, stage |-> FirstStage, state |-> "NORMAL", status |-> "UNKNOWN",
   first  |-> row = Null \/ row.first]

\* genAgentStopBean
StopBean(env, row) ==
  [deploy |-> env.deploy, stage |-> "STOPPING", state |-> "STOP", status |-> "UNKNOWN",
   first  |-> row.first]

\* genNextStopStageBean
NextStopBean(report, row) ==
  [ByReport(report, row) EXCEPT !.stage = NextStage(row.stage), !.state = "STOP",
                                !.status = "UNKNOWN"]

-----------------------------------------------------------------------------
(* The decision: upd is the bean written when no goal is given (Null: no   *)
(* write), cand the bean of the install candidate, wait whether it has to  *)
(* ask for a seat, goal the answer, delete whether the row is removed.     *)

NOOP == [op |-> "NOOP", deploy |-> NoDeploy, alias |-> NoDeploy, stage |-> FirstStage]

Nothing(upd) == [upd |-> upd, cand |-> Null, wait |-> FALSE, goal |-> NOOP, delete |-> FALSE]

\* generateInstallResponse: a report that names an alias gets both ids swapped.
Install(env, report, upd, cand, wait) ==
  LET swapped == report # Null /\ report.alias # NoDeploy IN
  [Nothing(upd) EXCEPT
     !.cand = cand, !.wait = wait,
     !.goal = [op     |-> IF cand.state = "STOP" /\ cand.stage = "STOPPING" THEN "STOP" ELSE "DEPLOY",
               deploy |-> IF swapped THEN report.alias ELSE env.deploy,
               alias  |-> IF swapped THEN env.deploy ELSE NoDeploy,
               stage  |-> cand.stage]]

\* A host that serves a build, by its report and by its row, has to wait.
Serves(report, row) ==
  report.stage = "SERVING_BUILD" /\ (row = Null \/ row.stage = "SERVING_BUILD")

\* Mutant of ProcessStop: any report ends the stage STOPPING.
ProcessStopAnyReport(env, report, row, upd) ==
  CASE row.stage # "STOPPING" -> Install(env, report, upd, StopBean(env, row), FALSE)
    [] row.stage = "STOPPING" /\ row.status \in FatalStatus -> Nothing(upd)
    [] row.stage = "STOPPING" /\ row.status \notin FatalStatus ->
         IF report # Null
         THEN Install(env, report, upd, NextStopBean(report, row), FALSE)
         ELSE Install(env, report, upd, row, FALSE)

\* Case 0.4: the agent is told to STOP.
ProcessStop(env, report, row, upd) ==
  CASE row.stage # "STOPPING"    -> Install(env, report, upd, StopBean(env, row), FALSE)
    [] row.stage = "STOPPING" /\ row.status \in FatalStatus -> Nothing(upd)
    [] row.stage = "STOPPING" /\ row.status \notin FatalStatus ->
         IF report # Null /\ report.status = "SUCCEEDED"
         THEN Install(env, report, upd, NextStopBean(report, row), FALSE)
         ELSE Install(env, report, upd, row, FALSE)

\* Mutant of Transform: any report is taken for one about the rollback.
TransformAny(env, report) ==
  IF env.deploy # report.deploy /\ env.alias # NoDeploy
  THEN [report EXCEPT !.deploy = env.deploy, !.alias = env.alias] ELSE report

\* transformRollbackDeployId: a report about the deploy that env goes back to
\* counts as one about env's own deploy.
Transform(env, report) ==
  IF env.deploy # report.deploy /\ env.alias # NoDeploy /\ env.alias = report.deploy
  THEN [report EXCEPT !.deploy = env.deploy, !.alias = env.alias] ELSE report

\* Mutants of SameDeploy: a stage that is not done counts as done; case 1.3 is
\* missing.
SameDeployUndone(env, report, row) ==
  LET upd == ByReport(report, row) IN
  CASE report.stage = "SERVING_BUILD" -> Nothing(upd)
    [] report.stage # "SERVING_BUILD" /\ report.status \notin FatalStatus ->
         Install(env, report, upd, NextBean(report, row), FALSE)
    [] OTHER -> Nothing(upd)
SameDeployRetry(env, report, row) ==
  LET upd == ByReport(report, row) IN
  CASE report.stage = "SERVING_BUILD" -> Nothing(upd)
    [] report.stage # "SERVING_BUILD" /\ report.status = "SUCCEEDED" ->
         Install(env, report, upd, NextBean(report, row), FALSE)
    [] OTHER -> Install(env, report, upd, upd, FALSE)

\* Cases 1.1 to 1.4: a report about env's deploy.
SameDeploy(env, report, row) ==
  LET upd == ByReport(report, row) IN
  CASE report.stage = "SERVING_BUILD" -> Nothing(upd)
    [] report.stage # "SERVING_BUILD" /\ report.status = "SUCCEEDED" ->
         Install(env, report, upd, NextBean(report, row), FALSE)
    [] report.stage # "SERVING_BUILD" /\ report.status # "SUCCEEDED" ->
         IF upd.state = "PAUSED_BY_SYSTEM" THEN Nothing(upd)
         ELSE Install(env, report, upd, upd, FALSE)

\* Case 1: the host belongs to env and reports. In cases 1.0 and 1.5 it starts
\* from the first stage.
ProcessReport(env, rawReport, row) ==
  LET report == Transform(env, rawReport)
      upd    == ByReport(report, row) IN
  IF report.deploy # env.deploy \/ upd.state = "RESET"
  THEN Install(env, report, upd, NewBean(env, row), Serves(report, row))
  ELSE SameDeploy(env, report, row)

Process(env, report, row) ==
  LET upd     == IF report = Null THEN Null ELSE ByReport(report, row)
      onHold  == \/ env # Null /\ (env.deploy = NoDeploy \/ env.onHold)
                 \/ row # Null /\ row.state = "PAUSED_BY_USER"
                 \/ row # Null /\ row.state = "STOP" /\ row.stage = "STOPPED"
      stopped == row # Null /\ row.state = "STOP"
  IN
  CASE onHold                                       -> Nothing(upd)
    [] ~onHold /\ env # Null /\ stopped             -> ProcessStop(env, report, row, upd)
    [] ~onHold /\ env # Null /\ ~stopped /\ report # Null -> ProcessReport(env, report, row)
    [] ~onHold /\ env # Null /\ ~stopped /\ report = Null ->
         Install(env, report, upd, NewBean(env, row), row = Null \/ row.stage = "SERVING_BUILD")
    [] ~onHold /\ env = Null /\ report # Null       ->
         [Nothing([upd EXCEPT !.state = "DELETE"]) EXCEPT
            !.goal = [op |-> "DELETE", deploy |-> report.deploy, alias |-> NoDeploy,
                      stage |-> report.stage]]
    [] ~onHold /\ env = Null /\ report = Null       -> [Nothing(upd) EXCEPT !.delete = row # Null]
=============================================================================
