----------------------------- MODULE PingProofs -----------------------------
(***************************************************************************)
(* The conversation between agents and service, for any number of hosts,   *)
(* deploys, stages, threads, operations and faults: what its decisions     *)
(* are, the invariant that makes them sane, and type correctness. What a   *)
(* step does to one host (Effect) is stated here once: PingHaltProofs,     *)
(* PingSeatProofs and PingInstallProofs show that theirs survives it.      *)
(***************************************************************************)
EXTENDS PingProtocol, TLAPS

(***************************************************************************)
(* The operators of GoalAnalyst.                                           *)
(***************************************************************************)
Sticky     == {"STOP", "RESET", "PAUSED_BY_USER"}
StopStages == {"STOPPING", "STOPPED"}

LEMMA NextStageOfInstall ==
  ASSUME NEW s \in InstallStages, s # "SERVING_BUILD"
  PROVE  NextStage(s) \in InstallStages
<1>1. PICK k \in 1..Len(Stages) : Stages[k] = s
  BY DEF InstallStages
<1> DEFINE i == CHOOSE j \in 1..Len(Stages) : Stages[j] = s
<1>2. i \in 1..Len(Stages) /\ Stages[i] = s
  BY <1>1
<1>3. Len(Stages) \in Nat
  BY StagesAssumption
<1>4. i # Len(Stages)
  BY <1>2, StagesAssumption
<1>5. 1 + i \in 1..Len(Stages)
  BY <1>2, <1>3, <1>4
<1>6. s \notin {"SERVING_BUILD", "STOPPED", "STOPPING"}
  BY StagesAssumption
<1>7. NextStage(s) = Stages[1 + i]
  BY <1>6 DEF NextStage
<1> QED BY <1>5, <1>7 DEF InstallStages

LEMMA NextStageOfStop == NextStage("STOPPING") = "STOPPED"
BY DEF NextStage

LEMMA FirstStageIs == FirstStage \in InstallStages /\ FirstStage # "SERVING_BUILD"
<1>1. Len(Stages) \in Nat /\ Len(Stages) >= 2
  BY StagesAssumption
<1>2. 1 \in 1..Len(Stages) /\ Stages[1] # Stages[Len(Stages)]
  BY <1>1, StagesAssumption
<1> QED BY <1>2, StagesAssumption DEF FirstStage, InstallStages

\* What the analysis is about: the state of a bean in the words of the report.
Upd(report, x) == IF report = Null THEN Null ELSE ByReport(report, x)

(***************************************************************************)
(* The outcomes of Process, one by one, p being the plan for the row x.    *)
(***************************************************************************)
HeldPlan(report, x, p) == p = Nothing(Upd(report, x))

StopPlan(env, report, x, p) ==
  /\ env # Null /\ env.deploy # NoDeploy /\ x # Null /\ x.state = "STOP"
  /\ \/ x.stage # "STOPPING" /\ p = Install(env, report, Upd(report, x), StopBean(env, x), FALSE)
     \/ /\ x.stage = "STOPPING" /\ report # Null /\ report.status = "SUCCEEDED"
        /\ p = Install(env, report, Upd(report, x), NextStopBean(report, x), FALSE)
     \/ x.stage = "STOPPING" /\ p = Install(env, report, Upd(report, x), x, FALSE)

\* The report counts as t, the host starts from the first stage.
RestartPlan(env, report, x, p) ==
  LET t == Transform(env, report) IN
  /\ t.deploy # env.deploy \/ (x # Null /\ x.state = "RESET")
  /\ p = Install(env, t, ByReport(t, x), NewBean(env, x), Serves(t, x))

\* The report counts as t, which is about the deploy of env.
SamePlan(env, report, x, p) ==
  LET t == Transform(env, report) IN
  /\ t.deploy = env.deploy /\ ~(x # Null /\ x.state = "RESET")
  /\ \/ t.stage = "SERVING_BUILD" /\ p = Nothing(ByReport(t, x))
     \/ /\ t.stage # "SERVING_BUILD" /\ t.status = "SUCCEEDED"
        /\ p = Install(env, t, ByReport(t, x), NextBean(t, x), FALSE)
     \/ /\ t.stage # "SERVING_BUILD" /\ t.status # "SUCCEEDED"
        /\ ByReport(t, x).state = "PAUSED_BY_SYSTEM"
        /\ p = Nothing(ByReport(t, x))
     \/ /\ t.stage # "SERVING_BUILD" /\ t.status # "SUCCEEDED"
        /\ ByReport(t, x).state # "PAUSED_BY_SYSTEM"
        /\ p = Install(env, t, ByReport(t, x), ByReport(t, x), FALSE)

\* A report about an environment the host does not leave.
ReportPlan(env, report, x, p) ==
  /\ env # Null /\ env.deploy # NoDeploy /\ report # Null
  /\ x = Null \/ x.state \notin {"STOP", "PAUSED_BY_USER"}
  /\ RestartPlan(env, report, x, p) \/ SamePlan(env, report, x, p)

FreshPlan(env, report, x, p) ==
  /\ env # Null /\ env.deploy # NoDeploy /\ report = Null
  /\ p = Install(env, Null, Null, NewBean(env, x), x = Null \/ x.stage = "SERVING_BUILD")

LeavePlan(env, report, x, p) ==
  /\ env = Null
  /\ \/ /\ report # Null
        /\ p = [Nothing([ByReport(report, x) EXCEPT !.state = "DELETE"]) EXCEPT
                  !.goal = [op |-> "DELETE", deploy |-> report.deploy, alias |-> NoDeploy,
                            stage |-> report.stage]]
     \/ report = Null /\ p = [Nothing(Null) EXCEPT !.delete = x # Null]

\* Whatever a ping decides is one of these outcomes.
LEMMA Outcomes ==
  ASSUME NEW env, NEW report, NEW x, NEW p, p = Process(env, report, x)
  PROVE  \/ HeldPlan(report, x, p) \/ StopPlan(env, report, x, p)
         \/ ReportPlan(env, report, x, p) \/ FreshPlan(env, report, x, p)
         \/ LeavePlan(env, report, x, p)
<1> DEFINE held    == \/ env # Null /\ (env.deploy = NoDeploy \/ env.onHold)
                      \/ x # Null /\ x.state = "PAUSED_BY_USER"
                      \/ x # Null /\ x.state = "STOP" /\ x.stage = "STOPPED"
           stops == x # Null /\ x.state = "STOP"
           upd == Upd(report, x)
<1>1. CASE held
  <2>1. p = Nothing(upd)
    BY <1>1 DEF Process, Upd
  <2> QED BY <2>1 DEF HeldPlan
<1>2. CASE ~held /\ env # Null /\ stops
  <2>1. p = ProcessStop(env, report, x, upd)
    BY <1>2 DEF Process, Upd
  <2>2. CASE x.stage # "STOPPING"
    BY <1>2, <2>1, <2>2 DEF ProcessStop, StopPlan
  <2>3. CASE x.stage = "STOPPING" /\ x.status \in FatalStatus
    BY <1>2, <2>1, <2>3 DEF ProcessStop, HeldPlan
  <2>4. CASE x.stage = "STOPPING" /\ x.status \notin FatalStatus
    BY <1>2, <2>1, <2>4 DEF ProcessStop, StopPlan
  <2> QED BY <2>2, <2>3, <2>4
<1>3. CASE ~held /\ env # Null /\ ~stops /\ report # Null
  <2> DEFINE t == Transform(env, report)
  <2>1. p = ProcessReport(env, report, x)
    BY <1>3 DEF Process
  <2>2. (ByReport(t, x).state = "RESET") <=> (x # Null /\ x.state = "RESET")
    BY DEF ByReport, NewState
  <2>3. CASE t.deploy # env.deploy \/ ByReport(t, x).state = "RESET"
    BY <1>3, <2>1, <2>2, <2>3 DEF ProcessReport, ReportPlan, RestartPlan
  <2>4. CASE ~(t.deploy # env.deploy \/ ByReport(t, x).state = "RESET")
    <3> DEFINE u == ByReport(t, x)
    <3>1. p = SameDeploy(env, t, x)
      BY <2>1, <2>4 DEF ProcessReport
    <3>2. \/ t.stage = "SERVING_BUILD" /\ p = Nothing(u)
          \/ t.stage # "SERVING_BUILD" /\ t.status = "SUCCEEDED"
             /\ p = Install(env, t, u, NextBean(t, x), FALSE)
          \/ t.stage # "SERVING_BUILD" /\ t.status # "SUCCEEDED"
             /\ u.state = "PAUSED_BY_SYSTEM" /\ p = Nothing(u)
          \/ t.stage # "SERVING_BUILD" /\ t.status # "SUCCEEDED"
             /\ u.state # "PAUSED_BY_SYSTEM" /\ p = Install(env, t, u, u, FALSE)
      <4> HIDE DEF t
      <4> QED BY <3>1 DEF SameDeploy
    <3>3. SamePlan(env, report, x, p)
      BY <2>2, <2>4, <3>2 DEF SamePlan
    <3> QED BY <1>3, <3>3 DEF ReportPlan
  <2> QED BY <2>3, <2>4
<1>4. CASE ~held /\ env # Null /\ ~stops /\ report = Null
  <2>1. p = Install(env, Null, Null, NewBean(env, x), x = Null \/ x.stage = "SERVING_BUILD")
    BY <1>4 DEF Process
  <2> QED BY <1>4, <2>1 DEF FreshPlan
<1>5. CASE ~held /\ env = Null /\ report # Null
  BY <1>5 DEF Process, LeavePlan
<1>6. CASE ~held /\ env = Null /\ report = Null
  BY <1>6 DEF Process, LeavePlan
<1> QED BY <1>1, <1>2, <1>3, <1>4, <1>5, <1>6
-----------------------------------------------------------------------------
(***************************************************************************)
(* The invariant. Its parts speak of one host and take what they speak     *)
(* about as arguments: x its row, a its agent, d its status file, g its    *)
(* pings, e the latest deploy of the environment and al the aliases.       *)
(***************************************************************************)

\* Nobody speaks of a deploy that does not exist yet, or of stopping a host
\* that nobody asked to stop.
About(e, r) ==
  /\ r.deploy \in 1..e /\ r.alias \in 0..e
  /\ "STOP" \notin Ops => r.stage \in InstallStages
Known(e, r) == r # Null => About(e, r)
BeanOK(e, b) ==
  b # Null => /\ b.deploy \in 1..e
              /\ "STOP" \notin Ops => b.stage \in InstallStages /\ b.state # "STOP"

\* Read by a thread: what the environment was then.
EnvOK(e, al, env) ==
  env # Null => /\ env.deploy \in 0..e
                /\ env.alias = IF env.deploy = NoDeploy THEN NoDeploy ELSE al[env.deploy]

\* Decided by a thread: whoever is told to work has a candidate.
PlanOK(e, plan) ==
  /\ BeanOK(e, plan.upd) /\ BeanOK(e, plan.cand)
  /\ plan.goal.op # "NOOP" => About(e, plan.goal)
  /\ plan.goal.op \in {"DEPLOY", "STOP"} <=> plan.cand # Null
  /\ plan.cand # Null => plan.cand.stage = plan.goal.stage

Decided == {"seat", "occupy", "write"}
ThreadOK(e, al, t) ==
  /\ Known(e, t.report)
  /\ t.pc = "read" => EnvOK(e, al, t.env)
  /\ t.pc \in Decided => PlanOK(e, t.plan)
  /\ t.pc \in {"seat", "occupy"} => t.plan.cand # Null /\ t.plan.wait

\* An agent that runs a script, or reports while it does, has a goal and reports
\* about it.
Works(a) == a.pc = "running" \/ (a.pc = "waiting" /\ a.why = "poll")
AgentOK(e, a) ==
  /\ Known(e, a.report)
  /\ a.pc # "waiting" => a.slot = Null
  /\ Works(a) => /\ a.report # Null /\ a.goal.op # "NOOP"
                 /\ a.report.deploy = a.goal.deploy /\ a.report.alias = a.goal.alias
                 /\ a.report.stage = a.goal.stage
                 /\ a.pc = "waiting" => a.goal.op # "DELETE"

Sane(e, al, x, a, d, g) ==
  /\ BeanOK(e, x) /\ AgentOK(e, a) /\ Known(e, d)
  /\ \A i \in Slots : ThreadOK(e, al, g[i])

\* With clients that wait for the answer, agents that live and status files that
\* are written, at most one thread works for a host, and the agent waits for it.
Prompt == Faults \subseteq {"WRITE"}
Alone(a, d, g) ==
  /\ \A i \in Slots : g[i].pc # "free" =>
       a.pc = "waiting" /\ a.slot = i /\ g[i].report = a.report
  /\ a.pc = "waiting" => a.report = d
  /\ a.pc = "waiting" /\ a.why = "fatal" => a.report # Null /\ a.report.status \in FatalStatus
  /\ Works(a) => a.report.status \notin FatalStatus

\* What the service will be told next.
Tells(a, d) ==
  IF a.pc = "asleep" THEN d
  ELSE IF a.pc = "running" /\ a.goal.op = "DELETE" THEN Null ELSE a.report

\* Who stops, and has not failed, does so because the row says so.
StopAsked(x, r) ==
  "STOP" \in Ops /\ r # Null /\ r.stage \in StopStages /\ r.status \notin FatalStatus
    => x # Null /\ x.state \in Sticky
StopPlanned(x, r, plan) ==
  /\ plan.goal.op # "DELETE" => StopAsked(plan.upd, r) /\ (plan.upd = Null => r = Null)
  /\ "STOP" \in Ops /\ plan.cand # Null /\ plan.cand.stage \in StopStages
       => plan.cand.state \in Sticky /\ x # Null /\ x.state \in Sticky
  /\ plan.wait => StopAsked(plan.cand, r)

OnTime(x, a, d, g) ==
  /\ Alone(a, d, g)
  /\ StopAsked(x, Tells(a, d))
  /\ \A i \in Slots : g[i].pc \in Decided => StopPlanned(x, g[i].report, g[i].plan)

HostInv(e, al, x, a, d, g) ==
  Sane(e, al, x, a, d, g) /\ (Prompt => OnTime(x, a, d, g))

AliasOK(e, al) == \A k \in Deploys : al[k] \in 0..k /\ (k > e => al[k] = NoDeploy)

Inv ==
  /\ AliasOK(envDeploy, alias)
  /\ \A h \in Hosts : HostInv(envDeploy, alias, row[h], agent[h], disk[h], ping[h])
IInv == TypeOK /\ Inv
-----------------------------------------------------------------------------
(***************************************************************************)
(* A decision made from sane inputs is sane.                               *)
(***************************************************************************)
LEMMA NullApart ==
  /\ Null \notin Report /\ Null \notin Row /\ Null \notin EnvRec /\ Null \notin Slots
  /\ Null \notin Hosts \X Slots
BY PingAssumption

LEMMA NothingIs ==
  ASSUME NEW u \in Row \cup {Null}
  PROVE  /\ Nothing(u) \in Plan
         /\ Nothing(u).upd = u /\ Nothing(u).cand = Null /\ ~Nothing(u).wait
         /\ Nothing(u).goal = NOOP /\ NOOP.op = "NOOP"
<1>1. NOOP \in Goal
  BY FirstStageIs, PingAssumption DEF NOOP, Goal, Deploy0, DeployStage
<1> QED BY <1>1 DEF Nothing, Plan, NOOP

LEMMA InstallIs ==
  ASSUME NEW env \in EnvRec, NEW report \in Report \cup {Null}, NEW u \in Row \cup {Null},
         NEW c \in Row, NEW w \in BOOLEAN, NEW p, p = Install(env, report, u, c, w)
  PROVE  /\ p \in Plan
         /\ p.upd = u /\ p.cand = c /\ p.wait = w
         /\ p.goal.op \in {"DEPLOY", "STOP"} /\ p.goal.stage = c.stage
         /\ p.goal.deploy = IF report # Null /\ report.alias # NoDeploy THEN report.alias ELSE env.deploy
         /\ p.goal.alias = IF report # Null /\ report.alias # NoDeploy THEN env.deploy ELSE NoDeploy
<1>1. p.upd = u /\ p.cand = c /\ p.wait = w /\ p.delete = FALSE
  BY DEF Install, Nothing
<1>2. /\ p.goal.op \in {"DEPLOY", "STOP"} /\ p.goal.stage = c.stage
      /\ p.goal.deploy = IF report # Null /\ report.alias # NoDeploy THEN report.alias ELSE env.deploy
      /\ p.goal.alias = IF report # Null /\ report.alias # NoDeploy THEN env.deploy ELSE NoDeploy
  BY DEF Install, Nothing
<1>3. p.goal \in Goal
  BY PingAssumption DEF Install, Nothing, Goal, Row, Report, EnvRec, Deploy0
<1>4. p = [upd |-> p.upd, cand |-> p.cand, wait |-> p.wait, goal |-> p.goal, delete |-> p.delete]
  BY DEF Install, Nothing
<1>5. p \in Plan
  BY <1>1, <1>3, <1>4 DEF Plan
<1> QED BY <1>1, <1>2, <1>5

LEMMA TransformIs ==
  ASSUME NEW env \in EnvRec, NEW report \in Report, NEW e \in Deploy0, NEW al, AliasOK(e, al),
         EnvOK(e, al, env), env.deploy # NoDeploy, Known(e, report),
         NEW t, t = Transform(env, report)
  PROVE  /\ t \in Report /\ t.stage = report.stage /\ t.status = report.status /\ Known(e, t)
         /\ \/ t.deploy = report.deploy
            \/ t.deploy = env.deploy /\ env.alias = report.deploy
         /\ report.deploy = env.alias => t.deploy = env.deploy
<1>1. env # Null /\ report # Null
  BY NullApart
<1>2. env.deploy \in 1..e /\ env.alias \in 0..e
  BY <1>1, PingAssumption DEF EnvOK, AliasOK, Deploys, Deploy0, EnvRec
<1>3. report.deploy # NoDeploy
  BY <1>1, PingAssumption DEF Known, About
<1> QED BY <1>1, <1>2, <1>3 DEF Transform, Known, About, Report, EnvRec

LEMMA ByReportIs ==
  ASSUME NEW t \in Report, NEW x \in Row \cup {Null}, NEW e \in Deploy0,
         Known(e, t), BeanOK(e, x), StopAsked(x, t), NEW u, u = ByReport(t, x)
  PROVE  /\ u \in Row /\ BeanOK(e, u) /\ StopAsked(u, t)
         /\ u.deploy = t.deploy /\ u.stage = t.stage /\ u.status = t.status
         /\ x # Null /\ x.state \in Sticky => u.state = x.state
<1>1. t # Null
  BY NullApart
<1>2. NewState(t, x) \in AgentState
  BY DEF NewState, Row, AgentState, Report, AgentStatus
<1>3. /\ u \in Row /\ u.deploy = t.deploy /\ u.stage = t.stage /\ u.status = t.status
      /\ u.state = NewState(t, x)
  BY <1>2 DEF ByReport, Row, Report
<1>4. x # Null /\ x.state \in Sticky => u.state = x.state
  BY <1>3 DEF NewState, Sticky
<1>5. u.state = "STOP" => x # Null /\ x.state = "STOP"
  BY <1>3 DEF NewState
<1>6. BeanOK(e, u)
  BY <1>1, <1>3, <1>5 DEF BeanOK, Known, About
<1>7. StopAsked(u, t)
  BY <1>1, <1>3, <1>4, NullApart DEF StopAsked
<1> QED BY <1>3, <1>4, <1>6, <1>7

\* Installing a candidate is a sane plan if the candidate is a sane bean that

\* stops hosts only when asked to.
LEMMA InstallOK ==
  ASSUME NEW x, NEW env \in EnvRec, NEW report \in Report \cup {Null}, NEW u \in Row \cup {Null},
         NEW c \in Row, NEW w \in BOOLEAN, NEW p, p = Install(env, report, u, c, w),
         NEW e \in Deploy0, env.deploy \in 1..e, Known(e, report), BeanOK(e, u), BeanOK(e, c),
         StopAsked(u, report), u = Null => report = Null,
         c.stage \in StopStages => c.state \in Sticky /\ x # Null /\ x.state \in Sticky,
         w => StopAsked(c, report)
  PROVE  p \in Plan /\ PlanOK(e, p) /\ StopPlanned(x, report, p)
<1>1. c # Null
  BY NullApart
<1>2. p \in Plan /\ StopPlanned(x, report, p)
  BY InstallIs DEF StopPlanned
<1>3. p.goal.deploy \in 1..e /\ p.goal.alias \in 0..e
  <2>1. e \in Nat
    BY PingAssumption DEF Deploy0, Deploys
  <2>2. report # Null => report.alias \in 0..e
    BY DEF Known, About
  <2> QED BY <2>1, <2>2, InstallIs, PingAssumption
<1>4. "STOP" \notin Ops => p.goal.stage \in InstallStages
  BY <1>1, InstallIs DEF BeanOK
<1>5. About(e, p.goal)
  BY <1>3, <1>4 DEF About
<1>6. PlanOK(e, p)
  BY <1>1, <1>5, InstallIs DEF PlanOK
<1> QED BY <1>2, <1>6

LEMMA NothingOK ==
  ASSUME NEW x, NEW u \in Row \cup {Null}, NEW e, BeanOK(e, u), NEW r, StopAsked(u, r), u = Null => r = Null
  PROVE  Nothing(u) \in Plan /\ PlanOK(e, Nothing(u)) /\ StopPlanned(x, r, Nothing(u))
<1>1. BeanOK(e, Null)
  BY DEF BeanOK
<1> QED BY <1>1, NothingIs DEF PlanOK, StopPlanned

LEMMA NewBeanIs ==
  ASSUME NEW env \in EnvRec, NEW x \in Row \cup {Null}, NEW e, env.deploy \in 1..e,
         NEW b, b = NewBean(env, x)
  PROVE  /\ b \in Row /\ BeanOK(e, b)
         /\ b.deploy = env.deploy /\ b.stage = FirstStage /\ b.state = "NORMAL"
         /\ b.stage \notin StopStages
         /\ b.first = (x = Null \/ x.first)
<1>1. /\ b.deploy = env.deploy /\ b.stage = FirstStage /\ b.state = "NORMAL"
      /\ b.first = (x = Null \/ x.first)
  BY DEF NewBean
<1>2. b \in Row
  BY FirstStageIs DEF NewBean, Row, EnvRec, DeployStage, AgentState, AgentStatus
<1> QED BY <1>1, <1>2, FirstStageIs, StagesAssumption DEF BeanOK, StopStages

LEMMA StopSane ==
  ASSUME NEW env \in EnvRec, NEW report \in Report \cup {Null}, NEW x \in Row \cup {Null},
         NEW e \in Deploy0, NEW al, EnvOK(e, al, env), Known(e, report),
         BeanOK(e, x), StopAsked(x, report), NEW p, StopPlan(env, report, x, p)
  PROVE  p \in Plan /\ PlanOK(e, p) /\ StopPlanned(x, report, p)
<1> DEFINE u == Upd(report, x)
<1>1. env # Null /\ env.deploy \in 1..e /\ x # Null /\ x \in Row /\ x.state = "STOP" /\ "STOP" \in Ops
  BY PingAssumption DEF StopPlan, EnvOK, BeanOK, Deploy0, Deploys
<1>2. u \in Row \cup {Null} /\ BeanOK(e, u) /\ StopAsked(u, report) /\ (u = Null => report = Null)
  <2>1. CASE report = Null
    BY <2>1 DEF Upd, BeanOK, StopAsked
  <2>2. CASE report # Null
    BY <2>2, ByReportIs, NullApart DEF Upd
  <2> QED BY <2>1, <2>2
<1> HIDE DEF u
<1>3. ASSUME NEW c \in Row, BeanOK(e, c), c.state = "STOP", p = Install(env, report, u, c, FALSE)
      PROVE  p \in Plan /\ PlanOK(e, p) /\ StopPlanned(x, report, p)
  BY <1>1, <1>2, <1>3, InstallOK DEF Sticky
<1>4. CASE p = Install(env, report, u, StopBean(env, x), FALSE)
  <2>1. StopBean(env, x) \in Row /\ StopBean(env, x).state = "STOP" /\ BeanOK(e, StopBean(env, x))
    BY <1>1 DEF StopBean, Row, EnvRec, DeployStage, AgentState, AgentStatus, BeanOK
  <2> QED BY <1>3, <1>4, <2>1
<1>5. CASE x.stage = "STOPPING" /\ report # Null /\ p = Install(env, report, u, NextStopBean(report, x), FALSE)
  <2> DEFINE b == ByReport(report, x)
             c == NextStopBean(report, x)
  <2>1. b \in Row /\ BeanOK(e, b) /\ b # Null
    BY <1>1, <1>5, ByReportIs, NullApart
  <2>2. c = [b EXCEPT !.stage = "STOPPED", !.state = "STOP", !.status = "UNKNOWN"]
    BY <1>5, NextStageOfStop DEF NextStopBean
  <2>3. c \in Row /\ c.state = "STOP" /\ BeanOK(e, c)
    <3> HIDE DEF b
    <3> QED BY <1>1, <2>1, <2>2 DEF Row, DeployStage, AgentState, AgentStatus, BeanOK
  <2> QED BY <1>3, <1>5, <2>3
<1>6. CASE p = Install(env, report, u, x, FALSE)
  BY <1>1, <1>3, <1>6
<1> QED BY <1>4, <1>5, <1>6 DEF StopPlan, u

LEMMA ReportSane ==
  ASSUME NEW env \in EnvRec, NEW report \in Report, NEW x \in Row \cup {Null},
         NEW e \in Deploy0, NEW al, AliasOK(e, al), EnvOK(e, al, env), Known(e, report),
         BeanOK(e, x), StopAsked(x, report), NEW p, ReportPlan(env, report, x, p)
  PROVE  p \in Plan /\ PlanOK(e, p) /\ StopPlanned(x, report, p)
<1> DEFINE t == Transform(env, report)
           u == ByReport(t, x)
<1>1. env.deploy \in 1..e
  BY NullApart, PingAssumption DEF ReportPlan, EnvOK, Deploy0, Deploys
<1>2. t \in Report /\ t.stage = report.stage /\ t.status = report.status /\ Known(e, t)
  BY <1>1, TransformIs DEF ReportPlan
<1>3. t # Null /\ report # Null
  BY <1>2, NullApart
<1>4. StopAsked(x, t)
  BY <1>2, <1>3 DEF StopAsked
<1> HIDE DEF t
<1>5. /\ u \in Row /\ BeanOK(e, u) /\ StopAsked(u, t)
      /\ u.deploy = t.deploy /\ u.stage = t.stage /\ u.status = t.status
      /\ x # Null /\ x.state \in Sticky => u.state = x.state
  BY <1>2, <1>4, ByReportIs
<1> HIDE DEF u
<1>6. u # Null
  BY <1>5, NullApart
<1>7. SUFFICES p \in Plan /\ PlanOK(e, p) /\ StopPlanned(x, t, p)
  BY <1>2, <1>3 DEF StopPlanned, StopAsked
<1>8. ASSUME NEW c \in Row, NEW w \in BOOLEAN, BeanOK(e, c), p = Install(env, t, u, c, w),
             c.stage \notin StopStages, w => t.stage \notin StopStages
      PROVE  p \in Plan /\ PlanOK(e, p) /\ StopPlanned(x, t, p)
  <2>1. w => StopAsked(c, t)
    BY <1>8 DEF StopAsked
  <2> QED BY <1>1, <1>2, <1>5, <1>6, <1>8, <2>1, InstallOK
<1>9. ASSUME p = Nothing(u) PROVE p \in Plan /\ PlanOK(e, p) /\ StopPlanned(x, t, p)
  BY <1>5, <1>6, <1>9, NothingOK
<1>10. CASE RestartPlan(env, report, x, p)
  <2>1. p = Install(env, t, u, NewBean(env, x), Serves(t, x))
    BY <1>10 DEF RestartPlan, t, u
  <2>2. Serves(t, x) \in BOOLEAN /\ (Serves(t, x) => t.stage \notin StopStages)
    BY DEF Serves, StopStages
  <2>3. NewBean(env, x) \in Row /\ BeanOK(e, NewBean(env, x)) /\ NewBean(env, x).stage \notin StopStages
    BY <1>1, NewBeanIs
  <2> QED BY <1>8, <2>1, <2>2, <2>3
<1>11. CASE SamePlan(env, report, x, p)
  <2>1. x = Null \/ x.state \notin Sticky
    BY <1>11 DEF SamePlan, ReportPlan, Sticky
  \* Nobody asked to stop this host.
  <2>2. t.status \notin FatalStatus => t.stage \in InstallStages
    BY <1>2, <1>3, <1>4, <2>1 DEF Known, About, StopAsked, StopStages, Report, DeployStage
  <2>3. CASE t.stage # "SERVING_BUILD" /\ t.status = "SUCCEEDED"
             /\ p = Install(env, t, u, NextBean(t, x), FALSE)
    <3> DEFINE c == NextBean(t, x)
    <3>1. t.stage \in InstallStages
      BY <2>2, <2>3 DEF FatalStatus
    <3>2. NextStage(t.stage) \in InstallStages
      BY <2>3, <3>1, NextStageOfInstall
    <3>3. c = [u EXCEPT !.stage = NextStage(t.stage), !.state = "NORMAL", !.status = "UNKNOWN"]
      BY DEF NextBean, u
    <3>4. c \in Row /\ BeanOK(e, c) /\ c.stage \notin StopStages
      BY <1>5, <1>6, <3>2, <3>3, StagesAssumption
         DEF Row, DeployStage, AgentState, AgentStatus, BeanOK, StopStages
    <3> QED BY <1>8, <2>3, <3>4
  <2>4. CASE t.stage # "SERVING_BUILD" /\ t.status # "SUCCEEDED" /\ u.state # "PAUSED_BY_SYSTEM"
             /\ p = Install(env, t, u, u, FALSE)
    <3>1. t.status \notin FatalStatus
      BY <2>1, <2>4 DEF u, ByReport, NewState, Sticky
    <3>2. u.stage \notin StopStages
      BY <1>5, <2>2, <3>1, StagesAssumption DEF StopStages
    <3> QED BY <1>5, <1>8, <2>4, <3>2
  <2>5. p = Nothing(u) \/ (t.stage # "SERVING_BUILD" /\ t.status = "SUCCEEDED"
             /\ p = Install(env, t, u, NextBean(t, x), FALSE))
        \/ (t.stage # "SERVING_BUILD" /\ t.status # "SUCCEEDED" /\ u.state # "PAUSED_BY_SYSTEM"
             /\ p = Install(env, t, u, u, FALSE))
    BY <1>11 DEF SamePlan, t, u
  <2> QED BY <1>9, <2>3, <2>4, <2>5
<1> QED BY <1>10, <1>11 DEF ReportPlan

LEMMA DecisionSane ==
  ASSUME NEW env \in EnvRec \cup {Null}, NEW report \in Report \cup {Null}, NEW x \in Row \cup {Null},
         NEW e \in Deploy0, NEW al, AliasOK(e, al), EnvOK(e, al, env), Known(e, report),
         BeanOK(e, x), StopAsked(x, report), NEW p, p = Process(env, report, x)
  PROVE  p \in Plan /\ PlanOK(e, p) /\ StopPlanned(x, report, p)
<1>1. CASE HeldPlan(report, x, p)
  <2>1. Upd(report, x) \in Row \cup {Null} /\ BeanOK(e, Upd(report, x)) /\ StopAsked(Upd(report, x), report)
        /\ (Upd(report, x) = Null => report = Null)
    BY ByReportIs, NullApart DEF Upd, BeanOK, StopAsked
  <2> QED BY <1>1, <2>1, NothingOK DEF HeldPlan
<1>2. CASE StopPlan(env, report, x, p)
  <2>1. env \in EnvRec
    BY <1>2 DEF StopPlan
  <2> QED BY <1>2, <2>1, StopSane
<1>3. CASE ReportPlan(env, report, x, p)
  <2>1. env \in EnvRec /\ report \in Report
    BY <1>3 DEF ReportPlan
  <2> QED BY <1>3, <2>1, ReportSane
<1>4. CASE FreshPlan(env, report, x, p)
  <2>1. env \in EnvRec /\ env.deploy \in 1..e /\ report = Null
    BY <1>4, PingAssumption DEF FreshPlan, EnvOK, Deploy0, Deploys
  <2>2. NewBean(env, x) \in Row /\ BeanOK(e, NewBean(env, x)) /\ NewBean(env, x).stage \notin StopStages
    BY <2>1, NewBeanIs
  <2>3. BeanOK(e, Null) /\ StopAsked(NewBean(env, x), Null) /\ StopAsked(Null, Null) /\ Known(e, Null)
    BY DEF BeanOK, StopAsked, Known, About
  <2>4. p = Install(env, Null, Null, NewBean(env, x), x = Null \/ x.stage = "SERVING_BUILD")
    BY <1>4 DEF FreshPlan
  <2> HIDE DEF NewBean
  <2> QED BY <2>1, <2>2, <2>3, <2>4, InstallOK
<1>5. CASE LeavePlan(env, report, x, p)
  <2>1. CASE report # Null
    <3> DEFINE u == ByReport(report, x)
               b == [u EXCEPT !.state = "DELETE"]
    <3>1. u \in Row /\ BeanOK(e, u)
      BY <2>1, ByReportIs
    <3> HIDE DEF u
    <3>2. b \in Row /\ BeanOK(e, b)
      BY <3>1, NullApart DEF Row, AgentState, BeanOK
    <3>3. p = [Nothing(b) EXCEPT !.goal = [op |-> "DELETE", deploy |-> report.deploy,
                 alias |-> NoDeploy, stage |-> report.stage]]
      BY <1>5, <2>1 DEF LeavePlan, u
    <3> HIDE DEF b
    <3>4. p.goal \in Goal /\ p.goal.op = "DELETE" /\ About(e, p.goal)
      <4>1. p.goal = [op |-> "DELETE", deploy |-> report.deploy, alias |-> NoDeploy,
                      stage |-> report.stage]
        BY <3>3 DEF Nothing
      <4>2. e \in Nat /\ NoDeploy \in 0..e
        BY PingAssumption DEF Deploy0, Deploys
      <4>3. report \in Report
        BY <2>1
      <4> QED BY <2>1, <4>1, <4>2, <4>3 DEF Goal, Report, Deploy0, Known, About
    <3>5. p.upd = b /\ p.cand = Null /\ p.wait = FALSE /\ p \in Plan
      BY <3>2, <3>3, <3>4 DEF Nothing, Plan
    <3> QED BY <3>2, <3>4, <3>5 DEF PlanOK, StopPlanned, BeanOK
  <2>2. CASE report = Null
    <3>1. p = [Nothing(Null) EXCEPT !.delete = x # Null]
      BY <1>5, <2>2 DEF LeavePlan
    <3>2. p \in Plan /\ p.upd = Null /\ p.cand = Null /\ p.wait = FALSE /\ p.goal.op = "NOOP"
      BY <3>1, NothingIs DEF Nothing, Plan
    <3> QED BY <2>2, <3>2 DEF PlanOK, StopPlanned, BeanOK, StopAsked
  <2> QED BY <2>1, <2>2
<1> QED BY <1>1, <1>2, <1>3, <1>4, <1>5, Outcomes
-----------------------------------------------------------------------------
(***************************************************************************)
(* The steps. Every step but NewDeploy is about one host.                  *)
(***************************************************************************)
LEMMA HostOf ==
  ASSUME IInv, NEW h \in Hosts
  PROVE  /\ row[h] \in Row \cup {Null} /\ agent[h] \in Agent /\ disk[h] \in Report \cup {Null}
         /\ ping[h] \in [Slots -> Thread]
         /\ envDeploy \in Deploy0 /\ envDeploy \in Nat /\ AliasOK(envDeploy, alias)
         /\ HostInv(envDeploy, alias, row[h], agent[h], disk[h], ping[h])
BY PingAssumption DEF IInv, Inv, TypeOK, Deploy0, Deploys

\* What a step does to the other hosts: nothing.
Others(h) ==
  \A k \in Hosts \ {h} :
    row'[k] = row[k] /\ agent'[k] = agent[k] /\ disk'[k] = disk[k] /\ ping'[k] = ping[k]

LEMMA OneHost ==
  ASSUME IInv, TypeOK', envDeploy' = envDeploy, alias' = alias, NEW h \in Hosts, Others(h),
         HostInv(envDeploy, alias, row'[h], agent'[h], disk'[h], ping'[h])
  PROVE  IInv'
<1>1. ASSUME NEW k \in Hosts
      PROVE HostInv(envDeploy', alias', row'[k], agent'[k], disk'[k], ping'[k])
  <2>1. CASE k = h
    BY <2>1
  <2>2. CASE k # h
    <3>1. row'[k] = row[k] /\ agent'[k] = agent[k] /\ disk'[k] = disk[k] /\ ping'[k] = ping[k]
      BY <2>2 DEF Others
    <3>2. HostInv(envDeploy, alias, row[k], agent[k], disk[k], ping[k])
      BY DEF IInv, Inv
    <3> QED BY <3>1, <3>2
  <2> QED BY <2>1, <2>2
<1>2. AliasOK(envDeploy', alias')
  BY DEF IInv, Inv
<1> QED BY <1>1, <1>2 DEF IInv, Inv

LEMMA FaultTyped ==
  ASSUME IInv, NEW kind, Fault(kind)
  PROVE  faults' \in 0..MaxFaults /\ kind \in Faults
BY PingAssumption DEF IInv, TypeOK, Fault

\* Slot i of h goes from one thread to another.
LEMMA PingIs ==
  ASSUME IInv, NEW h \in Hosts, NEW i \in Slots, NEW t \in Thread,
         ping' = [ping EXCEPT ![h][i] = t]
  PROVE  /\ ping' \in [Hosts -> [Slots -> Thread]]
         /\ ping'[h] = [ping[h] EXCEPT ![i] = t]
         /\ \A k \in Hosts \ {h} : ping'[k] = ping[k]
BY DEF IInv, TypeOK

LEMMA FreeIs ==
  /\ Free \in Thread /\ Free.pc = "free" /\ Free.report = Null
  /\ Free.env = Null /\ Free.plan = Nothing(Null)
BY NothingIs DEF Free, Thread

LEMMA AsleepIs ==
  /\ Asleep \in Agent /\ Asleep.pc = "asleep" /\ Asleep.why = "start" /\ Asleep.report = Null
  /\ Asleep.slot = Null /\ Asleep.goal = NOOP
BY NothingIs DEF Asleep, Agent, Plan, Nothing

\* A thread goes on, and may write y for the row x.
LEMMA ThreadGoesOn ==
  ASSUME NEW e, NEW al, NEW x, NEW a, NEW d, NEW g \in [Slots -> Thread], HostInv(e, al, x, a, d, g),
         NEW i \in Slots, g[i].pc # "free", NEW t \in Thread, t.pc # "free" => t.report = g[i].report,
         ThreadOK(e, al, t), NEW y, BeanOK(e, y),
         Prompt => StopAsked(y, Tells(a, d)),
         Prompt /\ t.pc \in Decided => StopPlanned(y, t.report, t.plan)
  PROVE  HostInv(e, al, y, a, d, [g EXCEPT ![i] = t])
<1> DEFINE f == [g EXCEPT ![i] = t]
<1>1. \A j \in Slots : f[j] = IF j = i THEN t ELSE g[j]
  OBVIOUS
<1> HIDE DEF f
<1>2. Sane(e, al, y, a, d, f)
  BY <1>1 DEF HostInv, Sane
<1>3. ASSUME Prompt PROVE OnTime(y, a, d, f)
  <2>1. OnTime(x, a, d, g)
    BY <1>3 DEF HostInv
  <2>2. Alone(a, d, f)
    BY <1>1, <2>1 DEF OnTime, Alone
  <2>3. \A j \in Slots \ {i} : g[j].pc = "free"
    BY <2>1 DEF OnTime, Alone
  <2>4. \A j \in Slots : f[j].pc \in Decided => StopPlanned(y, f[j].report, f[j].plan)
    BY <1>1, <1>3, <2>3 DEF Decided
  <2> QED BY <1>3, <2>2, <2>4 DEF OnTime
<1> QED BY <1>2, <1>3 DEF HostInv, f

LEMMA FreeOK == ASSUME NEW e, NEW al PROVE ThreadOK(e, al, Free)
BY FreeIs DEF ThreadOK, Known, About, Decided

LEMMA ThreadEnds ==
  ASSUME NEW e, NEW al, NEW x, NEW a, NEW d, NEW g \in [Slots -> Thread], HostInv(e, al, x, a, d, g),
         NEW i \in Slots, g[i].pc # "free", NEW y, BeanOK(e, y), Prompt => StopAsked(y, Tells(a, d))
  PROVE  HostInv(e, al, y, a, d, [g EXCEPT ![i] = Free])
BY ThreadGoesOn, FreeIs, FreeOK DEF Decided

LEMMA ThreadOf ==
  ASSUME IInv, NEW h \in Hosts, NEW i \in Slots
  PROVE  /\ BeanOK(envDeploy, row[h]) /\ AgentOK(envDeploy, agent[h])
         /\ ping[h][i] \in Thread /\ ThreadOK(envDeploy, alias, ping[h][i])
         /\ Prompt => Alone(agent[h], disk[h], ping[h]) /\ StopAsked(row[h], Tells(agent[h], disk[h]))
         /\ Prompt /\ ping[h][i].pc \in Decided => StopPlanned(row[h], ping[h][i].report, ping[h][i].plan)
BY HostOf DEF HostInv, Sane, OnTime

\* A step in which one thread goes on and nothing else of the host changes.
LEMMA ThreadStep ==
  ASSUME IInv, NEW h \in Hosts, NEW i \in Slots, NEW t \in Thread,
         ping' = [ping EXCEPT ![h][i] = t],
         ping[h][i].pc # "free", t.report = ping[h][i].report,
         ThreadOK(envDeploy, alias, t), Prompt /\ t.pc \in Decided => StopPlanned(row[h], t.report, t.plan),
         UNCHANGED <<tables, row, agent, disk, progress, stopped, faults, ops>>,
         lock' \in (Hosts \X Slots) \cup {Null}
  PROVE  IInv'
<1>1. TypeOK'
  BY PingIs DEF IInv, TypeOK, tables
<1>2. Others(h)
  BY PingIs DEF Others
<1>3. HostInv(envDeploy, alias, row[h], agent[h], disk[h], [ping[h] EXCEPT ![i] = t])
  BY HostOf, ThreadOf, ThreadGoesOn
<1>4. HostInv(envDeploy, alias, row'[h], agent'[h], disk'[h], ping'[h])
  BY <1>3, PingIs
<1>5. envDeploy' = envDeploy /\ alias' = alias
  BY DEF tables
<1> QED BY <1>1, <1>2, <1>4, <1>5, OneHost

LEMMA ReadEnvKeeps ==
  ASSUME IInv, NEW h \in Hosts, NEW i \in Slots, ReadEnv(h, i)
  PROVE  IInv'
<1> DEFINE env == [deploy |-> envDeploy, onHold |-> onHold,
                   alias  |-> IF envDeploy = NoDeploy THEN NoDeploy ELSE alias[envDeploy]]
           seen == IF h \in member THEN env ELSE Null
           t == [ping[h][i] EXCEPT !.pc = "read", !.env = seen]
<1>1. env \in EnvRec
  BY DEF EnvRec, IInv, TypeOK, Deploy0, Deploys
<1>2. EnvOK(envDeploy, alias, env)
  BY HostOf, PingAssumption DEF EnvOK
<1>3. seen \in EnvRec \cup {Null} /\ EnvOK(envDeploy, alias, seen)
  BY <1>1, <1>2 DEF EnvOK
<1>4. ping' = [ping EXCEPT ![h][i] = t] /\ ping[h][i].pc = "new"
  BY DEF ReadEnv
<1> HIDE DEF seen
<1>5. ping[h][i] \in Thread /\ ThreadOK(envDeploy, alias, ping[h][i])
  BY ThreadOf
<1>6. t \in Thread /\ t.pc = "read" /\ t.report = ping[h][i].report /\ t.env = seen
  BY <1>3, <1>5 DEF Thread
<1> HIDE DEF t
<1>7. ThreadOK(envDeploy, alias, t)
  BY <1>3, <1>5, <1>6 DEF ThreadOK, Decided
<1>8. lock' \in (Hosts \X Slots) \cup {Null} /\ UNCHANGED <<tables, row, agent, disk, progress, stopped, faults, ops>>
  BY DEF ReadEnv, IInv, TypeOK
<1> QED BY <1>4, <1>6, <1>7, <1>8, ThreadStep DEF Decided

LEMMA AnalyseKeeps ==
  ASSUME IInv, NEW h \in Hosts, NEW i \in Slots, Analyse(h, i)
  PROVE  IInv'
<1> DEFINE p == ping[h][i]
           plan == Process(p.env, p.report, row[h])
           next == IF plan.cand = Null \/ ~plan.wait THEN "write"
                   ELSE IF plan.cand.first THEN "occupy" ELSE "seat"
           t == [p EXCEPT !.plan = plan, !.pc = next, !.env = Null]
<1>1. ping' = [ping EXCEPT ![h][i] = t] /\ p.pc = "read"
  BY DEF Analyse
<1>2. p \in Thread /\ ThreadOK(envDeploy, alias, p)
  BY ThreadOf
<1>3. StopAsked(row[h], p.report)
  <2>1. CASE Prompt
    <3>1. agent[h].pc = "waiting" /\ p.report = agent[h].report
      BY <1>1, <2>1, ThreadOf DEF Alone
    <3> QED BY <2>1, <3>1, ThreadOf DEF Tells
  <2>2. CASE ~Prompt
    BY <2>2, PingAssumption DEF Prompt, StopAsked
  <2> QED BY <2>1, <2>2
<1>4. BeanOK(envDeploy, row[h])
  BY HostOf DEF HostInv, Sane
<1>5. plan \in Plan /\ PlanOK(envDeploy, plan) /\ StopPlanned(row[h], p.report, plan)
  <2>1. p.env \in EnvRec \cup {Null} /\ p.report \in Report \cup {Null}
    BY <1>2 DEF Thread
  <2>2. EnvOK(envDeploy, alias, p.env) /\ Known(envDeploy, p.report)
    BY <1>1, <1>2 DEF ThreadOK
  <2>3. row[h] \in Row \cup {Null} /\ envDeploy \in Deploy0 /\ AliasOK(envDeploy, alias)
    BY HostOf
  <2> HIDE DEF p
  <2> QED BY <1>3, <1>4, <2>1, <2>2, <2>3, DecisionSane
<1> HIDE DEF p, plan
<1>6. /\ t \in Thread /\ t.pc \in Decided /\ t.report = p.report /\ t.plan = plan
      /\ t.pc \in {"seat", "occupy"} => t.plan.cand # Null /\ t.plan.wait
  BY <1>2, <1>5 DEF Thread, Decided
<1> HIDE DEF t
<1>7. ThreadOK(envDeploy, alias, t)
  BY <1>2, <1>5, <1>6 DEF ThreadOK, Decided
<1>8. lock' \in (Hosts \X Slots) \cup {Null} /\ UNCHANGED <<tables, row, agent, disk, progress, stopped, faults, ops>>
  BY DEF Analyse, IInv, TypeOK
<1> QED BY <1>1, <1>5, <1>6, <1>7, <1>8, ThreadStep DEF p

\* A plan whose candidate is dropped.
LEMMA DroppedIs ==
  ASSUME NEW plan \in Plan, NEW e, PlanOK(e, plan), plan.cand # Null,
         NEW x, NEW r, Prompt => StopPlanned(x, r, plan)
  PROVE  /\ Nothing(plan.upd) \in Plan /\ PlanOK(e, Nothing(plan.upd))
         /\ Prompt => StopPlanned(x, r, Nothing(plan.upd))
<1>1. plan.upd \in Row \cup {Null} /\ BeanOK(e, plan.upd)
  BY DEF Plan, PlanOK
<1>2. BeanOK(e, Null)
  BY DEF BeanOK
<1> QED BY <1>1, <1>2, NothingIs DEF PlanOK, StopPlanned

LEMMA SeatKeeps ==
  ASSUME IInv, NEW h \in Hosts, NEW i \in Slots, Seat(h, i)
  PROVE  IInv'
<1> DEFINE p == ping[h][i]
           seated  == [p EXCEPT !.pc = "occupy"]
           dropped == [p EXCEPT !.pc = "write", !.plan = Nothing(p.plan.upd)]
<1>1. p.pc = "seat" /\ p \in Thread /\ ThreadOK(envDeploy, alias, p)
      /\ (Prompt => StopPlanned(row[h], p.report, p.plan))
  BY ThreadOf DEF Seat, Decided
<1>2. UNCHANGED <<tables, row, agent, disk, progress, stopped, faults, ops>>
  BY DEF Seat
<1>3. lock' \in (Hosts \X Slots) \cup {Null}
  BY DEF Seat, IInv, TypeOK
<1>4. CASE ping' = [ping EXCEPT ![h][i] = seated]
  <2>1. seated \in Thread /\ seated.pc = "occupy" /\ seated.report = p.report /\ seated.plan = p.plan
    BY <1>1 DEF Thread
  <2>2. ThreadOK(envDeploy, alias, seated)
    BY <1>1, <2>1 DEF ThreadOK, Decided
  <2> HIDE DEF seated
  <2> QED BY <1>1, <1>2, <1>3, <1>4, <2>1, <2>2, ThreadStep
<1>5. CASE ping' = [ping EXCEPT ![h][i] = dropped]
  <2>1. p.plan \in Plan /\ PlanOK(envDeploy, p.plan) /\ p.plan.cand # Null
    BY <1>1 DEF Thread, ThreadOK, Decided
  <2>2. /\ Nothing(p.plan.upd) \in Plan /\ PlanOK(envDeploy, Nothing(p.plan.upd))
        /\ Prompt => StopPlanned(row[h], p.report, Nothing(p.plan.upd))
    BY <1>1, <2>1, DroppedIs
  <2>3. dropped \in Thread /\ dropped.pc = "write" /\ dropped.report = p.report
        /\ dropped.plan = Nothing(p.plan.upd)
    BY <1>1, <2>2 DEF Thread
  <2>4. ThreadOK(envDeploy, alias, dropped)
    BY <1>1, <2>2, <2>3 DEF ThreadOK, Decided
  <2> HIDE DEF dropped
  <2> QED BY <1>1, <1>2, <1>3, <1>5, <2>2, <2>3, <2>4, ThreadStep
<1> QED BY <1>4, <1>5 DEF Seat

\* The client of slot i is answered, or learns that there is no answer; the

\* thread is done and may have written y for the row x.
LEMMA Answered ==
  ASSUME NEW e, NEW al, NEW x, NEW a \in Agent, NEW d, NEW g \in [Slots -> Thread],
         HostInv(e, al, x, a, d, g), NEW i \in Slots, a.slot = i, NEW y, BeanOK(e, y),
         NEW b \in Agent, b.pc # "waiting", AgentOK(e, b),
         Prompt => /\ StopAsked(y, Tells(b, d))
                   /\ Works(b) => b.report.status \notin FatalStatus
  PROVE  HostInv(e, al, y, b, d, [g EXCEPT ![i] = Free])
<1> DEFINE f == [g EXCEPT ![i] = Free]
<1>1. \A j \in Slots : f[j] = IF j = i THEN Free ELSE g[j]
  OBVIOUS
<1> HIDE DEF f
<1>2. Sane(e, al, y, b, d, f)
  BY <1>1, FreeOK DEF HostInv, Sane
<1>3. ASSUME Prompt PROVE OnTime(y, b, d, f)
  <2>1. Alone(a, d, g)
    BY <1>3 DEF HostInv, OnTime
  <2>2. \A j \in Slots : f[j].pc = "free"
    BY <1>1, <2>1, FreeIs DEF Alone
  <2>3. Alone(b, d, f)
    BY <1>3, <2>2 DEF Alone
  <2> QED BY <1>3, <2>2, <2>3 DEF OnTime, Decided
<1> QED BY <1>2, <1>3 DEF HostInv, f

LEMMA NoAnswerIs ==
  ASSUME NEW e, NEW a \in Agent, AgentOK(e, a), a.pc = "waiting", NEW b, b = NoAnswer(a)
  PROVE  /\ b \in Agent /\ AgentOK(e, b) /\ b.pc # "waiting"
         /\ Works(b) => Works(a) /\ b.report = a.report
         /\ \A d : a.report = d => Tells(b, d) = d
<1>1. CASE a.why = "poll"
  <2>1. b = [a EXCEPT !.pc = "running", !.why = "start", !.slot = Null]
    BY <1>1 DEF NoAnswer
  <2>2. /\ b \in Agent /\ b.pc = "running" /\ b.slot = Null /\ b.report = a.report /\ b.goal = a.goal
    BY <2>1 DEF Agent
  <2>3. Works(a) /\ a.goal.op # "DELETE"
    BY <1>1 DEF AgentOK, Works
  <2> QED BY <2>2, <2>3 DEF AgentOK, Works, Tells
<1>2. CASE a.why # "poll"
  <2>1. b = Asleep
    BY <1>2 DEF NoAnswer
  <2> QED BY <2>1, AsleepIs DEF AgentOK, Works, Tells, Known
<1> QED BY <1>1, <1>2

LEMMA ReceiveIs ==
  ASSUME NEW e, NEW a \in Agent, NEW goal \in Goal, goal.op # "NOOP" => About(e, goal),
         NEW b, b = Receive(a, goal)
  PROVE  /\ b \in Agent /\ AgentOK(e, b) /\ b.pc # "waiting"
         /\ Works(b) => b.report.status \notin FatalStatus
         /\ IF goal.op = "NOOP" \/ a.why = "fatal" THEN b = Asleep
            ELSE /\ b.pc = "running" /\ b.goal = goal /\ b.report.status = "UNKNOWN"
                 /\ b.report.deploy = goal.deploy /\ b.report.alias = goal.alias
                 /\ b.report.stage = goal.stage
<1>1. CASE goal.op = "NOOP" \/ a.why = "fatal"
  BY <1>1, AsleepIs DEF Receive, AgentOK, Works, Known
<1>2. CASE ~(goal.op = "NOOP" \/ a.why = "fatal")
  <2> DEFINE r == [deploy |-> goal.deploy, alias |-> goal.alias, stage |-> goal.stage,
                   status |-> "UNKNOWN"]
  <2>1. r \in Report
    BY DEF Report, Goal, AgentStatus
  <2>2. b = [Asleep EXCEPT !.pc = "running", !.goal = goal, !.report = r]
    BY <1>2 DEF Receive
  <2>3. r.status = "UNKNOWN" /\ r.deploy = goal.deploy /\ r.alias = goal.alias /\ r.stage = goal.stage
    OBVIOUS
  <2>4. About(e, r)
    BY <1>2, <2>3 DEF About
  <2> HIDE DEF r
  <2>5. /\ b \in Agent /\ b.pc = "running" /\ b.goal = goal /\ b.report = r /\ b.slot = Null
    BY <2>1, <2>2, AsleepIs DEF Agent
  <2>6. AgentOK(e, b)
    BY <1>2, <2>1, <2>3, <2>4, <2>5, NullApart DEF AgentOK, Known, Works
  <2> QED BY <1>2, <2>3, <2>5, <2>6 DEF FatalStatus
<1> QED BY <1>1, <1>2

LEMMA OccupyKeeps ==
  ASSUME IInv, NEW h \in Hosts, NEW i \in Slots, Occupy(h, i)
  PROVE  IInv'
<1> DEFINE p == ping[h][i]
           seated  == [p EXCEPT !.pc = "write"]
           dropped == [p EXCEPT !.pc = "write", !.plan = Nothing(p.plan.upd)]
<1>1. /\ p.pc = "occupy" /\ p \in Thread /\ ThreadOK(envDeploy, alias, p)
      /\ p.plan \in Plan /\ PlanOK(envDeploy, p.plan) /\ p.plan.cand # Null /\ p.plan.wait
      /\ Prompt => StopPlanned(row[h], p.report, p.plan)
  BY ThreadOf DEF Occupy, Thread, ThreadOK, Decided
<1>2. p.plan.cand \in Row /\ BeanOK(envDeploy, p.plan.cand) /\ BeanOK(envDeploy, row[h])
  BY <1>1, ThreadOf DEF Plan, PlanOK
<1>3. ASSUME Prompt
      PROVE  agent[h].pc = "waiting" /\ p.report = agent[h].report /\ p.report = disk[h]
             /\ Tells(agent[h], disk[h]) = p.report /\ Alone(agent[h], disk[h], ping[h])
             /\ StopAsked(row[h], p.report)
  BY <1>1, <1>3, ThreadOf DEF Alone, Tells
<1>4. lock' \in (Hosts \X Slots) \cup {Null}
  BY DEF Occupy, IInv, TypeOK
<1>5. UNCHANGED <<tables, disk, progress, stopped, ops>> /\ envDeploy' = envDeploy /\ alias' = alias
  BY DEF Occupy, tables
<1>6. CASE row' = [row EXCEPT ![h] = p.plan.cand] /\ ping' = [ping EXCEPT ![h][i] = seated]
           /\ UNCHANGED <<agent, faults>>
  <2>1. seated \in Thread /\ seated.pc = "write" /\ seated.report = p.report /\ seated.plan = p.plan
    BY <1>1 DEF Thread
  <2> HIDE DEF seated
  <2>2. TypeOK'
    BY <1>2, <1>4, <1>5, <1>6, <2>1, PingIs DEF IInv, TypeOK, tables
  <2>3. Others(h)
    BY <1>5, <1>6, <2>1, PingIs DEF Others, IInv, TypeOK
  <2>4. ThreadOK(envDeploy, alias, seated)
    BY <1>1, <2>1 DEF ThreadOK, Decided
  <2>5. Prompt => StopAsked(p.plan.cand, Tells(agent[h], disk[h]))
    BY <1>1, <1>3 DEF StopPlanned
  <2>6. Prompt => StopPlanned(p.plan.cand, seated.report, seated.plan)
    BY <1>1, <2>1 DEF StopPlanned
  <2>7. HostInv(envDeploy, alias, p.plan.cand, agent[h], disk[h], [ping[h] EXCEPT ![i] = seated])
    BY <1>1, <1>2, <2>1, <2>4, <2>5, <2>6, HostOf, ThreadGoesOn
  <2>8. row'[h] = p.plan.cand /\ agent'[h] = agent[h] /\ disk'[h] = disk[h]
        /\ ping'[h] = [ping[h] EXCEPT ![i] = seated]
    BY <1>5, <1>6, <2>1, PingIs DEF IInv, TypeOK
  <2> QED BY <1>5, <2>2, <2>3, <2>7, <2>8, OneHost
<1>7. CASE row' = row /\ Fault("WRITE") /\ ping' = [ping EXCEPT ![h][i] = dropped] /\ agent' = agent
  <2>1. /\ Nothing(p.plan.upd) \in Plan /\ PlanOK(envDeploy, Nothing(p.plan.upd))
        /\ Prompt => StopPlanned(row[h], p.report, Nothing(p.plan.upd))
    BY <1>1, DroppedIs
  <2>2. dropped \in Thread /\ dropped.pc = "write" /\ dropped.report = p.report
        /\ dropped.plan = Nothing(p.plan.upd)
    BY <1>1, <2>1 DEF Thread
  <2>3. ThreadOK(envDeploy, alias, dropped)
    BY <1>1, <2>1, <2>2 DEF ThreadOK, Decided
  <2> HIDE DEF dropped
  <2>4. TypeOK'
    BY <1>4, <1>5, <1>7, <2>2, PingIs, FaultTyped DEF IInv, TypeOK, tables
  <2>5. Others(h)
    BY <1>5, <1>7, <2>2, PingIs DEF Others
  <2>6. HostInv(envDeploy, alias, row[h], agent[h], disk[h], [ping[h] EXCEPT ![i] = dropped])
    BY <1>1, <1>2, <1>3, <2>1, <2>2, <2>3, HostOf, ThreadGoesOn
  <2>7. ping'[h] = [ping[h] EXCEPT ![i] = dropped]
    BY <1>7, <2>2, PingIs
  <2> QED BY <1>5, <1>7, <2>4, <2>5, <2>6, <2>7, OneHost
<1>8. CASE /\ row' = row /\ Fault("WRITE") /\ ping' = [ping EXCEPT ![h][i] = Free]
           /\ agent' = IF agent[h].slot = i THEN [agent EXCEPT ![h] = NoAnswer(agent[h])] ELSE agent
  <2>1. TypeOK' /\ Others(h)
        /\ HostInv(envDeploy, alias, row[h], agent'[h], disk[h], [ping[h] EXCEPT ![i] = Free])
    <3>1. CASE agent[h].slot = i
      <4> DEFINE b == NoAnswer(agent[h])
      <4>1. agent[h] \in Agent /\ AgentOK(envDeploy, agent[h]) /\ agent[h].pc = "waiting"
        BY <3>1, HostOf, ThreadOf, NullApart DEF AgentOK
      <4>2. /\ b \in Agent /\ AgentOK(envDeploy, b) /\ b.pc # "waiting"
            /\ Works(b) => Works(agent[h]) /\ b.report = agent[h].report
            /\ Prompt => Tells(b, disk[h]) = disk[h]
        BY <1>3, <4>1, NoAnswerIs
      <4> HIDE DEF b
      <4>3. Prompt => StopAsked(row[h], Tells(b, disk[h])) /\ (Works(b) => b.report.status \notin FatalStatus)
        BY <1>3, <4>2 DEF Alone
      <4>4. HostInv(envDeploy, alias, row[h], b, disk[h], [ping[h] EXCEPT ![i] = Free])
        BY <1>2, <3>1, <4>1, <4>2, <4>3, HostOf, Answered
      <4>5. agent' = [agent EXCEPT ![h] = b]
        BY <1>8, <3>1 DEF b
      <4>6. TypeOK' /\ Others(h)
        BY <1>4, <1>5, <1>8, <4>2, <4>5, FreeIs, PingIs, FaultTyped DEF IInv, TypeOK, Others, tables
      <4> QED BY <3>1, <4>4, <4>5, <4>6 DEF b, IInv, TypeOK
    <3>2. CASE agent[h].slot # i
      <4>1. agent' = agent
        BY <1>8, <3>2
      <4>2. TypeOK' /\ Others(h)
        BY <1>4, <1>5, <1>8, <4>1, FreeIs, PingIs, FaultTyped DEF IInv, TypeOK, Others, tables
      <4>3. HostInv(envDeploy, alias, row[h], agent[h], disk[h], [ping[h] EXCEPT ![i] = Free])
        BY <1>1, <1>2, <1>3, HostOf, ThreadEnds
      <4>4. agent'[h] = agent[h]
        BY <4>1
      <4> QED BY <4>2, <4>3, <4>4
    <3> QED BY <3>1, <3>2
  <2>2. ping'[h] = [ping[h] EXCEPT ![i] = Free] /\ row'[h] = row[h] /\ disk'[h] = disk[h]
    BY <1>5, <1>8, FreeIs, PingIs
  <2>3. HostInv(envDeploy, alias, row'[h], agent'[h], disk'[h], ping'[h])
    BY <2>1, <2>2
  <2> QED BY <1>5, <2>1, <2>3, OneHost
<1> QED BY <1>6, <1>7, <1>8 DEF Occupy

\* What the last write of a ping leaves in the row x: nothing new, or the bean.
Written(x, plan) == {x} \cup (IF plan.cand # Null THEN {plan.cand}
                              ELSE IF plan.upd # Null \/ plan.delete THEN {plan.upd} ELSE {})

\* Whatever is written, it goes with the answer.
LEMMA WrittenIs ==
  ASSUME NEW e, NEW plan \in Plan, PlanOK(e, plan), NEW x \in Row \cup {Null}, BeanOK(e, x),
         NEW y \in Written(x, plan), NEW a \in Agent, NEW d, a.report = d,
         a.why = "fatal" => d # Null /\ d.status \in FatalStatus,
         StopAsked(x, d), StopPlanned(x, d, plan)
  PROVE  StopAsked(y, Tells(Receive(a, plan.goal), d))
<1> DEFINE b == Receive(a, plan.goal)
<1>1. /\ IF plan.goal.op = "NOOP" \/ a.why = "fatal" THEN b = Asleep
         ELSE /\ b.pc = "running" /\ b.goal = plan.goal /\ b.report.status = "UNKNOWN"
              /\ b.report.stage = plan.goal.stage
  BY ReceiveIs DEF Plan, PlanOK
<1> HIDE DEF b
<1>2. CASE a.why = "fatal"
  <2>1. Tells(b, d) = d
    BY <1>1, <1>2, AsleepIs DEF Tells
  <2> QED BY <1>2, <2>1 DEF StopAsked, b
<1>3. CASE a.why # "fatal" /\ plan.goal.op = "NOOP"
  <2>1. Tells(b, d) = d
    BY <1>1, <1>3, AsleepIs DEF Tells
  <2>2. plan.cand = Null
    BY <1>3 DEF PlanOK
  <2>3. StopAsked(plan.upd, d)
    BY <1>3 DEF StopPlanned
  <2> QED BY <2>1, <2>2, <2>3 DEF Written, b
<1>4. CASE a.why # "fatal" /\ plan.goal.op = "DELETE"
  <2>1. Tells(b, d) = Null
    BY <1>1, <1>4 DEF Tells
  <2> QED BY <2>1 DEF StopAsked, b
<1>5. CASE a.why # "fatal" /\ plan.goal.op \in {"DEPLOY", "STOP"}
  <2>1. Tells(b, d) = b.report /\ b.report.stage = plan.goal.stage
    BY <1>1, <1>5 DEF Tells
  <2>2. plan.cand # Null /\ plan.cand.stage = plan.goal.stage
    BY <1>5 DEF PlanOK
  <2>3. y \in {x, plan.cand}
    BY <2>2 DEF Written
  <2> QED BY <2>1, <2>2, <2>3 DEF StopAsked, StopPlanned, b
<1> QED BY <1>2, <1>3, <1>4, <1>5 DEF Plan, Goal

LEMMA WriteRow ==
  ASSUME IInv, NEW h \in Hosts, NEW i \in Slots, Write(h, i)
  PROVE  /\ row' \in [Hosts -> Row \cup {Null}] /\ \A k \in Hosts \ {h} : row'[k] = row[k]
         /\ row'[h] \in Written(row[h], ping[h][i].plan) /\ faults' \in 0..MaxFaults
         /\ BeanOK(envDeploy, row'[h])
<1> DEFINE plan == ping[h][i].plan
           bean == IF plan.cand # Null THEN plan.cand ELSE plan.upd
<1>1. plan \in Plan /\ PlanOK(envDeploy, plan)
  BY ThreadOf DEF Write, Thread, ThreadOK, Decided
<1>2. \/ row' = row /\ Fault("WRITE")
      \/ row' = row /\ faults' = faults
      \/ (bean # Null \/ plan.delete) /\ row' = [row EXCEPT ![h] = bean] /\ faults' = faults
  BY DEF Write
<1>3. row \in [Hosts -> Row \cup {Null}] /\ faults \in 0..MaxFaults /\ BeanOK(envDeploy, row[h])
  BY ThreadOf DEF IInv, TypeOK
<1>4. bean \in Row \cup {Null} /\ BeanOK(envDeploy, bean)
  BY <1>1 DEF Plan, PlanOK
<1>5. bean # Null \/ plan.delete => bean \in Written(row[h], plan)
  BY DEF Written
<1>6. row[h] \in Written(row[h], plan)
  BY DEF Written
<1> HIDE DEF bean
<1> QED BY <1>2, <1>3, <1>4, <1>5, <1>6, FaultTyped

LEMMA WriteKeeps ==
  ASSUME IInv, NEW h \in Hosts, NEW i \in Slots, Write(h, i)
  PROVE  IInv'
<1> DEFINE p == ping[h][i]
           y == row'[h]
           b == Receive(agent[h], p.plan.goal)
<1>1. /\ p.pc = "write" /\ p \in Thread /\ ThreadOK(envDeploy, alias, p)
      /\ p.plan \in Plan /\ PlanOK(envDeploy, p.plan)
      /\ Prompt => StopPlanned(row[h], p.report, p.plan)
  BY ThreadOf DEF Write, Thread, ThreadOK, Decided
<1>2. ping' = [ping EXCEPT ![h][i] = Free] /\ UNCHANGED <<tables, lock, disk, progress, stopped, ops>>
      /\ envDeploy' = envDeploy /\ alias' = alias
      /\ agent' = IF agent[h].slot = i THEN [agent EXCEPT ![h] = b] ELSE agent
  BY DEF Write, tables
<1>3. /\ row' \in [Hosts -> Row \cup {Null}] /\ \A k \in Hosts \ {h} : row'[k] = row[k]
      /\ y \in Written(row[h], p.plan) /\ faults' \in 0..MaxFaults /\ BeanOK(envDeploy, y)
  BY WriteRow
<1>4. ASSUME Prompt
      PROVE  agent[h].slot = i /\ agent[h].pc = "waiting" /\ p.report = agent[h].report /\ p.report = disk[h]
             /\ StopAsked(row[h], p.report)
             /\ (agent[h].why = "fatal" => disk[h] # Null /\ disk[h].status \in FatalStatus)
  BY <1>1, <1>4, ThreadOf DEF Alone, Tells
<1>5. ping'[h] = [ping[h] EXCEPT ![i] = Free] /\ disk'[h] = disk[h]
  BY <1>2, FreeIs, PingIs
<1> HIDE DEF y
<1>6. CASE agent[h].slot = i
  <2>1. /\ b \in Agent /\ AgentOK(envDeploy, b) /\ b.pc # "waiting"
        /\ Works(b) => b.report.status \notin FatalStatus
    <3>1. p.plan.goal \in Goal /\ (p.plan.goal.op # "NOOP" => About(envDeploy, p.plan.goal))
      BY <1>1 DEF Plan, PlanOK
    <3>2. agent[h] \in Agent
      BY HostOf
    <3> HIDE DEF p
    <3> QED BY <3>1, <3>2, ReceiveIs
  <2>2. Prompt => StopAsked(y, Tells(b, disk[h]))
    <3>1. SUFFICES ASSUME Prompt PROVE StopAsked(y, Tells(b, disk[h]))
      OBVIOUS
    <3>2. StopAsked(row[h], disk[h]) /\ StopPlanned(row[h], disk[h], p.plan)
          /\ agent[h].report = disk[h]
      BY <1>1, <1>4, <3>1
    <3>3. row[h] \in Row \cup {Null} /\ BeanOK(envDeploy, row[h]) /\ agent[h] \in Agent
      BY HostOf, ThreadOf
    <3>4. agent[h].why = "fatal" => disk[h] # Null /\ disk[h].status \in FatalStatus
      BY <1>4, <3>1
    <3> HIDE DEF p
    <3> QED BY <1>1, <1>3, <3>2, <3>3, <3>4, WrittenIs
  <2> HIDE DEF b
  <2>3. HostInv(envDeploy, alias, y, b, disk[h], [ping[h] EXCEPT ![i] = Free])
    BY <1>3, <1>6, <2>1, <2>2, HostOf, Answered
  <2>4. agent' = [agent EXCEPT ![h] = b]
    BY <1>2, <1>6
  <2>5. TypeOK'
    BY <1>2, <1>3, <2>1, <2>4, FreeIs, PingIs DEF IInv, TypeOK, tables
  <2>6. Others(h) /\ agent'[h] = b
    BY <1>2, <1>3, <2>4, FreeIs, PingIs DEF IInv, TypeOK, Others
  <2>7. HostInv(envDeploy, alias, row'[h], agent'[h], disk'[h], ping'[h])
    BY <1>5, <2>3, <2>6 DEF y
  <2> QED BY <1>2, <2>5, <2>6, <2>7, OneHost
<1>7. CASE agent[h].slot # i
  <2>1. agent' = agent /\ agent'[h] = agent[h] /\ ~Prompt
    BY <1>2, <1>4, <1>7
  <2>2. HostInv(envDeploy, alias, y, agent[h], disk[h], [ping[h] EXCEPT ![i] = Free])
    BY <1>1, <1>3, <2>1, HostOf, ThreadEnds
  <2>3. TypeOK' /\ Others(h)
    BY <1>2, <1>3, <2>1, FreeIs, PingIs DEF IInv, TypeOK, Others, tables
  <2>4. HostInv(envDeploy, alias, row'[h], agent'[h], disk'[h], ping'[h])
    BY <1>5, <2>1, <2>2 DEF y
  <2> QED BY <1>2, <2>3, <2>4, OneHost
<1> QED BY <1>6, <1>7

-----------------------------------------------------------------------------
(* The agent. *)

\* Agent b sends its report in the free slot i, its status file being f by now.
LEMMA Sent ==
  ASSUME NEW e, NEW al, NEW x, NEW a, NEW d, NEW g \in [Slots -> Thread], HostInv(e, al, x, a, d, g),
         NEW i \in Slots, NEW b, AgentOK(e, b), b.pc = "waiting", b.slot = i, NEW f, Known(e, f),
         NEW t \in Thread, t.pc = "new", t.report = b.report,
         Prompt => /\ a.pc # "waiting" /\ b.report = f /\ StopAsked(x, b.report)
                   /\ b.why = "fatal" => f # Null /\ f.status \in FatalStatus
                   /\ b.why = "poll" => f.status \notin FatalStatus
  PROVE  HostInv(e, al, x, b, f, [g EXCEPT ![i] = t])
<1> DEFINE q == [g EXCEPT ![i] = t]
<1>1. \A j \in Slots : q[j] = IF j = i THEN t ELSE g[j]
  OBVIOUS
<1> HIDE DEF q
<1>2. ThreadOK(e, al, t)
  BY DEF ThreadOK, AgentOK, Decided
<1>3. Sane(e, al, x, b, f, q)
  BY <1>1, <1>2 DEF HostInv, Sane
<1>4. ASSUME Prompt PROVE OnTime(x, b, f, q)
  <2>1. \A j \in Slots \ {i} : q[j].pc = "free"
    BY <1>1, <1>4 DEF HostInv, OnTime, Alone
  <2>2. Alone(b, f, q)
    BY <1>1, <1>4, <2>1 DEF Alone, Works
  <2> QED BY <1>1, <1>4, <2>1, <2>2 DEF OnTime, Tells, Decided
<1> QED BY <1>3, <1>4 DEF HostInv, q

LEMMA SendIs ==
  ASSUME IInv, NEW h \in Hosts, NEW i \in Slots, NEW b \in Agent, Send(h, i, b)
  PROVE  LET w == [b EXCEPT !.pc = "waiting", !.slot = i]
             t == [Free EXCEPT !.pc = "new", !.report = b.report] IN
         /\ w \in Agent /\ w.pc = "waiting" /\ w.slot = i
         /\ w.why = b.why /\ w.report = b.report /\ w.goal = b.goal
         /\ t \in Thread /\ t.pc = "new" /\ t.report = b.report
         /\ agent' \in [Hosts -> Agent] /\ agent'[h] = w
         /\ ping' \in [Hosts -> [Slots -> Thread]] /\ ping'[h] = [ping[h] EXCEPT ![i] = t]
         /\ \A k \in Hosts \ {h} : agent'[k] = agent[k] /\ ping'[k] = ping[k]
<1> DEFINE w == [b EXCEPT !.pc = "waiting", !.slot = i]
           t == [Free EXCEPT !.pc = "new", !.report = b.report]
<1>1. /\ w \in Agent /\ w.pc = "waiting" /\ w.slot = i
      /\ w.why = b.why /\ w.report = b.report /\ w.goal = b.goal
  BY DEF Agent
<1>2. b.report \in Report \cup {Null}
  BY DEF Agent
<1>3. t \in Thread /\ t.pc = "new" /\ t.report = b.report
  BY <1>2, FreeIs DEF Thread
<1>4. agent' = [agent EXCEPT ![h] = w] /\ ping' = [ping EXCEPT ![h][i] = t]
  BY DEF Send
<1> HIDE DEF w, t
<1>5. agent' \in [Hosts -> Agent] /\ agent'[h] = w /\ \A k \in Hosts \ {h} : agent'[k] = agent[k]
  BY <1>1, <1>4 DEF IInv, TypeOK
<1>6. /\ ping' \in [Hosts -> [Slots -> Thread]] /\ ping'[h] = [ping[h] EXCEPT ![i] = t]
      /\ \A k \in Hosts \ {h} : ping'[k] = ping[k]
  BY <1>3, <1>4, PingIs
<1> QED BY <1>1, <1>3, <1>5, <1>6 DEF w, t

\* A step in which agent b sends its report, its status file being f by then.
LEMMA SendKeeps ==
  ASSUME IInv, NEW h \in Hosts, NEW i \in Slots, NEW b \in Agent, Send(h, i, b),
         NEW f \in Report \cup {Null}, Known(envDeploy, f),
         disk' = [disk EXCEPT ![h] = f],
         Known(envDeploy, b.report),
         b.why = "poll" => /\ b.report # Null /\ b.goal.op \notin {"NOOP", "DELETE"}
                           /\ b.report.deploy = b.goal.deploy /\ b.report.alias = b.goal.alias
                           /\ b.report.stage = b.goal.stage,
         Prompt => /\ agent[h].pc # "waiting" /\ b.report = f /\ StopAsked(row[h], f)
                   /\ b.why = "fatal" => f # Null /\ f.status \in FatalStatus
                   /\ b.why = "poll" => f.status \notin FatalStatus,
         UNCHANGED <<tables, row, lock, ops>>,
         progress' \in [Hosts -> [ids : SUBSET Deploys, done : 0..Len(Stages)]],
         stopped' \in [Hosts -> BOOLEAN], faults' \in 0..MaxFaults
  PROVE  IInv'
<1> DEFINE w == [b EXCEPT !.pc = "waiting", !.slot = i]
           t == [Free EXCEPT !.pc = "new", !.report = b.report]
<1>1. /\ w \in Agent /\ w.pc = "waiting" /\ w.slot = i
      /\ w.why = b.why /\ w.report = b.report /\ w.goal = b.goal
      /\ t \in Thread /\ t.pc = "new" /\ t.report = b.report
      /\ agent' \in [Hosts -> Agent] /\ agent'[h] = w
      /\ ping' \in [Hosts -> [Slots -> Thread]] /\ ping'[h] = [ping[h] EXCEPT ![i] = t]
      /\ \A k \in Hosts \ {h} : agent'[k] = agent[k] /\ ping'[k] = ping[k]
  BY SendIs
<1> HIDE DEF w, t
<1>2. /\ disk' \in [Hosts -> Report \cup {Null}] /\ disk'[h] = f
      /\ \A k \in Hosts \ {h} : disk'[k] = disk[k]
  BY DEF IInv, TypeOK
<1>3. TypeOK'
  BY <1>1, <1>2 DEF IInv, TypeOK, tables
<1>4. Others(h) /\ row'[h] = row[h] /\ envDeploy' = envDeploy /\ alias' = alias
  BY <1>1, <1>2 DEF Others, tables
<1>5. AgentOK(envDeploy, w)
  BY <1>1 DEF AgentOK, Works
<1>6. HostInv(envDeploy, alias, row[h], w, f, [ping[h] EXCEPT ![i] = t])
  BY <1>1, <1>5, HostOf, Sent
<1>7. HostInv(envDeploy, alias, row'[h], agent'[h], disk'[h], ping'[h])
  BY <1>1, <1>2, <1>4, <1>6
<1> QED BY <1>3, <1>4, <1>7, OneHost

LEMMA AgentOf ==
  ASSUME IInv, NEW h \in Hosts
  PROVE  /\ agent[h] \in Agent /\ AgentOK(envDeploy, agent[h])
         /\ disk[h] \in Report \cup {Null} /\ Known(envDeploy, disk[h])
         /\ Prompt => Alone(agent[h], disk[h], ping[h]) /\ StopAsked(row[h], Tells(agent[h], disk[h]))
BY HostOf DEF HostInv, Sane, OnTime

LEMMA StartKeeps ==
  ASSUME IInv, NEW h \in Hosts, Start(h)
  PROVE  IInv'
<1> DEFINE b == [Asleep EXCEPT !.report = disk[h]]
<1>1. PICK i \in Slots : Send(h, i, b)
  BY DEF Start
<1>2. disk[h] \in Report \cup {Null} /\ Known(envDeploy, disk[h]) /\ agent[h].pc = "asleep"
  BY AgentOf DEF Start
<1>3. b \in Agent /\ b.why = "start" /\ b.report = disk[h]
  BY <1>2, AsleepIs DEF Agent
<1> HIDE DEF b
<1>4. Prompt => StopAsked(row[h], disk[h])
  BY <1>2, AgentOf DEF Tells
<1>5. disk' = [disk EXCEPT ![h] = disk[h]] /\ UNCHANGED <<tables, row, lock, ops>>
      /\ progress' \in [Hosts -> [ids : SUBSET Deploys, done : 0..Len(Stages)]]
      /\ stopped' \in [Hosts -> BOOLEAN] /\ faults' \in 0..MaxFaults
  BY DEF Start, IInv, TypeOK
<1> QED BY <1>1, <1>2, <1>3, <1>4, <1>5, SendKeeps

\* What DumpAndSend is called with: a report about the goal, or none.
LEMMA DumpKeeps ==
  ASSUME IInv, NEW h \in Hosts, agent[h].pc = "running", NEW why \in {"poll", "done", "fatal"},
         NEW report \in Report \cup {Null}, DumpAndSend(h, why, report),
         IF report = Null THEN why = "done"
         ELSE /\ agent[h].goal.op # "DELETE"
              /\ report.deploy = agent[h].report.deploy /\ report.alias = agent[h].report.alias
              /\ report.stage = agent[h].report.stage
              /\ why = "fatal" => report.status \in FatalStatus
              /\ why = "poll" => report.status \notin FatalStatus,
         UNCHANGED <<tables, row, lock, ops>>,
         progress' \in [Hosts -> [ids : SUBSET Deploys, done : 0..Len(Stages)]],
         stopped' \in [Hosts -> BOOLEAN]
  PROVE  IInv'
<1> DEFINE a == agent[h]
           failed == IF report = Null THEN Null ELSE [report EXCEPT !.status = "TOO_MANY_RETRY"]
<1>1. a \in Agent /\ AgentOK(envDeploy, a) /\ Works(a) /\ disk[h] \in Report \cup {Null}
      /\ Known(envDeploy, disk[h])
  BY AgentOf DEF Works
<1>2. a.report # Null /\ a.goal.op # "NOOP" /\ About(envDeploy, a.report)
      /\ a.report.deploy = a.goal.deploy /\ a.report.alias = a.goal.alias
      /\ a.report.stage = a.goal.stage
  BY <1>1 DEF AgentOK, Known
<1>3. Known(envDeploy, report)
  BY <1>2 DEF Known, About
<1>4. PICK i \in Slots :
        \/ /\ disk' = [disk EXCEPT ![h] = report] /\ faults' = faults
           /\ Send(h, i, [agent[h] EXCEPT !.why = why, !.report = report])
        \/ /\ \E left \in {disk[h], Null} : disk' = [disk EXCEPT ![h] = left]
           /\ Send(h, i, [agent[h] EXCEPT !.why = why, !.report = failed])
           /\ Fault("DISK")
  BY DEF DumpAndSend
<1>5. CASE /\ disk' = [disk EXCEPT ![h] = report] /\ faults' = faults
           /\ Send(h, i, [agent[h] EXCEPT !.why = why, !.report = report])
  <2> DEFINE b == [agent[h] EXCEPT !.why = why, !.report = report]
  <2>1. b \in Agent /\ b.why = why /\ b.report = report /\ b.goal = a.goal
    BY <1>1 DEF Agent
  <2>2. Prompt => StopAsked(row[h], report)
    <3>1. Prompt /\ report # Null => StopAsked(row[h], a.report) /\ a.report.status \notin FatalStatus
      BY <1>1, AgentOf DEF Tells, Alone
    <3> QED BY <1>2, <3>1 DEF StopAsked
  <2>3. faults' \in 0..MaxFaults
    BY <1>5 DEF IInv, TypeOK
  <2> HIDE DEF b
  <2>4. why = "poll" => report # Null
    OBVIOUS
  <2>5. Send(h, i, b)
    BY <1>5 DEF b
  <2> QED BY <1>2, <1>3, <1>5, <2>1, <2>2, <2>3, <2>4, <2>5, SendKeeps
<1>6. CASE /\ \E left \in {disk[h], Null} : disk' = [disk EXCEPT ![h] = left]
           /\ Send(h, i, [agent[h] EXCEPT !.why = why, !.report = failed])
           /\ Fault("DISK")
  <2> DEFINE b == [agent[h] EXCEPT !.why = why, !.report = failed]
  <2>1. PICK left \in {disk[h], Null} : disk' = [disk EXCEPT ![h] = left]
    BY <1>6
  <2>2. ~Prompt /\ faults' \in 0..MaxFaults
    BY <1>6, FaultTyped DEF Prompt
  <2>3. /\ failed \in Report \cup {Null} /\ (report = Null <=> failed = Null)
        /\ report # Null => /\ failed.deploy = report.deploy /\ failed.alias = report.alias
                            /\ failed.stage = report.stage
    BY NullApart DEF Report, AgentStatus, FatalStatus
  <2>4. Known(envDeploy, failed)
    BY <1>3, <2>3 DEF Known, About
  <2> HIDE DEF failed
  <2>5. b \in Agent /\ b.why = why /\ b.report = failed /\ b.goal = a.goal
    BY <1>1, <2>3 DEF Agent
  <2>6. left \in Report \cup {Null} /\ Known(envDeploy, left)
    BY <1>1 DEF Known
  <2>7. Send(h, i, b)
    BY <1>6
  <2> HIDE DEF b
  <2> QED BY <1>2, <2>1, <2>2, <2>3, <2>4, <2>5, <2>6, <2>7, SendKeeps
<1> QED BY <1>4, <1>5, <1>6

LEMMA PollKeeps ==
  ASSUME IInv, NEW h \in Hosts, Poll(h)
  PROVE  IInv'
<1> DEFINE r(status) == [agent[h].report EXCEPT !.status = status]
<1>1. agent[h].pc = "running" /\ agent[h].goal.op # "DELETE" /\ agent[h].report \in Report
  BY AgentOf DEF Poll, AgentOK, Works, Agent
<1>2. PICK status \in {"UNKNOWN", "SCRIPT_FAILED"} : DumpAndSend(h, "poll", r(status))
  BY DEF Poll
<1>3. /\ r(status) \in Report /\ r(status).status = status
      /\ r(status).deploy = agent[h].report.deploy /\ r(status).alias = agent[h].report.alias
      /\ r(status).stage = agent[h].report.stage
  BY <1>1 DEF Report, AgentStatus
<1> HIDE DEF r
<1>4. /\ UNCHANGED <<tables, row, lock, ops>>
      /\ progress' \in [Hosts -> [ids : SUBSET Deploys, done : 0..Len(Stages)]]
      /\ stopped' \in [Hosts -> BOOLEAN]
  BY DEF Poll, IInv, TypeOK
<1>5. r(status) # Null /\ status \notin FatalStatus
  BY <1>3, NullApart DEF FatalStatus
<1> QED BY <1>1, <1>2, <1>3, <1>4, <1>5, DumpKeeps

LEMMA AdvanceIs ==
  ASSUME NEW p \in [ids : SUBSET Deploys, done : 0..Len(Stages)], NEW goal \in Goal
  PROVE  Advance(p, goal) \in [ids : SUBSET Deploys, done : 0..Len(Stages)]
<1> DEFINE ids  == {goal.deploy, goal.alias} \ {NoDeploy}
           here == {k \in 1..Len(Stages) : Stages[k] = goal.stage}
<1>1. ids \in SUBSET Deploys
  BY DEF Goal, Deploy0
<1>2. 1 \in 0..Len(Stages) /\ here \subseteq 0..Len(Stages)
  BY StagesAssumption
<1> QED BY <1>1, <1>2 DEF Advance

LEMMA FinishKeeps ==
  ASSUME IInv, NEW h \in Hosts, Finish(h)
  PROVE  IInv'
<1> DEFINE a == agent[h]
           r(status) == [a.report EXCEPT !.status = status]
<1>1. a.pc = "running" /\ a \in Agent /\ a.report \in Report
  BY AgentOf DEF Finish, AgentOK, Works, Agent
<1>2. /\ UNCHANGED <<tables, row, lock, ops>>
      /\ progress \in [Hosts -> [ids : SUBSET Deploys, done : 0..Len(Stages)]]
      /\ stopped \in [Hosts -> BOOLEAN]
  BY DEF Finish, IInv, TypeOK
<1>3. ASSUME NEW status \in AgentStatus
      PROVE  /\ r(status) \in Report /\ r(status).status = status /\ r(status) # Null
             /\ r(status).deploy = a.report.deploy /\ r(status).alias = a.report.alias
             /\ r(status).stage = a.report.stage
  BY <1>1, NullApart DEF Report
<1> HIDE DEF r
<1>4. CASE a.goal.op = "DELETE" /\ DumpAndSend(h, "done", Null) /\ UNCHANGED <<progress, stopped>>
  BY <1>1, <1>2, <1>4, DumpKeeps
<1>5. CASE /\ a.goal.op # "DELETE" /\ DumpAndSend(h, "done", r("SUCCEEDED"))
           /\ progress' = [progress EXCEPT ![h] = Advance(progress[h], a.goal)]
           /\ stopped' = [stopped EXCEPT ![h] = stopped[h] \/ a.goal.stage = "STOPPING"]
  <2>1. a.goal \in Goal
    BY <1>1 DEF Agent
  <2>2. progress' \in [Hosts -> [ids : SUBSET Deploys, done : 0..Len(Stages)]]
    BY <1>2, <1>5, <2>1, AdvanceIs
  <2>3. stopped' \in [Hosts -> BOOLEAN]
    BY <1>2, <1>5
  <2>4. "SUCCEEDED" \in AgentStatus
    BY DEF AgentStatus
  <2> QED BY <1>1, <1>2, <1>3, <1>5, <2>2, <2>3, <2>4, DumpKeeps
<1>6. CASE /\ a.goal.op # "DELETE" /\ DumpAndSend(h, "fatal", r("TOO_MANY_RETRY"))
           /\ UNCHANGED <<progress, stopped>>
  <2>1. "TOO_MANY_RETRY" \in AgentStatus /\ "TOO_MANY_RETRY" \in FatalStatus
    BY DEF AgentStatus, FatalStatus
  <2> QED BY <1>1, <1>2, <1>3, <1>6, <2>1, DumpKeeps
<1> QED BY <1>4, <1>5, <1>6 DEF Finish, r

\* Steps of clients that do not wait and agents that die: what Prompt excludes.
LEMMA RetryKeeps ==
  ASSUME IInv, NEW h \in Hosts, Retry(h)
  PROVE  IInv'
<1>1. PICK i \in Slots : Send(h, i, agent[h])
  BY DEF Retry
<1>2. ~Prompt /\ faults' \in 0..MaxFaults
  BY FaultTyped DEF Retry, Prompt
<1>3. /\ agent[h] \in Agent /\ AgentOK(envDeploy, agent[h]) /\ agent[h].pc = "waiting"
      /\ disk[h] \in Report \cup {Null} /\ Known(envDeploy, disk[h])
  BY AgentOf DEF Retry
<1>4. /\ Known(envDeploy, agent[h].report)
      /\ agent[h].why = "poll" => /\ agent[h].report # Null /\ agent[h].goal.op \notin {"NOOP", "DELETE"}
                                  /\ agent[h].report.deploy = agent[h].goal.deploy
                                  /\ agent[h].report.alias = agent[h].goal.alias
                                  /\ agent[h].report.stage = agent[h].goal.stage
  BY <1>3 DEF AgentOK, Works
<1>5. disk' = [disk EXCEPT ![h] = disk[h]] /\ UNCHANGED <<tables, row, lock, ops>>
      /\ progress' \in [Hosts -> [ids : SUBSET Deploys, done : 0..Len(Stages)]]
      /\ stopped' \in [Hosts -> BOOLEAN]
  BY DEF Retry, IInv, TypeOK
<1> QED BY <1>1, <1>2, <1>3, <1>4, <1>5, SendKeeps

LEMMA AbandonIs ==
  ASSUME IInv, NEW h \in Hosts, Abandon(h)
  PROVE  /\ ping' \in [Hosts -> [Slots -> Thread]] /\ \A k \in Hosts \ {h} : ping'[k] = ping[k]
         /\ \A i \in Slots : ThreadOK(envDeploy, alias, ping'[h][i])
<1> DEFINE i == agent[h].slot
<1>1. CASE ping' = ping
  BY <1>1, ThreadOf DEF IInv, TypeOK
<1>2. CASE i # Null /\ ping' = [ping EXCEPT ![h][i] = Free]
  <2>1. i \in Slots
    BY <1>2, AgentOf DEF Agent
  <2> QED BY <1>2, <2>1, FreeIs, FreeOK, PingIs, HostOf, ThreadOf
<1> QED BY <1>1, <1>2 DEF Abandon

LEMMA LeaveKeeps ==
  ASSUME IInv, NEW h \in Hosts, ~Prompt, Abandon(h),
         NEW b \in Agent, AgentOK(envDeploy, b), agent' = [agent EXCEPT ![h] = b],
         NEW f \in Report \cup {Null}, Known(envDeploy, f), disk' = [disk EXCEPT ![h] = f],
         faults' \in 0..MaxFaults, UNCHANGED <<tables, row, lock, progress, stopped, ops>>
  PROVE  IInv'
<1>1. /\ ping' \in [Hosts -> [Slots -> Thread]] /\ \A k \in Hosts \ {h} : ping'[k] = ping[k]
      /\ \A i \in Slots : ThreadOK(envDeploy, alias, ping'[h][i])
  BY AbandonIs
<1>2. TypeOK'
  BY <1>1 DEF IInv, TypeOK, tables
<1>3. Others(h) /\ envDeploy' = envDeploy /\ alias' = alias
      /\ row'[h] = row[h] /\ agent'[h] = b /\ disk'[h] = f
  BY <1>1 DEF IInv, TypeOK, Others, tables
<1>4. BeanOK(envDeploy, row[h])
  BY HostOf DEF HostInv, Sane
<1>5. HostInv(envDeploy, alias, row'[h], agent'[h], disk'[h], ping'[h])
  BY <1>1, <1>3, <1>4 DEF HostInv, Sane
<1> QED BY <1>2, <1>3, <1>5, OneHost

LEMMA GiveUpKeeps ==
  ASSUME IInv, NEW h \in Hosts, GiveUp(h)
  PROVE  IInv'
<1> DEFINE b == NoAnswer(agent[h])
<1>1. ~Prompt /\ faults' \in 0..MaxFaults
  BY FaultTyped DEF GiveUp, Prompt
<1>2. b \in Agent /\ AgentOK(envDeploy, b)
  BY AgentOf, NoAnswerIs DEF GiveUp
<1>3. agent' = [agent EXCEPT ![h] = b] /\ Abandon(h) /\ disk' = [disk EXCEPT ![h] = disk[h]]
      /\ UNCHANGED <<tables, row, lock, progress, stopped, ops>>
  BY DEF GiveUp, IInv, TypeOK
<1> HIDE DEF b
<1> QED BY <1>1, <1>2, <1>3, AgentOf, LeaveKeeps

LEMMA CrashKeeps ==
  ASSUME IInv, NEW h \in Hosts, Crash(h)
  PROVE  IInv'
<1>1. ~Prompt /\ faults' \in 0..MaxFaults
  BY FaultTyped DEF Crash, Prompt
<1>2. Asleep \in Agent /\ AgentOK(envDeploy, Asleep)
  BY AsleepIs DEF AgentOK, Works, Known
<1>3. PICK f \in {disk[h], Null} : disk' = [disk EXCEPT ![h] = f]
  BY DEF Crash, IInv, TypeOK
<1>4. f \in Report \cup {Null} /\ Known(envDeploy, f)
  BY AgentOf DEF Known
<1>5. agent' = [agent EXCEPT ![h] = Asleep] /\ Abandon(h)
      /\ UNCHANGED <<tables, row, lock, progress, stopped, ops>>
  BY DEF Crash
<1> QED BY <1>1, <1>2, <1>3, <1>4, <1>5, LeaveKeeps

-----------------------------------------------------------------------------
(* Users, the janitor and LaunchEventCollector. *)

LEMMA RowKeeps ==
  ASSUME IInv, NEW h \in Hosts, row[h] # Null, NEW y \in Row \cup {Null}, row' = [row EXCEPT ![h] = y],
         BeanOK(envDeploy, y), "STOP" \in Ops => y # Null /\ y.state \in Sticky,
         UNCHANGED <<tables, lock, ping, agent, disk, progress, stopped, faults>>, ops' \in 0..MaxOps
  PROVE  IInv'
<1>1. TypeOK'
  BY DEF IInv, TypeOK, tables
<1>2. Others(h) /\ envDeploy' = envDeploy /\ alias' = alias
      /\ row'[h] = y /\ agent'[h] = agent[h] /\ disk'[h] = disk[h] /\ ping'[h] = ping[h]
  BY DEF IInv, TypeOK, Others, tables
<1>3. HostInv(envDeploy, alias, y, agent[h], disk[h], ping[h])
  BY HostOf DEF HostInv, Sane, OnTime, StopAsked, StopPlanned
<1>4. HostInv(envDeploy, alias, row'[h], agent'[h], disk'[h], ping'[h])
  BY <1>2, <1>3
<1> QED BY <1>1, <1>2, <1>4, OneHost

LEMMA OperateTyped ==
  ASSUME IInv, NEW op, Operate(op)
  PROVE  ops' \in 0..MaxOps /\ op \in Ops /\ ops' # ops
BY PingAssumption DEF IInv, TypeOK, Operate

LEMMA SetStateKeeps ==
  ASSUME IInv, NEW h \in Hosts, NEW state \in AgentState, SetState(h, state)
  PROVE  IInv'
<1> DEFINE y == [row[h] EXCEPT !.state = state]
<1>1. row[h] # Null /\ row[h] \in Row /\ BeanOK(envDeploy, row[h])
  BY HostOf DEF SetState, HostInv, Sane
<1>2. y \in Row /\ y.state = state /\ y.deploy = row[h].deploy /\ y.stage = row[h].stage
  BY <1>1 DEF Row
<1>3. ops' \in 0..MaxOps /\ state \in Ops
  BY OperateTyped DEF SetState
<1>4. row' = [row EXCEPT ![h] = y] /\ UNCHANGED <<tables, lock, ping, agent, disk, progress, stopped, faults>>
  BY DEF SetState
<1> HIDE DEF y
<1>5. BeanOK(envDeploy, y)
  BY <1>1, <1>2, <1>3 DEF BeanOK
<1>6. "STOP" \in Ops => y # Null /\ y.state \in Sticky
  <2>1. y # Null /\ state \in Ops \cap AgentState
    BY <1>2, <1>3, NullApart
  <2>2. "STOP" \in Ops => state \in Sticky
    BY <2>1, PingAssumption DEF Sticky, AgentState
  <2> QED BY <1>2, <2>1, <2>2
<1>7. y \in Row \cup {Null} /\ ops' \in 0..MaxOps /\ row[h] # Null
  BY <1>1, <1>2, <1>3
<1> QED BY <1>4, <1>5, <1>6, <1>7, RowKeeps

LEMMA ExpireKeeps ==
  ASSUME IInv, NEW h \in Hosts, Expire(h)
  PROVE  IInv'
<1>1. ops' \in 0..MaxOps /\ "EXPIRE" \in Ops
  BY OperateTyped DEF Expire
<1>2. "STOP" \notin Ops
  BY <1>1, PingAssumption
<1>3. row' = [row EXCEPT ![h] = Null] /\ row[h] # Null
      /\ UNCHANGED <<tables, lock, ping, agent, disk, progress, stopped, faults>>
  BY DEF Expire
<1> QED BY <1>1, <1>2, <1>3, RowKeeps DEF BeanOK

\* Steps that leave every host alone.
LEMMA HostsStay ==
  ASSUME IInv, TypeOK', UNCHANGED <<envDeploy, alias, row, agent, disk, ping>>
  PROVE  IInv'
BY DEF IInv, Inv

LEMMA ChangeCapacityKeeps ==
  ASSUME IInv, NEW h \in Hosts, ChangeCapacity(h)
  PROVE  IInv'
<1>1. TypeOK'
  BY OperateTyped DEF ChangeCapacity, IInv, TypeOK
<1> QED BY <1>1, HostsStay DEF ChangeCapacity

LEMMA PauseEnvKeeps ==
  ASSUME IInv, PauseEnv
  PROVE  IInv'
<1>1. TypeOK'
  BY OperateTyped DEF PauseEnv, IInv, TypeOK
<1> QED BY <1>1, HostsStay DEF PauseEnv

LEMMA StutterKeeps ==
  ASSUME IInv, UNCHANGED vars
  PROVE  IInv'
<1>1. TypeOK'
  BY DEF vars, tables, IInv, TypeOK
<1> QED BY <1>1, HostsStay DEF vars, tables

\* What was sane before a new deploy is sane after it.
LEMMA Later ==
  ASSUME NEW e \in Nat, NEW al, NEW m, \A k \in 1..e : m[k] = al[k],
         NEW x, NEW a, NEW d, NEW g, HostInv(e, al, x, a, d, g)
  PROVE  HostInv(e + 1, m, x, a, d, g)
<1>1. 1..e \subseteq 1..(e + 1) /\ 0..e \subseteq 0..(e + 1)
  OBVIOUS
<1>2. \A r : About(e, r) => About(e + 1, r)
  BY <1>1 DEF About
<1>3. \A r : BeanOK(e, r) => BeanOK(e + 1, r)
  BY <1>1 DEF BeanOK
<1>4. \A env : EnvOK(e, al, env) => EnvOK(e + 1, m, env)
  BY PingAssumption DEF EnvOK
<1>5. \A t : ThreadOK(e, al, t) => ThreadOK(e + 1, m, t)
  BY <1>2, <1>3, <1>4 DEF ThreadOK, PlanOK, Known
<1>6. AgentOK(e, a) => AgentOK(e + 1, a)
  BY <1>2 DEF AgentOK, Known
<1>7. Sane(e, al, x, a, d, g) => Sane(e + 1, m, x, a, d, g)
  BY <1>2, <1>3, <1>5, <1>6 DEF Sane, Known
<1> QED BY <1>7 DEF HostInv

LEMMA NewDeployKeeps ==
  ASSUME IInv, NewDeploy
  PROVE  IInv'
<1> DEFINE e == envDeploy
<1>1. e \in Nat /\ e + 1 \in Deploys /\ e \in Deploy0 /\ AliasOK(e, alias) /\ alias \in [Deploys -> Deploy0]
  BY PingAssumption DEF NewDeploy, IInv, Inv, TypeOK, Deploy0, Deploys
<1>2. PICK d \in 0..e : alias' = [alias EXCEPT ![e + 1] = d]
  <2>1. \E d \in IF Rollbacks THEN 0..e ELSE {NoDeploy} : alias' = [alias EXCEPT ![envDeploy'] = d]
    BY DEF NewDeploy
  <2>2. envDeploy' = e + 1
    BY DEF NewDeploy
  <2>3. NoDeploy \in 0..e
    BY <1>1, PingAssumption
  <2> QED BY <2>1, <2>2, <2>3
<1>3. envDeploy' = e + 1 /\ UNCHANGED <<onHold, member, row, lock, ping, agent, disk, progress, stopped, faults, ops>>
  BY DEF NewDeploy
<1>4. d \in Deploy0
  BY <1>1, PingAssumption DEF Deploy0, Deploys
<1>5. TypeOK'
  BY <1>1, <1>2, <1>3, <1>4 DEF IInv, TypeOK, Deploy0
<1>6. AliasOK(e + 1, alias')
  BY <1>1, <1>2 DEF AliasOK, Deploys
<1>7. \A k \in 1..e : alias'[k] = alias[k]
  BY <1>1, <1>2 DEF Deploys
<1>8. ASSUME NEW h \in Hosts
      PROVE  HostInv(e + 1, alias', row[h], agent[h], disk[h], ping[h])
  BY <1>1, <1>7, HostOf, Later
<1> QED BY <1>3, <1>5, <1>6, <1>8 DEF IInv, Inv

-----------------------------------------------------------------------------
LEMMA IInvInit == ASSUME Init PROVE IInv
<1> USE DEF Init
<1>0. Len(Stages) \in Nat /\ "SERVING_BUILD" \in InstallStages
  BY StagesAssumption DEF InstallStages
<1>1. /\ envDeploy \in Deploy0 /\ (Serving # {} => envDeploy = 1 /\ 1 \in Deploys)
  BY PingAssumption DEF Deploy0, Deploys
<1>2. ASSUME NEW h \in Hosts, Serving # {}
      PROVE  /\ ServesFirst(h) \in Row /\ BeanOK(1, ServesFirst(h))
             /\ ReportsFirst(h) \in Report /\ Known(1, ReportsFirst(h))
             /\ ReportsFirst(h).stage = "SERVING_BUILD"
  BY <1>0, <1>1, <1>2, PingAssumption
     DEF ServesFirst, ReportsFirst, Row, Report, BeanOK, Known, About, Deploy0, DeployStage,
         AgentState, AgentStatus
<1>3. AliasOK(envDeploy, alias) /\ alias \in [Deploys -> Deploy0]
  BY PingAssumption DEF AliasOK, Deploys, Deploy0
<1>4. TypeOK
  <2>1. /\ row \in [Hosts -> Row \cup {Null}] /\ disk \in [Hosts -> Report \cup {Null}]
    BY <1>2
  <2>2. ping \in [Hosts -> [Slots -> Thread]] /\ agent \in [Hosts -> Agent]
    BY FreeIs, AsleepIs
  <2>3. progress \in [Hosts -> [ids : SUBSET Deploys, done : 0..Len(Stages)]]
    BY <1>0, <1>1
  <2>4. onHold \in BOOLEAN /\ member \subseteq Hosts /\ lock \in (Hosts \X Slots) \cup {Null}
        /\ stopped \in [Hosts -> BOOLEAN]
    OBVIOUS
  <2>5. faults \in 0..MaxFaults /\ ops \in 0..MaxOps
    BY PingAssumption
  <2> QED BY <1>1, <1>3, <2>1, <2>2, <2>3, <2>4, <2>5 DEF TypeOK
<1>5. ASSUME NEW h \in Hosts
      PROVE  HostInv(envDeploy, alias, row[h], agent[h], disk[h], ping[h])
  <2>1. agent[h] = Asleep /\ \A i \in Slots : ping[h][i] = Free
    OBVIOUS
  <2>2. AgentOK(envDeploy, agent[h])
    BY <2>1, AsleepIs DEF AgentOK, Works, Known
  <2>3. BeanOK(envDeploy, row[h]) /\ Known(envDeploy, disk[h])
    BY <1>1, <1>2 DEF BeanOK, Known
  <2>4. Sane(envDeploy, alias, row[h], agent[h], disk[h], ping[h])
    BY <2>1, <2>2, <2>3, FreeOK DEF Sane
  <2>5. Alone(agent[h], disk[h], ping[h])
    BY <2>1, AsleepIs, FreeIs DEF Alone, Works
  <2>6. StopAsked(row[h], disk[h])
    BY <1>2 DEF StopAsked, StopStages
  <2>7. OnTime(row[h], agent[h], disk[h], ping[h])
    BY <2>1, <2>5, <2>6, AsleepIs, FreeIs DEF OnTime, Tells, Decided
  <2> QED BY <2>4, <2>7 DEF HostInv
<1> QED BY <1>3, <1>4, <1>5 DEF IInv, Inv

LEMMA IInvStep == ASSUME IInv, [Next]_vars PROVE IInv'
<1>1. ASSUME NEW h \in Hosts, AgentStep(h) PROVE IInv'
  BY <1>1, StartKeeps, PollKeeps, FinishKeeps DEF AgentStep
<1>2. ASSUME NEW h \in Hosts, AgentFault(h) PROVE IInv'
  BY <1>2, RetryKeeps, GiveUpKeeps, CrashKeeps DEF AgentFault
<1>3. ASSUME NEW h \in Hosts, Operation(h) PROVE IInv'
  BY <1>3, ChangeCapacityKeeps, SetStateKeeps, ExpireKeeps DEF Operation
<1>4. ASSUME NEW h \in Hosts, NEW i \in Slots, PingStep(h, i) PROVE IInv'
  BY <1>4, ReadEnvKeeps, AnalyseKeeps, SeatKeeps, OccupyKeeps, WriteKeeps DEF PingStep
<1> QED BY <1>1, <1>2, <1>3, <1>4, NewDeployKeeps, PauseEnvKeeps, StutterKeeps DEF Next

LEMMA IInvHolds == Spec => []IInv
BY IInvInit, IInvStep, PTL DEF Spec

\* Whatever is lost, late or repeated, and whatever users and the janitor do,
\* threads and agents hold what the code takes them to hold: GoalAnalyst never
\* proposes a stage after STOPPED, and beans and goals are complete.
THEOREM TypeCorrect == Spec => []TypeOK
<1>1. IInv => TypeOK
  BY DEF IInv
<1> QED BY <1>1, IInvHolds, PTL
-----------------------------------------------------------------------------
(***************************************************************************)
(* What a step does to host h when clients wait for their answers. The     *)
(* invariants of PingHaltProofs, PingSeatProofs and PingInstallProofs      *)
(* speak of one host, too, and are shown to survive these effects.         *)
(***************************************************************************)
SameWork(h) == agent'[h] = agent[h] /\ disk'[h] = disk[h]
SameHistory(h) == progress'[h] = progress[h] /\ stopped'[h] = stopped[h]

\* The pings of h go on: a thread reads the environment, and decides from the
\* row, as they are.
Reading(t, u) ==
  u.pc = "read" /\ u.report = t.report /\ (u.env # Null => u.env.deploy = envDeploy)
Deciding(t, x, u) ==
  /\ t.pc = "read" /\ u.report = t.report /\ u.plan = Process(t.env, t.report, x)
  /\ u.pc = IF u.plan.cand = Null \/ ~u.plan.wait THEN "write"
            ELSE IF u.plan.cand.first THEN "occupy" ELSE "seat"
Moving(t, u) ==
  /\ t.pc \in {"seat", "occupy"} /\ u.report = t.report
  /\ \/ t.pc = "seat" /\ u.pc = "occupy" /\ u.plan = t.plan
     \/ u.pc = "write" /\ u.plan = Nothing(t.plan.upd)
ThreadsGoOn(h) ==
  /\ SameWork(h) /\ SameHistory(h) /\ row'[h] = row[h]
  /\ \A i \in Slots : \/ ping'[h][i] = ping[h][i]
                      \/ Reading(ping[h][i], ping'[h][i])
                      \/ Deciding(ping[h][i], row[h], ping'[h][i])
                      \/ Moving(ping[h][i], ping'[h][i])

\* The thread in slot i takes its seat.
Occupies(h, i) ==
  /\ SameWork(h) /\ SameHistory(h)
  /\ ping[h][i].pc = "occupy" /\ row'[h] = ping[h][i].plan.cand
  /\ ping'[h] = [ping[h] EXCEPT ![i] = ping'[h][i]]
  /\ ping'[h][i].pc = "write" /\ ping'[h][i].plan = ping[h][i].plan
  /\ ping'[h][i].report = ping[h][i].report

\* It is done: the agent is answered, or not.
Answers(h, i) ==
  /\ SameHistory(h) /\ disk'[h] = disk[h]
  /\ ping[h][i].pc = "write" /\ ping'[h] = [ping[h] EXCEPT ![i] = Free]
  /\ row'[h] \in Written(row[h], ping[h][i].plan)
  /\ Faults = {} /\ ping[h][i].plan.cand # Null => row'[h] = ping[h][i].plan.cand
  /\ agent'[h] = Receive(agent[h], ping[h][i].plan.goal)
Fails(h, i) ==
  /\ SameHistory(h) /\ disk'[h] = disk[h] /\ row'[h] = row[h]
  /\ "WRITE" \in Faults /\ ping[h][i].pc = "occupy" /\ ping'[h] = [ping[h] EXCEPT ![i] = Free]
  /\ agent'[h] = NoAnswer(agent[h])

\* The agent reports; its status file says the same.
Wakes(h) ==
  agent[h].pc = "asleep" /\ disk'[h] = disk[h] /\ agent'[h].why = "start" /\ SameHistory(h)
Forgets(h) ==
  /\ agent[h].pc = "running" /\ agent[h].goal.op = "DELETE"
  /\ disk'[h] = Null /\ agent'[h].why = "done" /\ SameHistory(h)
RanScript(h, status, why) ==
  /\ agent[h].pc = "running" /\ agent[h].goal.op # "DELETE"
  /\ disk'[h] = [agent[h].report EXCEPT !.status = status]
  /\ agent'[h].why = why /\ agent'[h].goal = agent[h].goal
Succeeds(h) ==
  /\ RanScript(h, "SUCCEEDED", "done")
  /\ progress'[h] = Advance(progress[h], agent[h].goal)
  /\ stopped'[h] = (stopped[h] \/ agent[h].goal.stage = "STOPPING")
RunsOn(h) ==
  /\ SameHistory(h)
  /\ \/ \E status \in {"UNKNOWN", "SCRIPT_FAILED"} : RanScript(h, status, "poll")
     \/ RanScript(h, "TOO_MANY_RETRY", "fatal")
Reports(h) ==
  /\ row'[h] = row[h]
  /\ agent'[h].pc = "waiting" /\ agent'[h].report = disk'[h]
  /\ \A i \in Slots : ping'[h][i].pc \in {"free", "new"}
  /\ Wakes(h) \/ Forgets(h) \/ Succeeds(h) \/ RunsOn(h)

Operates(h) ==
  /\ SameWork(h) /\ SameHistory(h) /\ ping'[h] = ping[h] /\ row[h] # Null /\ ops' # ops
  /\ \/ row'[h] = Null /\ "EXPIRE" \in Ops
     \/ \E state \in Ops \cap AgentState : row'[h] = [row[h] EXCEPT !.state = state]

Effect(h) ==
  \/ ThreadsGoOn(h) \/ Reports(h) \/ Operates(h)
  \/ \E i \in Slots : Occupies(h, i) \/ Answers(h, i) \/ Fails(h, i)

Untouched(h) ==
  /\ SameWork(h) /\ SameHistory(h) /\ row'[h] = row[h] /\ ping'[h] = ping[h]

LEMMA UntouchedEffect == ASSUME NEW h, Untouched(h) PROVE Effect(h)
BY DEF Untouched, Effect, ThreadsGoOn

LEMMA PromptFaults == ASSUME IInv, Prompt, NEW kind, Fault(kind) PROVE kind = "WRITE"
BY DEF Prompt, Fault

\* A step of the thread in slot i of host h, seen from host k.
LEMMA PingStepEffect ==
  ASSUME IInv, Prompt, NEW h \in Hosts, NEW i \in Slots, PingStep(h, i), NEW k \in Hosts
  PROVE  Effect(k)
<1> DEFINE p == ping[h][i]
<1>1. p \in Thread /\ p.pc # "free"
  BY ThreadOf DEF PingStep, ReadEnv, Analyse, Seat, Occupy, Write
<1>2. agent[h].slot = i /\ agent[h].pc = "waiting"
  BY <1>1, ThreadOf DEF Alone
<1>3. ASSUME NEW t \in Thread, ping' = [ping EXCEPT ![h][i] = t]
      PROVE  /\ ping'[h] = [ping[h] EXCEPT ![i] = t] /\ ping'[h][i] = t
             /\ \A j \in Slots \ {i} : ping'[h][j] = ping[h][j]
             /\ k # h => ping'[k] = ping[k]
  BY <1>3, PingIs, HostOf
<1>4. ASSUME NEW t \in Thread, ping' = [ping EXCEPT ![h][i] = t],
             UNCHANGED <<row, agent, disk, progress, stopped>>,
             Reading(p, t) \/ Deciding(p, row[h], t) \/ Moving(p, t)
      PROVE  Effect(k)
  <2>1. CASE k = h
    <3>1. SameWork(k) /\ SameHistory(k) /\ row'[k] = row[k]
      BY <1>4 DEF SameWork, SameHistory
    <3>2. ThreadsGoOn(k)
      BY <1>3, <1>4, <2>1, <3>1 DEF ThreadsGoOn
    <3> QED BY <3>2 DEF Effect
  <2>2. CASE k # h
    BY <1>3, <1>4, <2>2, UntouchedEffect DEF Untouched, SameWork, SameHistory
  <2> QED BY <2>1, <2>2
<1>5. CASE ReadEnv(h, i)
  <2> DEFINE t == ping'[h][i]
             seen == [deploy |-> envDeploy, onHold |-> onHold,
                      alias  |-> IF envDeploy = NoDeploy THEN NoDeploy ELSE alias[envDeploy]]
             env == IF h \in member THEN seen ELSE Null
  <2>1. ping' = [ping EXCEPT ![h][i] = [p EXCEPT !.pc = "read", !.env = env]]
    BY <1>5 DEF ReadEnv
  <2>2. env # Null => env.deploy = envDeploy
    OBVIOUS
  <2> HIDE DEF env
  <2>3. IInv'
    BY <1>5, ReadEnvKeeps
  <2>4. t = [p EXCEPT !.pc = "read", !.env = env] /\ t \in Thread
    BY <2>1, <2>3, HostOf DEF IInv, TypeOK
  <2>5. Reading(p, t)
    <3>1. t.pc = "read" /\ t.env = env /\ t.report = p.report
      BY <1>1, <2>4 DEF Thread
    <3> QED BY <2>2, <3>1 DEF Reading
  <2> QED BY <1>4, <1>5, <2>1, <2>4, <2>5 DEF ReadEnv
<1>6. CASE Analyse(h, i)
  <2> DEFINE plan == Process(p.env, p.report, row[h])
             next == IF plan.cand = Null \/ ~plan.wait THEN "write"
                     ELSE IF plan.cand.first THEN "occupy" ELSE "seat"
             t == [p EXCEPT !.plan = plan, !.pc = next, !.env = Null]
  <2>1. ping' = [ping EXCEPT ![h][i] = t] /\ p.pc = "read"
    BY <1>6 DEF Analyse
  <2>2. IInv'
    BY <1>6, AnalyseKeeps
  <2>3. t \in Thread
    <3>1. t = ping'[h][i]
      BY <2>1 DEF IInv, TypeOK
    <3> HIDE DEF t
    <3> QED BY <2>2, <3>1 DEF IInv, TypeOK
  <2>4. Deciding(p, row[h], t)
    <3> HIDE DEF plan, next
    <3>1. t.plan = plan /\ t.pc = next /\ t.report = p.report
      BY <1>1 DEF Thread
    <3> HIDE DEF t
    <3>2. t.pc = IF t.plan.cand = Null \/ ~t.plan.wait THEN "write"
                 ELSE IF t.plan.cand.first THEN "occupy" ELSE "seat"
      BY <3>1 DEF next
    <3>3. t.plan = Process(p.env, p.report, row[h])
      BY <3>1 DEF plan
    <3> QED BY <2>1, <3>1, <3>2, <3>3 DEF Deciding
  <2> HIDE DEF t
  <2> QED BY <1>4, <1>6, <2>1, <2>3, <2>4 DEF Analyse
<1>7. CASE Seat(h, i)
  <2> DEFINE seated  == [p EXCEPT !.pc = "occupy"]
             dropped == [p EXCEPT !.pc = "write", !.plan = Nothing(p.plan.upd)]
  <2>1. p.pc = "seat" /\ p.plan \in Plan
    BY <1>1, <1>7 DEF Seat, Thread
  <2>2. Nothing(p.plan.upd) \in Plan
    BY <2>1, NothingIs DEF Plan
  <2>3. seated \in Thread /\ Moving(p, seated)
    BY <1>1, <2>1 DEF Thread, Moving, Decided
  <2>4. dropped \in Thread /\ Moving(p, dropped)
    BY <1>1, <2>1, <2>2 DEF Thread, Moving, Decided
  <2>5. ping' = [ping EXCEPT ![h][i] = seated] \/ ping' = [ping EXCEPT ![h][i] = dropped]
    BY <1>7 DEF Seat
  <2> HIDE DEF seated, dropped
  <2> QED BY <1>4, <1>7, <2>3, <2>4, <2>5 DEF Seat
<1>8. CASE Occupy(h, i)
  <2> DEFINE seated  == [p EXCEPT !.pc = "write"]
             dropped == [p EXCEPT !.pc = "write", !.plan = Nothing(p.plan.upd)]
  <2>1. p.pc = "occupy" /\ p.plan \in Plan
    BY <1>1, <1>8 DEF Occupy, Thread
  <2>2. Nothing(p.plan.upd) \in Plan
    BY <2>1, NothingIs DEF Plan
  <2>3. seated \in Thread /\ seated.pc = "write" /\ seated.plan = p.plan /\ seated.report = p.report
    BY <1>1, <2>1 DEF Thread
  <2>4. dropped \in Thread /\ Moving(p, dropped)
    BY <1>1, <2>1, <2>2 DEF Thread, Moving, Decided
  <2> HIDE DEF seated, dropped
  <2>5. CASE /\ row' = [row EXCEPT ![h] = p.plan.cand] /\ ping' = [ping EXCEPT ![h][i] = seated]
             /\ agent' = agent
    <3>1. UNCHANGED <<agent, disk, progress, stopped>>
      BY <1>8, <2>5 DEF Occupy
    <3>2. CASE k = h
      <4>1. SameWork(k) /\ SameHistory(k) /\ row'[k] = p.plan.cand
        BY <2>5, <3>1, <3>2 DEF SameWork, SameHistory, IInv, TypeOK
      <4>2. ping'[k] = [ping[k] EXCEPT ![i] = seated] /\ ping'[k][i] = seated
        BY <1>3, <2>3, <2>5, <3>2
      <4>3. ping[k][i].pc = "occupy" /\ row'[k] = ping[k][i].plan.cand
        BY <2>1, <3>2, <4>1
      <4>4. /\ seated.pc = "write" /\ seated.plan = ping[k][i].plan
            /\ seated.report = ping[k][i].report
        BY <2>3, <3>2
      <4>5. Occupies(k, i)
        BY <4>1, <4>2, <4>3, <4>4 DEF Occupies
      <4> QED BY <4>5 DEF Effect
    <3>3. CASE k # h
      <4>1. row'[k] = row[k] /\ ping'[k] = ping[k]
        BY <1>3, <2>3, <2>5, <3>3 DEF IInv, TypeOK
      <4> QED BY <3>1, <4>1, UntouchedEffect DEF Untouched, SameWork, SameHistory
    <3> QED BY <3>2, <3>3
  <2>6. CASE ping' = [ping EXCEPT ![h][i] = dropped] /\ UNCHANGED <<row, agent>>
    BY <1>4, <1>8, <2>4, <2>6 DEF Occupy
  <2>7. CASE /\ ping' = [ping EXCEPT ![h][i] = Free] /\ row' = row /\ Fault("WRITE")
             /\ agent' = [agent EXCEPT ![h] = NoAnswer(agent[h])]
    <3>1. UNCHANGED <<row, disk, progress, stopped>> /\ "WRITE" \in Faults
      BY <1>8, <2>7 DEF Occupy, Fault
    <3>2. CASE k = h
      <4>1. agent'[k] = NoAnswer(agent[k]) /\ ping'[k] = [ping[k] EXCEPT ![i] = Free]
        BY <1>3, <2>7, <3>2, FreeIs DEF IInv, TypeOK
      <4>2. Fails(k, i)
        BY <2>1, <3>1, <3>2, <4>1 DEF Fails, SameHistory
      <4> QED BY <4>2 DEF Effect
    <3>3. CASE k # h
      <4>1. agent'[k] = agent[k] /\ ping'[k] = ping[k]
        BY <1>3, <2>7, <3>3, FreeIs DEF IInv, TypeOK
      <4> QED BY <3>1, <4>1, UntouchedEffect DEF Untouched, SameWork, SameHistory
    <3> QED BY <3>2, <3>3
  <2> QED BY <1>2, <1>8, <2>5, <2>6, <2>7 DEF Occupy, seated, dropped
<1>9. CASE Write(h, i)
  <2>1. /\ p.pc = "write" /\ ping' = [ping EXCEPT ![h][i] = Free]
        /\ agent' = [agent EXCEPT ![h] = Receive(agent[h], p.plan.goal)]
        /\ UNCHANGED <<disk, progress, stopped>>
    BY <1>2, <1>9 DEF Write
  <2>2. /\ \A j \in Hosts \ {h} : row'[j] = row[j]
        /\ row'[h] \in Written(row[h], p.plan)
    BY <1>9, WriteRow
  <2>3. Faults = {} /\ p.plan.cand # Null => row'[h] = p.plan.cand
    <3>1. Faults = {} => ~Fault("WRITE")
      BY DEF Fault
    <3> QED BY <1>9, <3>1 DEF Write, IInv, TypeOK
  <2>4. CASE k = h
    <3>1. agent'[k] = Receive(agent[k], p.plan.goal) /\ ping'[k] = [ping[k] EXCEPT ![i] = Free]
      BY <1>3, <2>1, <2>4, FreeIs DEF IInv, TypeOK
    <3>2. Answers(k, i)
      BY <2>1, <2>2, <2>3, <2>4, <3>1 DEF Answers, SameHistory
    <3> QED BY <3>2 DEF Effect
  <2>5. CASE k # h
    <3>1. agent'[k] = agent[k] /\ ping'[k] = ping[k] /\ row'[k] = row[k]
      BY <1>3, <2>1, <2>2, <2>5, FreeIs DEF IInv, TypeOK
    <3> QED BY <2>1, <3>1, UntouchedEffect DEF Untouched, SameWork, SameHistory
  <2> QED BY <2>4, <2>5
<1> QED BY <1>5, <1>6, <1>7, <1>8, <1>9 DEF PingStep

\* A ping that is sent, seen from host k: no thread of h has decided anything.
LEMMA SentEffect ==
  ASSUME IInv, Prompt, NEW h \in Hosts, agent[h].pc # "waiting", NEW i \in Slots,
         NEW b \in Agent, Send(h, i, b), b.report \in Report \cup {Null}
  PROVE  /\ agent'[h].pc = "waiting" /\ agent'[h].report = b.report /\ agent'[h].why = b.why
         /\ agent'[h].goal = b.goal
         /\ \A j \in Slots : ping'[h][j].pc \in {"free", "new"}
         /\ \A k \in Hosts \ {h} : agent'[k] = agent[k] /\ ping'[k] = ping[k]
<1> DEFINE w == [b EXCEPT !.pc = "waiting", !.slot = i]
           t == [Free EXCEPT !.pc = "new", !.report = b.report]
<1>1. /\ w \in Agent /\ w.pc = "waiting" /\ w.slot = i
      /\ w.why = b.why /\ w.report = b.report /\ w.goal = b.goal
      /\ t \in Thread /\ t.pc = "new" /\ t.report = b.report
      /\ agent' \in [Hosts -> Agent] /\ agent'[h] = w
      /\ ping' \in [Hosts -> [Slots -> Thread]] /\ ping'[h] = [ping[h] EXCEPT ![i] = t]
      /\ \A k \in Hosts \ {h} : agent'[k] = agent[k] /\ ping'[k] = ping[k]
  BY SendIs
<1> HIDE DEF w, t
<1>2. \A j \in Slots : ping[h][j].pc = "free"
  BY AgentOf DEF Alone
<1>3. \A j \in Slots : ping'[h][j].pc \in {"free", "new"}
  BY <1>1, <1>2, HostOf
<1> QED BY <1>1, <1>3

LEMMA StartEffect ==
  ASSUME IInv, Prompt, NEW h \in Hosts, Start(h), NEW k \in Hosts
  PROVE  Effect(k)
<1> DEFINE b == [Asleep EXCEPT !.report = disk[h]]
<1>1. PICK i \in Slots : Send(h, i, b)
  BY DEF Start
<1>2. agent[h].pc = "asleep" /\ disk[h] \in Report \cup {Null}
  BY HostOf DEF Start
<1>3. b \in Agent /\ b.report = disk[h] /\ b.why = "start"
  BY <1>2, AsleepIs DEF Agent
<1> HIDE DEF b
<1>4. /\ agent'[h].pc = "waiting" /\ agent'[h].report = b.report /\ agent'[h].why = b.why
      /\ \A j \in Slots : ping'[h][j].pc \in {"free", "new"}
      /\ \A g \in Hosts \ {h} : agent'[g] = agent[g] /\ ping'[g] = ping[g]
  BY <1>1, <1>2, <1>3, SentEffect
<1>5. UNCHANGED <<row, disk, progress, stopped>>
  BY DEF Start
<1>6. CASE k = h
  <2>1. Wakes(k) /\ row'[k] = row[k] /\ agent'[k].report = disk'[k]
    BY <1>2, <1>3, <1>4, <1>5, <1>6 DEF Wakes, SameHistory
  <2>2. Reports(k)
    BY <1>4, <1>6, <2>1 DEF Reports
  <2> QED BY <2>2 DEF Effect
<1>7. CASE k # h
  BY <1>4, <1>5, <1>7, UntouchedEffect DEF Untouched, SameWork, SameHistory
<1> QED BY <1>6, <1>7

\* Without faults of the disk, DumpAndSend writes what it sends.
LEMMA DumpEffect ==
  ASSUME IInv, Prompt, NEW h \in Hosts, agent[h].pc = "running", NEW why \in {"poll", "done", "fatal"},
         NEW report \in Report \cup {Null}, DumpAndSend(h, why, report)
  PROVE  /\ agent'[h].pc = "waiting" /\ agent'[h].report = report /\ agent'[h].why = why
         /\ agent'[h].goal = agent[h].goal /\ disk'[h] = report
         /\ \A j \in Slots : ping'[h][j].pc \in {"free", "new"}
         /\ \A k \in Hosts \ {h} : agent'[k] = agent[k] /\ ping'[k] = ping[k] /\ disk'[k] = disk[k]
<1> DEFINE b == [agent[h] EXCEPT !.why = why, !.report = report]
<1>1. ~Fault("DISK")
  BY PromptFaults
<1>2. PICK i \in Slots : disk' = [disk EXCEPT ![h] = report] /\ Send(h, i, b)
  BY <1>1 DEF DumpAndSend
<1>3. agent[h] \in Agent
  BY HostOf
<1>4. b \in Agent /\ b.why = why /\ b.report = report /\ b.goal = agent[h].goal
  BY <1>3 DEF Agent
<1> HIDE DEF b
<1>5. disk'[h] = report /\ \A k \in Hosts \ {h} : disk'[k] = disk[k]
  BY <1>2 DEF IInv, TypeOK
<1> QED BY <1>2, <1>4, <1>5, SentEffect

LEMMA PollEffect ==
  ASSUME IInv, Prompt, NEW h \in Hosts, Poll(h), NEW k \in Hosts
  PROVE  Effect(k)
<1> DEFINE r(status) == [agent[h].report EXCEPT !.status = status]
<1>1. agent[h].pc = "running" /\ agent[h].goal.op # "DELETE" /\ agent[h].report \in Report
  BY AgentOf DEF Poll, AgentOK, Works, Agent
<1>2. PICK status \in {"UNKNOWN", "SCRIPT_FAILED"} : DumpAndSend(h, "poll", r(status))
  BY DEF Poll
<1>3. r(status) \in Report
  BY <1>1 DEF Report, AgentStatus
<1>4. UNCHANGED <<row, progress, stopped>>
  BY DEF Poll
<1>5. CASE k = h
  <2>1. /\ agent'[h].pc = "waiting" /\ agent'[h].report = r(status) /\ agent'[h].why = "poll"
        /\ agent'[h].goal = agent[h].goal /\ disk'[h] = r(status)
        /\ \A j \in Slots : ping'[h][j].pc \in {"free", "new"}
    BY <1>1, <1>2, <1>3, DumpEffect
  <2>2. RunsOn(k)
    BY <1>1, <1>4, <1>5, <2>1 DEF RunsOn, RanScript, SameHistory
  <2>3. Reports(k)
    BY <1>4, <1>5, <2>1, <2>2 DEF Reports
  <2> QED BY <2>3 DEF Effect
<1>6. CASE k # h
  <2>1. agent'[k] = agent[k] /\ ping'[k] = ping[k] /\ disk'[k] = disk[k]
    BY <1>1, <1>2, <1>3, <1>6, DumpEffect
  <2> QED BY <1>4, <2>1, UntouchedEffect DEF Untouched, SameWork, SameHistory
<1> QED BY <1>5, <1>6

LEMMA FinishEffect ==
  ASSUME IInv, Prompt, NEW h \in Hosts, Finish(h), NEW k \in Hosts
  PROVE  Effect(k)
<1> DEFINE a == agent[h]
           r(status) == [a.report EXCEPT !.status = status]
<1>1. a.pc = "running" /\ a.report \in Report
  BY AgentOf DEF Finish, AgentOK, Works, Agent
<1>2. row' = row /\ progress \in [Hosts -> [ids : SUBSET Deploys, done : 0..Len(Stages)]]
      /\ stopped \in [Hosts -> BOOLEAN]
  BY DEF Finish, IInv, TypeOK
<1>3. ASSUME NEW status \in AgentStatus PROVE r(status) \in Report
  BY <1>1 DEF Report
<1>4. ASSUME NEW why \in {"poll", "done", "fatal"}, NEW report \in Report \cup {Null},
             DumpAndSend(h, why, report)
      PROVE  /\ agent'[h].pc = "waiting" /\ agent'[h].report = report /\ agent'[h].why = why
             /\ agent'[h].goal = agent[h].goal /\ disk'[h] = report
             /\ \A j \in Slots : ping'[h][j].pc \in {"free", "new"}
             /\ \A g \in Hosts \ {h} : agent'[g] = agent[g] /\ ping'[g] = ping[g] /\ disk'[g] = disk[g]
  BY <1>1, <1>4, DumpEffect
<1> HIDE DEF r
<1>5. CASE a.goal.op = "DELETE" /\ DumpAndSend(h, "done", Null) /\ UNCHANGED <<progress, stopped>>
  <2>1. CASE k = h
    <3>1. Forgets(k)
      BY <1>1, <1>4, <1>5, <2>1 DEF Forgets, SameHistory
    <3>2. Reports(k)
      BY <1>2, <1>4, <1>5, <2>1, <3>1 DEF Reports
    <3> QED BY <3>2 DEF Effect
  <2>2. CASE k # h
    BY <1>2, <1>4, <1>5, <2>2, UntouchedEffect DEF Untouched, SameWork, SameHistory
  <2> QED BY <2>1, <2>2
<1>6. CASE /\ a.goal.op # "DELETE" /\ DumpAndSend(h, "done", r("SUCCEEDED"))
           /\ progress' = [progress EXCEPT ![h] = Advance(progress[h], a.goal)]
           /\ stopped' = [stopped EXCEPT ![h] = stopped[h] \/ a.goal.stage = "STOPPING"]
  <2>1. r("SUCCEEDED") \in Report
    BY <1>3 DEF AgentStatus
  <2>2. CASE k = h
    <3>1. /\ progress'[k] = Advance(progress[k], a.goal)
          /\ stopped'[k] = (stopped[k] \/ a.goal.stage = "STOPPING")
      BY <1>2, <1>6, <2>2
    <3>2. Succeeds(k)
      BY <1>1, <1>4, <1>6, <2>1, <2>2, <3>1 DEF Succeeds, RanScript, r
    <3>3. Reports(k)
      BY <1>2, <1>4, <1>6, <2>1, <2>2, <3>2 DEF Reports
    <3> QED BY <3>3 DEF Effect
  <2>3. CASE k # h
    <3>1. progress'[k] = progress[k] /\ stopped'[k] = stopped[k]
      BY <1>2, <1>6, <2>3
    <3> QED BY <1>2, <1>4, <1>6, <2>1, <2>3, <3>1, UntouchedEffect DEF Untouched, SameWork, SameHistory
  <2> QED BY <2>2, <2>3
<1>7. CASE /\ a.goal.op # "DELETE" /\ DumpAndSend(h, "fatal", r("TOO_MANY_RETRY"))
           /\ UNCHANGED <<progress, stopped>>
  <2>1. r("TOO_MANY_RETRY") \in Report
    BY <1>3 DEF AgentStatus, FatalStatus
  <2>2. CASE k = h
    <3>1. RunsOn(k)
      BY <1>1, <1>4, <1>7, <2>1, <2>2 DEF RunsOn, RanScript, SameHistory, r
    <3>2. Reports(k)
      BY <1>2, <1>4, <1>7, <2>1, <2>2, <3>1 DEF Reports
    <3> QED BY <3>2 DEF Effect
  <2>3. CASE k # h
    BY <1>2, <1>4, <1>7, <2>1, <2>3, UntouchedEffect DEF Untouched, SameWork, SameHistory
  <2> QED BY <2>2, <2>3
<1> QED BY <1>5, <1>6, <1>7 DEF Finish, r

LEMMA OperationEffect ==
  ASSUME IInv, NEW h \in Hosts, Operation(h), NEW k \in Hosts
  PROVE  Effect(k)
<1>1. CASE ChangeCapacity(h)
  BY <1>1, UntouchedEffect DEF ChangeCapacity, Untouched, SameWork, SameHistory
<1>2. ASSUME NEW y, row' = [row EXCEPT ![h] = y], row[h] # Null,
             UNCHANGED <<ping, agent, disk, progress, stopped>>, ops' # ops,
             \/ y = Null /\ "EXPIRE" \in Ops
             \/ \E state \in Ops \cap AgentState : y = [row[h] EXCEPT !.state = state]
      PROVE  Effect(k)
  <2>1. SameWork(k) /\ SameHistory(k) /\ ping'[k] = ping[k]
    BY <1>2 DEF SameWork, SameHistory
  <2>2. CASE k = h
    <3>1. row'[k] = y
      BY <1>2, <2>2 DEF IInv, TypeOK
    <3>2. Operates(k)
      BY <1>2, <2>1, <2>2, <3>1 DEF Operates
    <3> QED BY <3>2 DEF Effect
  <2>3. CASE k # h
    <3>1. row'[k] = row[k]
      BY <1>2, <2>3 DEF IInv, TypeOK
    <3> QED BY <2>1, <3>1, UntouchedEffect DEF Untouched
  <2> QED BY <2>2, <2>3
<1>3. ASSUME NEW state \in AgentState, SetState(h, state) PROVE Effect(k)
  <2>1. state \in Ops \cap AgentState /\ ops' # ops
    BY <1>3, OperateTyped DEF SetState
  <2>2. row' = [row EXCEPT ![h] = [row[h] EXCEPT !.state = state]] /\ row[h] # Null
        /\ UNCHANGED <<ping, agent, disk, progress, stopped>>
    BY <1>3 DEF SetState
  <2> QED BY <1>2, <2>1, <2>2
<1>4. CASE Expire(h)
  <2>1. "EXPIRE" \in Ops /\ ops' # ops
    BY <1>4, OperateTyped DEF Expire
  <2> QED BY <1>2, <1>4, <2>1 DEF Expire
<1> QED BY <1>1, <1>3, <1>4 DEF Operation

\* Every step, seen from any host. What the environment was when a deploy was

\* made stays what it was.
LEMMA Effects ==
  ASSUME IInv, Prompt, [Next]_vars, NEW k \in Hosts
  PROVE  /\ Effect(k)
         /\ envDeploy' >= envDeploy /\ \A d \in 1..envDeploy : alias'[d] = alias[d]
<1>1. ASSUME NEW h \in Hosts, AgentStep(h) PROVE Effect(k)
  BY <1>1, StartEffect, PollEffect, FinishEffect DEF AgentStep
<1>2. ASSUME NEW h \in Hosts, AgentFault(h) PROVE FALSE
  BY <1>2, PromptFaults DEF AgentFault, Retry, GiveUp, Crash
<1>3. ASSUME UNCHANGED <<row, ping, agent, disk, progress, stopped>> PROVE Effect(k)
  BY <1>3, UntouchedEffect DEF Untouched, SameWork, SameHistory
<1>4. Effect(k)
  BY <1>1, <1>2, <1>3, PingStepEffect, OperationEffect DEF Next, NewDeploy, PauseEnv, vars
<1>5. envDeploy \in Nat /\ alias \in [Deploys -> Deploy0]
  BY PingAssumption DEF IInv, TypeOK, Deploy0, Deploys
<1> DEFINE kept == envDeploy' >= envDeploy /\ \A d \in 1..envDeploy : alias'[d] = alias[d]
<1>6. ASSUME NewDeploy PROVE kept
  <2>1. PICK c : alias' = [alias EXCEPT ![envDeploy'] = c]
    BY <1>6 DEF NewDeploy
  <2>2. envDeploy' = envDeploy + 1
    BY <1>6 DEF NewDeploy
  <2>3. ASSUME NEW d \in 1..envDeploy PROVE alias'[d] = alias[d]
    <3>1. d \in Deploys /\ d # envDeploy'
      BY <1>5, <1>6, <2>2, PingAssumption DEF NewDeploy, Deploys
    <3> QED BY <1>5, <2>1, <3>1
  <2> QED BY <1>5, <2>2, <2>3
<1>7. ASSUME UNCHANGED <<envDeploy, alias>> PROVE kept
  BY <1>5, <1>7
<1>8. ASSUME NEW h \in Hosts, AgentStep(h) PROVE UNCHANGED <<envDeploy, alias>>
  BY <1>8 DEF AgentStep, Start, Poll, Finish, tables
<1>9. ASSUME NEW h \in Hosts, NEW i \in Slots, PingStep(h, i) PROVE UNCHANGED <<envDeploy, alias>>
  BY <1>9 DEF PingStep, ReadEnv, Analyse, Seat, Occupy, Write, tables
<1>10. ASSUME NEW h \in Hosts, Operation(h) PROVE UNCHANGED <<envDeploy, alias>>
  BY <1>10 DEF Operation, ChangeCapacity, SetState, Expire, tables
<1>11. ASSUME PauseEnv \/ UNCHANGED vars PROVE UNCHANGED <<envDeploy, alias>>
  BY <1>11 DEF PauseEnv, vars, tables
<1>12. kept
  <2> HIDE DEF kept
  <2> QED BY <1>2, <1>6, <1>7, <1>8, <1>9, <1>10, <1>11 DEF Next
<1> QED BY <1>4, <1>12

\* A thread that has decided works from what the agent reports and keeps.
LEMMA DecidedIs ==
  ASSUME IInv, Prompt, NEW h \in Hosts, NEW i \in Slots, ping[h][i].pc # "free"
  PROVE  /\ ping[h][i] \in Thread /\ agent[h].pc = "waiting" /\ agent[h] \in Agent
         /\ ping[h][i].report = disk[h] /\ Tells(agent[h], disk[h]) = disk[h]
         /\ ping[h][i].report \in Report \cup {Null}
         /\ agent[h].why = "fatal" => disk[h] # Null /\ disk[h].status \in FatalStatus
         /\ ThreadOK(envDeploy, alias, ping[h][i])
         /\ \A j \in Slots : ping[h][j].pc # "free" => j = i
         /\ ping[h][i].pc \in Decided => ping[h][i].plan \in Plan /\ PlanOK(envDeploy, ping[h][i].plan)
BY ThreadOf, AgentOf DEF Alone, Tells, Thread, ThreadOK
=============================================================================
