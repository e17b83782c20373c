--------------------------- MODULE PingHaltProofs ---------------------------
(***************************************************************************)
(* Hosts that have to stand still, when nothing fails: an agent that       *)
(* failed for good stays paused, and a host is in stage STOPPED only after *)
(* it was stopped. A ping decides from what the row and the report were;   *)
(* the invariants say why that is good enough when the decision is written.*)
(***************************************************************************)
EXTENDS PingProofs

Calm == Faults = {}

LEMMA CalmIs == ASSUME Calm PROVE Prompt /\ "WRITE" \notin Faults
BY DEF Calm, Prompt

-----------------------------------------------------------------------------
(***************************************************************************)
(* Paused by the system.                                                   *)
(***************************************************************************)
\* Who is paused for row x reports the fatal failure, about the deploy of x or
\* about the one it goes back to.
FailedIs(al, x, r) ==
  x # Null /\ x.state = "PAUSED_BY_SYSTEM" /\ r # Null
    => /\ r.status \in FatalStatus
       /\ x.deploy = r.deploy \/ al[x.deploy] = r.deploy

\* What a plan may write over a paused row.
Stands(x, b) ==
  b # Null => b.state \in {"PAUSED_BY_SYSTEM", "DELETE"} \/ b.deploy # x.deploy
PausePlanned(al, x, r, plan) ==
  /\ plan.cand # Null => plan.cand.state # "PAUSED_BY_SYSTEM"
  /\ FailedIs(al, plan.upd, r)
  /\ x # Null /\ x.state = "PAUSED_BY_SYSTEM" /\ r # Null => Stands(x, plan.upd) /\ Stands(x, plan.cand)

PauseInv(h) ==
  /\ FailedIs(alias, row[h], Tells(agent[h], disk[h]))
  /\ \A i \in Slots : ping[h][i].pc \in Decided =>
       PausePlanned(alias, row[h], ping[h][i].report, ping[h][i].plan)

\* The bean of a report.
LEMMA UpdPaused ==
  ASSUME NEW t \in Report, NEW x \in Row \cup {Null}, NEW al, NEW r \in Report,
         t.status = r.status, FailedIs(al, x, r), NEW u, u = ByReport(t, x)
  PROVE  /\ u.state = "PAUSED_BY_SYSTEM" => t.status \in FatalStatus
         /\ x # Null /\ x.state = "PAUSED_BY_SYSTEM" => u.state = "PAUSED_BY_SYSTEM"
<1>1. u.state = NewState(t, x)
  BY DEF ByReport
<1>2. x # Null /\ x.state = "PAUSED_BY_SYSTEM" => t.status \in FatalStatus
  BY NullApart DEF FailedIs
<1> QED BY <1>1, <1>2 DEF NewState, FatalStatus

LEMMA NothingPaused ==
  ASSUME NEW al, NEW x, NEW r, NEW u \in Row \cup {Null}, FailedIs(al, u, r),
         x # Null /\ x.state = "PAUSED_BY_SYSTEM" /\ r # Null => Stands(x, u)
  PROVE  PausePlanned(al, x, r, Nothing(u))
BY NothingIs DEF PausePlanned, Stands

LEMMA ReportPaused ==
  ASSUME NEW env \in EnvRec, NEW report \in Report, NEW x \in Row \cup {Null},
         NEW e \in Deploy0, NEW al, AliasOK(e, al), EnvOK(e, al, env), Known(e, report),
         BeanOK(e, x), FailedIs(al, x, report), NEW p, ReportPlan(env, report, x, p)
  PROVE  PausePlanned(al, x, report, p)
<1> DEFINE t == Transform(env, report)
           u == ByReport(t, x)
           paused == x # Null /\ x.state = "PAUSED_BY_SYSTEM"
<1>1. env # Null /\ env.deploy \in 1..e /\ env.alias = al[env.deploy] /\ report # Null
  BY NullApart, PingAssumption DEF ReportPlan, EnvOK, Deploy0, Deploys
<1>2. /\ t \in Report /\ t.stage = report.stage /\ t.status = report.status
      /\ t.deploy = report.deploy \/ (t.deploy = env.deploy /\ env.alias = report.deploy)
      /\ report.deploy = env.alias => t.deploy = env.deploy
  BY <1>1, TransformIs DEF ReportPlan
<1> HIDE DEF t
<1>3. /\ u.state = "PAUSED_BY_SYSTEM" => t.status \in FatalStatus
      /\ paused => u.state = "PAUSED_BY_SYSTEM"
  BY <1>2, UpdPaused
<1>4. u.deploy = t.deploy /\ u \in Row
  <2>1. NewState(t, x) \in AgentState
    BY <1>2 DEF NewState, Row, AgentState, Report, AgentStatus
  <2> QED BY <1>2, <2>1 DEF u, ByReport, Row, Report
<1> HIDE DEF u
<1>5. FailedIs(al, u, report)
  BY <1>1, <1>2, <1>3, <1>4 DEF FailedIs
<1>6. paused => Stands(x, u)
  BY <1>3 DEF Stands
<1>7. ASSUME NEW c \in Row, NEW w \in BOOLEAN, p = Install(env, t, u, c, w),
             c.state # "PAUSED_BY_SYSTEM", paused => Stands(x, c)
      PROVE  PausePlanned(al, x, report, p)
  BY <1>2, <1>4, <1>5, <1>6, <1>7, InstallIs DEF PausePlanned
<1>8. ASSUME p = Nothing(u) PROVE PausePlanned(al, x, report, p)
  BY <1>4, <1>5, <1>6, <1>8, NothingPaused
<1>9. CASE RestartPlan(env, report, x, p)
  <2> DEFINE c == NewBean(env, x)
  <2>1. p = Install(env, t, u, c, Serves(t, x)) /\ Serves(t, x) \in BOOLEAN
    BY <1>9 DEF RestartPlan, t, u, Serves
  <2>2. c \in Row /\ c.deploy = env.deploy /\ c.state = "NORMAL"
    BY <1>1, NewBeanIs
  <2> HIDE DEF c
  <2>3. paused => t.deploy # env.deploy
    BY <1>9 DEF RestartPlan, t
  <2>4. paused => c.deploy # x.deploy
    BY <1>1, <1>2, <2>2, <2>3 DEF FailedIs
  <2> QED BY <1>7, <2>1, <2>2, <2>4 DEF Stands
<1>10. CASE SamePlan(env, report, x, p)
  <2>1. CASE t.status = "SUCCEEDED" /\ p = Install(env, t, u, NextBean(t, x), FALSE)
             /\ t.stage # "SERVING_BUILD"
    <3> DEFINE c == NextBean(t, x)
    <3>1. ~paused
      BY <1>1, <1>2, <2>1 DEF FailedIs, FatalStatus
    <3>2. c.state = "NORMAL"
      BY DEF NextBean, ByReport
    <3>3. p.cand = c /\ p.upd = u
      BY <2>1 DEF Install, Nothing
    <3> QED BY <1>5, <3>1, <3>2, <3>3 DEF PausePlanned
  <2>2. CASE u.state # "PAUSED_BY_SYSTEM" /\ p = Install(env, t, u, u, FALSE)
    BY <1>3, <1>4, <1>7, <2>2
  <2>3. CASE p = Nothing(u)
    BY <1>8, <2>3
  <2> QED BY <1>10, <2>1, <2>2, <2>3 DEF SamePlan, t, u
<1> QED BY <1>9, <1>10 DEF ReportPlan

LEMMA DecisionPaused ==
  ASSUME NEW env \in EnvRec \cup {Null}, NEW report \in Report \cup {Null}, NEW x \in Row \cup {Null},
         NEW e \in Deploy0, NEW al, AliasOK(e, al), EnvOK(e, al, env), Known(e, report),
         BeanOK(e, x), FailedIs(al, x, report), NEW p, p = Process(env, report, x)
  PROVE  PausePlanned(al, x, report, p)
<1> DEFINE u == Upd(report, x)
           paused == x # Null /\ x.state = "PAUSED_BY_SYSTEM"
<1>1. /\ u \in Row \cup {Null} /\ FailedIs(al, u, report)
      /\ paused /\ report # Null => Stands(x, u)
  <2>1. CASE report = Null
    BY <2>1 DEF Upd, FailedIs
  <2>2. CASE report # Null
    <3>1. /\ u.state = "PAUSED_BY_SYSTEM" => report.status \in FatalStatus
          /\ paused => u.state = "PAUSED_BY_SYSTEM"
      BY <2>2, UpdPaused DEF Upd
    <3>2. NewState(report, x) \in AgentState
      BY <2>2 DEF NewState, Row, AgentState, Report, AgentStatus
    <3>3. u \in Row /\ u.deploy = report.deploy
      BY <2>2, <3>2 DEF Upd, ByReport, Row, Report
    <3> QED BY <3>1, <3>3 DEF FailedIs, Stands
  <2> QED BY <2>1, <2>2
<1> HIDE DEF u
<1>2. CASE HeldPlan(report, x, p)
  BY <1>1, <1>2, NothingPaused DEF HeldPlan, u
<1>3. CASE StopPlan(env, report, x, p)
  <2>1. x.state = "STOP" /\ x # Null
    BY <1>3 DEF StopPlan
  <2>2. ASSUME NEW c, c.state = "STOP", p = Install(env, report, u, c, FALSE)
        PROVE PausePlanned(al, x, report, p)
    <3>1. p.cand = c /\ p.upd = u
      BY <2>2 DEF Install, Nothing
    <3> QED BY <1>1, <2>1, <2>2, <3>1 DEF PausePlanned
  <2>3. StopBean(env, x).state = "STOP" /\ NextStopBean(report, x).state = "STOP"
    BY DEF StopBean, NextStopBean, ByReport
  <2> QED BY <1>3, <2>1, <2>2, <2>3 DEF StopPlan, u
<1>4. CASE ReportPlan(env, report, x, p)
  <2>1. env \in EnvRec /\ report \in Report
    BY <1>4 DEF ReportPlan
  <2> QED BY <1>4, <2>1, ReportPaused
<1>5. CASE FreshPlan(env, report, x, p)
  <2>1. p.cand = NewBean(env, x) /\ p.upd = Null /\ report = Null
    BY <1>5 DEF FreshPlan, Install, Nothing
  <2>2. NewBean(env, x).state = "NORMAL"
    BY DEF NewBean
  <2> QED BY <2>1, <2>2 DEF PausePlanned, FailedIs
<1>6. CASE LeavePlan(env, report, x, p)
  <2>1. CASE report # Null
    <3>1. p.cand = Null /\ p.upd.state = "DELETE"
      BY <1>6, <2>1 DEF LeavePlan, Nothing, ByReport
    <3> QED BY <3>1 DEF PausePlanned, FailedIs, Stands
  <2>2. CASE report = Null
    <3>1. p.cand = Null /\ p.upd = Null
      BY <1>6, <2>2 DEF LeavePlan, Nothing
    <3> QED BY <2>2, <3>1 DEF PausePlanned, FailedIs
  <2> QED BY <2>1, <2>2
<1> QED BY <1>2, <1>3, <1>4, <1>5, <1>6, Outcomes

\* What is known of a bean does not depend on deploys made later.
LEMMA FailedStays ==
  ASSUME NEW e, NEW al, NEW al2, \A d \in 1..e : al2[d] = al[d], NEW x, BeanOK(e, x), NEW r,
         FailedIs(al, x, r)
  PROVE  FailedIs(al2, x, r)
BY DEF FailedIs, BeanOK

LEMMA PlanStays ==
  ASSUME NEW e, NEW al, NEW al2, \A d \in 1..e : al2[d] = al[d], NEW plan, PlanOK(e, plan),
         NEW x, NEW r, PausePlanned(al, x, r, plan)
  PROVE  PausePlanned(al2, x, r, plan)
BY FailedStays DEF PausePlanned, PlanOK

LEMMA PauseInit == ASSUME Init, NEW h \in Hosts PROVE PauseInv(h)
<1>1. ASSUME NEW i \in Slots PROVE ping[h][i].pc \notin Decided
  BY FreeIs DEF Init, Decided
<1>2. row[h] # Null => row[h].state = "NORMAL"
  BY DEF Init, ServesFirst
<1> QED BY <1>1, <1>2 DEF PauseInv, FailedIs

LEMMA PauseStep ==
  ASSUME IInv, IInv', Calm, [Next]_vars, NEW h \in Hosts, PauseInv(h)
  PROVE  PauseInv(h)'
<1> DEFINE x == row[h]
           told == Tells(agent[h], disk[h])
           told2 == Tells(agent'[h], disk'[h])
           fails == FailedIs(alias', row'[h], told2)
           plans == \A i \in Slots : ping'[h][i].pc \in Decided =>
                      PausePlanned(alias', row'[h], ping'[h][i].report, ping'[h][i].plan)
<1>1. Prompt /\ Effect(h) /\ \A d \in 1..envDeploy : alias'[d] = alias[d]
  BY CalmIs, Effects
<1>2. FailedIs(alias, x, told) /\ FailedIs(alias', x, told) /\ BeanOK(envDeploy, x)
  <2>1. BeanOK(envDeploy, x)
    BY HostOf DEF HostInv, Sane
  <2>2. FailedIs(alias, x, told)
    BY DEF PauseInv
  <2> HIDE DEF x, told
  <2> QED BY <1>1, <2>1, <2>2, FailedStays
<1>3. ASSUME NEW i \in Slots, ping[h][i].pc \in Decided
      PROVE  /\ PausePlanned(alias, x, ping[h][i].report, ping[h][i].plan)
             /\ PausePlanned(alias', x, ping[h][i].report, ping[h][i].plan)
  BY <1>1, <1>3, DecidedIs, PlanStays DEF PauseInv, Decided
<1>4. CASE ThreadsGoOn(h)
  <2>1. fails
    BY <1>2, <1>4 DEF ThreadsGoOn, SameWork
  <2>2. ASSUME NEW i \in Slots, ping'[h][i].pc \in Decided
        PROVE PausePlanned(alias', row'[h], ping'[h][i].report, ping'[h][i].plan)
    <3> DEFINE t == ping[h][i]
               u == ping'[h][i]
    <3>1. row'[h] = x
      BY <1>4 DEF ThreadsGoOn
    <3>2. CASE u = t
      BY <1>3, <2>2, <3>1, <3>2
    <3>3. CASE Deciding(t, x, u)
      <4>1. /\ t \in Thread /\ t.pc = "read" /\ ThreadOK(envDeploy, alias, t)
            /\ t.report \in Report \cup {Null} /\ t.report = told
        BY <1>1, <3>3, DecidedIs, ThreadOf DEF Deciding
      <4>2. t.env \in EnvRec \cup {Null} /\ EnvOK(envDeploy, alias, t.env) /\ Known(envDeploy, t.report)
        BY <4>1 DEF Thread, ThreadOK
      <4>3. x \in Row \cup {Null} /\ envDeploy \in Deploy0 /\ AliasOK(envDeploy, alias)
        BY HostOf
      <4>4. u.plan = Process(t.env, t.report, x) /\ u.report = t.report
        BY <3>3 DEF Deciding
      <4> HIDE DEF t, x, told, u
      <4>5. FailedIs(alias, x, t.report)
        BY <1>2, <4>1
      <4>6. PausePlanned(alias, x, t.report, u.plan)
        BY <1>2, <4>1, <4>2, <4>3, <4>4, <4>5, DecisionPaused
      <4>7. PlanOK(envDeploy, u.plan)
        <5>1. StopAsked(x, t.report)
          BY <1>1, <4>1, ThreadOf DEF x, told
        <5> QED BY <1>2, <4>1, <4>2, <4>3, <4>4, <5>1, DecisionSane
      <4> QED BY <1>1, <3>1, <4>4, <4>6, <4>7, PlanStays DEF u
    <3>4. CASE Moving(t, u)
      <4>1. PausePlanned(alias', x, t.report, t.plan) /\ u.report = t.report
        BY <1>3, <3>4 DEF Moving, Decided
      <4>2. t.plan.upd \in Row \cup {Null}
        BY <1>1, <3>4, DecidedIs DEF Moving, Decided, Plan
      <4>3. u.plan = Nothing(t.plan.upd) => PausePlanned(alias', x, t.report, u.plan)
        <5> DEFINE b == t.plan.upd
        <5>1. FailedIs(alias', b, t.report) /\ (x # Null /\ x.state = "PAUSED_BY_SYSTEM" /\ t.report # Null => Stands(x, b))
          BY <4>1 DEF PausePlanned
        <5>2. b \in Row \cup {Null}
          BY <4>2
        <5> HIDE DEF b
        <5>3. PausePlanned(alias', x, t.report, Nothing(b))
          BY <5>1, <5>2, NothingPaused
        <5> QED BY <5>3 DEF b
      <4> QED BY <3>1, <3>4, <4>1, <4>3 DEF Moving
    <3> QED BY <1>4, <2>2, <3>2, <3>3, <3>4 DEF ThreadsGoOn, Reading, Decided
  <2> QED BY <2>1, <2>2 DEF PauseInv
<1>5. ASSUME NEW i \in Slots, Occupies(h, i) PROVE PauseInv(h)'
  <2> DEFINE t == ping[h][i]
  <2>1. t.pc = "occupy" /\ t.pc \in Decided /\ t.plan.cand # Null
    BY <1>5, ThreadOf DEF Occupies, Decided, ThreadOK
  <2>2. row'[h] = t.plan.cand /\ row'[h].state # "PAUSED_BY_SYSTEM"
    BY <1>3, <1>5, <2>1 DEF Occupies, PausePlanned
  <2>3. fails
    BY <2>2 DEF FailedIs
  <2>4. ASSUME NEW j \in Slots, ping'[h][j].pc \in Decided
        PROVE PausePlanned(alias', row'[h], ping'[h][j].report, ping'[h][j].plan)
    <3>1. j = i
      <4>1. j # i => ping'[h][j] = ping[h][j]
        BY <1>5, HostOf DEF Occupies
      <4> QED BY <1>1, <2>1, <2>4, <4>1, ThreadOf DEF Alone, Decided
    <3>2. ping'[h][j].plan = t.plan /\ ping'[h][j].report = t.report
      BY <1>5, <3>1 DEF Occupies
    <3> QED BY <1>3, <2>1, <2>2, <3>2 DEF PausePlanned
  <2> QED BY <2>3, <2>4 DEF PauseInv
<1>6. ASSUME NEW i \in Slots, Answers(h, i) PROVE PauseInv(h)'
  <2> DEFINE t == ping[h][i]
             plan == t.plan
  <2>1. t.pc \in Decided /\ t.pc # "free"
    BY <1>6 DEF Answers, Decided
  <2>2. /\ agent[h].pc = "waiting" /\ agent[h] \in Agent /\ t.report = disk[h] /\ told = disk[h]
        /\ plan \in Plan /\ PlanOK(envDeploy, plan)
    BY <1>1, <2>1, DecidedIs
  <2>3. plans
    <3>1. ASSUME NEW j \in Slots PROVE ping'[h][j].pc = "free"
      <4>1. ping'[h][j] = IF j = i THEN Free ELSE ping[h][j]
        BY <1>6, HostOf DEF Answers
      <4> QED BY <1>1, <2>1, <4>1, FreeIs, ThreadOf DEF Alone
    <3> QED BY <3>1 DEF Decided
  <2>4. PausePlanned(alias', x, disk[h], plan)
    BY <1>3, <2>1, <2>2
  <2>5. FailedIs(alias', row'[h], disk[h]) /\ (plan.cand # Null => row'[h] = plan.cand)
    BY <1>2, <1>6, <2>2, <2>4 DEF Answers, Calm, Written, PausePlanned, FailedIs
  <2>6. fails
    <3> DEFINE b == Receive(agent[h], plan.goal)
    <3>1. agent'[h] = b /\ disk'[h] = disk[h]
      BY <1>6 DEF Answers
    <3>2. /\ IF plan.goal.op = "NOOP" \/ agent[h].why = "fatal" THEN b = Asleep
             ELSE b.pc = "running" /\ b.goal = plan.goal
      <4>1. plan.goal \in Goal /\ (plan.goal.op # "NOOP" => About(envDeploy, plan.goal))
        BY <2>2 DEF Plan, PlanOK
      <4> HIDE DEF b, plan
      <4> QED BY <2>2, <4>1, ReceiveIs DEF b
    <3>3. CASE plan.goal.op = "NOOP" \/ agent[h].why = "fatal"
      BY <2>5, <3>1, <3>2, <3>3, AsleepIs DEF Tells
    <3>4. CASE plan.goal.op = "DELETE" /\ agent[h].why # "fatal"
      <4>1. told2 = Null
        BY <3>1, <3>2, <3>4 DEF Tells
      <4> QED BY <4>1 DEF FailedIs
    <3>5. CASE plan.goal.op \in {"DEPLOY", "STOP"}
      BY <2>2, <2>4, <2>5, <3>5 DEF PlanOK, PausePlanned, FailedIs
    <3> QED BY <2>2, <3>3, <3>4, <3>5 DEF Plan, Goal
  <2> QED BY <2>3, <2>6 DEF PauseInv
<1>7. CASE Reports(h)
  <2>1. plans /\ told2 = disk'[h] /\ row'[h] = x
    BY <1>7 DEF Reports, Tells, Decided
  <2>2. fails
    <3>1. CASE Wakes(h)
      BY <1>2, <2>1, <3>1 DEF Wakes, Tells
    <3>2. CASE Forgets(h)
      BY <2>1, <3>2 DEF Forgets, FailedIs
    <3>3. CASE agent[h].pc = "running" /\ agent[h].goal.op # "DELETE"
      <4>1. told = agent[h].report /\ told # Null /\ told.status \notin FatalStatus
        <5>1. Alone(agent[h], disk[h], ping[h]) /\ AgentOK(envDeploy, agent[h])
          BY <1>1, HostOf DEF HostInv, Sane, OnTime
        <5> QED BY <3>3, <5>1 DEF Tells, Alone, AgentOK, Works
      <4> QED BY <1>2, <2>1, <4>1 DEF FailedIs
    <3> QED BY <1>7, <3>1, <3>2, <3>3 DEF Reports, Succeeds, RunsOn, RanScript
  <2> QED BY <2>1, <2>2 DEF PauseInv
<1>8. CASE Operates(h)
  <2>1. row'[h] # Null => row'[h].state # "PAUSED_BY_SYSTEM"
    <3>1. x \in Row
      BY <1>8, HostOf DEF Operates
    <3>2. ASSUME NEW s \in Ops \cap AgentState, row'[h] = [row[h] EXCEPT !.state = s]
          PROVE  row'[h].state # "PAUSED_BY_SYSTEM"
      BY <3>1, <3>2, PingAssumption DEF Row
    <3> QED BY <1>8, <3>2 DEF Operates
  <2>2. fails
    BY <2>1 DEF FailedIs
  <2>3. plans
    <3>1. ping'[h] = ping[h]
      BY <1>8 DEF Operates
    <3> QED BY <1>3, <2>1, <3>1 DEF PausePlanned
  <2> QED BY <2>2, <2>3 DEF PauseInv
<1>9. ASSUME NEW i \in Slots, Fails(h, i) PROVE FALSE
  BY <1>9, CalmIs DEF Fails
<1> QED BY <1>1, <1>4, <1>5, <1>6, <1>7, <1>8, <1>9 DEF Effect
PauseHolds == \A h \in Hosts : PauseInv(h)
LEMMA PauseIs == ASSUME Calm PROVE Spec => [](IInv /\ PauseHolds)
<1>1. Init => PauseHolds
  BY PauseInit DEF PauseHolds
<1>2. ASSUME IInv, IInv', [Next]_vars, PauseHolds PROVE PauseHolds'
  BY <1>2, PauseStep DEF PauseHolds
<1> QED BY <1>1, <1>2, IInvHolds, PTL DEF Spec

\* What one step does to a paused row.
LEMMA FailedStep ==
  ASSUME IInv, Calm, PauseHolds, [Next]_vars, NEW h \in Hosts, row[h] # Null,
         row[h].state = "PAUSED_BY_SYSTEM", row'[h] # Null, disk[h] # Null, ops' = ops
  PROVE  row'[h].state \in {"PAUSED_BY_SYSTEM", "DELETE"} \/ row'[h].deploy # row[h].deploy
<1>1. Prompt /\ Effect(h)
  BY CalmIs, Effects
<1>2. CASE row'[h] = row[h]
  BY <1>2
<1>3. ASSUME NEW i \in Slots, ping[h][i].pc \in Decided, row'[h] \in {ping[h][i].plan.cand, ping[h][i].plan.upd}
      PROVE  row'[h].state \in {"PAUSED_BY_SYSTEM", "DELETE"} \/ row'[h].deploy # row[h].deploy
  <2>1. ping[h][i].report = disk[h]
    BY <1>1, <1>3, DecidedIs DEF Decided
  <2>2. PausePlanned(alias, row[h], disk[h], ping[h][i].plan)
    BY <1>3, <2>1 DEF PauseHolds, PauseInv
  <2> QED BY <1>3, <2>2 DEF PausePlanned, Stands
<1>4. ASSUME NEW i \in Slots, Occupies(h, i) \/ Answers(h, i)
      PROVE  row'[h] = row[h] \/ (ping[h][i].pc \in Decided /\ row'[h] \in {ping[h][i].plan.cand, ping[h][i].plan.upd})
  BY <1>4 DEF Occupies, Answers, Written, Decided
<1> QED BY <1>1, <1>2, <1>3, <1>4 DEF Effect, ThreadsGoOn, Reports, Operates, Fails

\* As long as clients wait for their answers, agents live and writes succeed, an
\* agent that failed for good is left alone: a plan decided before never writes
\* it back to work, whatever users, the janitor and new deploys do in between.
THEOREM FailedPaused == ASSUME Faults = {} PROVE Spec => FailedStaysPaused
<1>1. ASSUME IInv, PauseHolds, [Next]_vars
      PROVE  [\A h \in Hosts :
                row[h] # Null /\ row[h].state = "PAUSED_BY_SYSTEM" /\ row'[h] # Null
                  /\ disk[h] # Null /\ ops' = ops
                  => \/ row'[h].state \in {"PAUSED_BY_SYSTEM", "DELETE"}
                     \/ row'[h].deploy # row[h].deploy]_vars
  BY <1>1, FailedStep DEF Calm
<1>2. Spec => [](IInv /\ PauseHolds)
  BY PauseIs DEF Calm
<1> QED BY <1>1, <1>2, PTL DEF Spec, FailedStaysPaused
-----------------------------------------------------------------------------
(***************************************************************************)
(* Stopped.                                                                *)
(***************************************************************************)
\* While the STOPPING script of a host has not succeeded: nobody says that it
\* has, a script that ends without error cannot be taken for it, and no plan
\* goes past STOPPING.
NotYet(x, a, r) ==
  /\ r # Null => r.stage # "STOPPED" /\ ~(r.stage = "STOPPING" /\ r.status = "SUCCEEDED")
  /\ x # Null => x.stage # "STOPPED"
  /\ x # Null /\ x.stage = "STOPPING" /\ r # Null => r.status # "SUCCEEDED"
  /\ x # Null /\ x.stage = "STOPPING" /\ Works(a) /\ a.goal.op # "DELETE" => a.goal.stage = "STOPPING"
NotPlanned(r, plan) ==
  /\ plan.upd # Null => r # Null /\ plan.upd.stage = r.stage
  /\ plan.cand # Null => plan.cand.stage # "STOPPED"
  /\ plan.wait => plan.cand.stage \notin StopStages

StopInv(h) ==
  ~stopped[h] =>
    /\ NotYet(row[h], agent[h], Tells(agent[h], disk[h]))
    /\ \A i \in Slots : ping[h][i].pc \in Decided => NotPlanned(ping[h][i].report, ping[h][i].plan)

LEMMA DecisionStops ==
  ASSUME NEW env \in EnvRec \cup {Null}, NEW report \in Report \cup {Null}, NEW x \in Row \cup {Null},
         NEW e \in Deploy0, NEW al, AliasOK(e, al), EnvOK(e, al, env), Known(e, report),
         BeanOK(e, x), NEW a, NotYet(x, a, report), NEW p, p = Process(env, report, x)
  PROVE  NotPlanned(report, p)
<1> DEFINE u == Upd(report, x)
<1>1. u # Null => report # Null /\ u.stage = report.stage
  BY DEF Upd, ByReport
<1> HIDE DEF u
<1>2. CASE HeldPlan(report, x, p)
  BY <1>1, <1>2 DEF HeldPlan, NotPlanned, Nothing, u
<1>3. CASE StopPlan(env, report, x, p)
  <2>1. ASSUME NEW c, c.stage = "STOPPING", p = Install(env, report, u, c, FALSE)
        PROVE NotPlanned(report, p)
    <3>1. p.cand = c /\ p.upd = u /\ p.wait = FALSE
      BY <2>1 DEF Install, Nothing
    <3> QED BY <1>1, <2>1, <3>1 DEF NotPlanned
  <2>2. ~(x.stage = "STOPPING" /\ report # Null /\ report.status = "SUCCEEDED") /\ x # Null
    BY <1>3 DEF StopPlan, NotYet
  <2>3. StopBean(env, x).stage = "STOPPING"
    BY DEF StopBean
  <2> QED BY <1>3, <2>1, <2>2, <2>3 DEF StopPlan, u
<1>4. ASSUME ReportPlan(env, report, x, p) PROVE NotPlanned(report, p)
  <2> DEFINE t == Transform(env, report)
             v == ByReport(t, x)
  <2>1. env # Null /\ env.deploy \in 1..e /\ report # Null /\ env \in EnvRec /\ report \in Report
    BY <1>4, PingAssumption DEF ReportPlan, EnvOK, Deploy0, Deploys
  <2>2. t \in Report /\ t.stage = report.stage /\ t.status = report.status
    BY <1>4, <2>1, TransformIs DEF ReportPlan
  <2>3. t.stage # "STOPPED" /\ ~(t.stage = "STOPPING" /\ t.status = "SUCCEEDED")
    BY <2>1, <2>2 DEF NotYet
  <2>4. v.stage = report.stage
    BY <2>2 DEF ByReport
  <2>5. ASSUME NEW c, NEW w, p = Install(env, t, v, c, w), c.stage # "STOPPED",
               w => c.stage \notin StopStages
        PROVE  NotPlanned(report, p)
    <3>1. p.cand = c /\ p.upd = v /\ p.wait = w
      BY <2>5 DEF Install, Nothing
    <3> QED BY <2>1, <2>4, <2>5, <3>1 DEF NotPlanned
  <2>6. ASSUME p = Nothing(v) PROVE NotPlanned(report, p)
    BY <2>1, <2>4, <2>6 DEF NotPlanned, Nothing
  <2>7. CASE RestartPlan(env, report, x, p)
    <3> DEFINE c == NewBean(env, x)
    <3>1. c.stage \notin StopStages
      BY <2>1, NewBeanIs
    <3>2. p = Install(env, t, v, c, Serves(t, x))
      BY <2>7 DEF RestartPlan
    <3> HIDE DEF c, t, v
    <3> QED BY <2>5, <3>1, <3>2 DEF StopStages
  <2>8. CASE SamePlan(env, report, x, p)
    <3>1. CASE t.stage # "SERVING_BUILD" /\ t.status = "SUCCEEDED" /\ p = Install(env, t, v, NextBean(t, x), FALSE)
      <4>1. NextBean(t, x).stage = NextStage(t.stage)
        BY DEF NextBean, ByReport
      <4>2. t.stage \in InstallStages
        BY <2>2, <2>3, <3>1 DEF Report, DeployStage
      <4> HIDE DEF t
      <4>3. NextStage(t.stage) \in InstallStages
        BY <3>1, <4>2, NextStageOfInstall
      <4>4. NextBean(t, x).stage # "STOPPED"
        BY <4>1, <4>3, StagesAssumption
      <4> HIDE DEF v
      <4> QED BY <2>5, <3>1, <4>4
    <3>2. CASE p = Install(env, t, v, v, FALSE)
      BY <2>2, <2>3, <2>4, <2>5, <3>2
    <3>3. CASE p = Nothing(v)
      BY <2>6, <3>3
    <3> QED BY <2>8, <3>1, <3>2, <3>3 DEF SamePlan
  <2> QED BY <1>4, <2>7, <2>8 DEF ReportPlan
<1>5. CASE FreshPlan(env, report, x, p)
  <2> DEFINE c == NewBean(env, x)
             w == x = Null \/ x.stage = "SERVING_BUILD"
  <2>1. env \in EnvRec /\ env.deploy \in 1..e
    BY <1>5, PingAssumption DEF FreshPlan, EnvOK, Deploy0, Deploys
  <2>2. c.stage \notin StopStages
    BY <2>1, NewBeanIs
  <2>3. p.cand = c /\ p.upd = Null
    BY <1>5 DEF FreshPlan, Install, Nothing
  <2> HIDE DEF c
  <2> QED BY <2>2, <2>3 DEF NotPlanned, StopStages
<1>6. CASE LeavePlan(env, report, x, p)
  BY <1>6 DEF LeavePlan, NotPlanned, Nothing, ByReport
<1> QED BY <1>2, <1>3, <1>4, <1>5, <1>6, Outcomes

LEMMA StopInit == ASSUME Init, NEW h \in Hosts PROVE StopInv(h)
<1>1. ASSUME NEW i \in Slots PROVE ping[h][i].pc \notin Decided
  BY FreeIs DEF Init, Decided
<1>2. row[h] # Null => row[h].stage = "SERVING_BUILD"
  BY DEF Init, ServesFirst
<1>3. disk[h] # Null => disk[h].stage = "SERVING_BUILD"
  BY DEF Init, ReportsFirst
<1>4. agent[h].pc = "asleep"
  BY AsleepIs DEF Init
<1> QED BY <1>1, <1>2, <1>3, <1>4 DEF StopInv, NotYet, Tells

LEMMA StopStep ==
  ASSUME IInv, Calm, [Next]_vars, NEW h \in Hosts, StopInv(h)
  PROVE  StopInv(h)'
<1> DEFINE x == row[h]
           told == Tells(agent[h], disk[h])
           told2 == Tells(agent'[h], disk'[h])
           not == NotYet(row'[h], agent'[h], told2)
           plans == \A i \in Slots : ping'[h][i].pc \in Decided =>
                      NotPlanned(ping'[h][i].report, ping'[h][i].plan)
<1>1. Prompt /\ Effect(h)
  BY CalmIs, Effects
<1>2. SUFFICES ASSUME ~stopped'[h] PROVE not /\ plans
  BY DEF StopInv
<1>3. ~stopped[h] /\ NotYet(x, agent[h], told)
  BY <1>1, <1>2 DEF StopInv, Effect, ThreadsGoOn, Occupies, Answers, Fails, Reports, Operates,
       Wakes, Forgets, Succeeds, RunsOn, SameHistory
<1>4. ASSUME NEW i \in Slots, ping[h][i].pc \in Decided
      PROVE  NotPlanned(ping[h][i].report, ping[h][i].plan)
  BY <1>3, <1>4 DEF StopInv
<1>5. CASE ThreadsGoOn(h)
  <2>1. not
    BY <1>3, <1>5 DEF ThreadsGoOn, SameWork
  <2>2. ASSUME NEW i \in Slots, ping'[h][i].pc \in Decided
        PROVE NotPlanned(ping'[h][i].report, ping'[h][i].plan)
    <3> DEFINE t == ping[h][i]
               u == ping'[h][i]
    <3>1. CASE u = t
      BY <1>4, <2>2, <3>1
    <3>2. CASE Deciding(t, x, u)
      <4>1. /\ t \in Thread /\ t.pc = "read" /\ ThreadOK(envDeploy, alias, t)
            /\ t.report \in Report \cup {Null} /\ t.report = told
        BY <1>1, <3>2, DecidedIs, ThreadOf DEF Deciding
      <4>2. t.env \in EnvRec \cup {Null} /\ EnvOK(envDeploy, alias, t.env) /\ Known(envDeploy, t.report)
        BY <4>1 DEF Thread, ThreadOK
      <4>3. x \in Row \cup {Null} /\ envDeploy \in Deploy0 /\ AliasOK(envDeploy, alias) /\ BeanOK(envDeploy, x)
        BY HostOf, ThreadOf
      <4>4. u.plan = Process(t.env, t.report, x) /\ u.report = t.report
        BY <3>2 DEF Deciding
      <4> HIDE DEF t, x, told, u
      <4>5. NotPlanned(t.report, u.plan)
        BY <1>3, <4>1, <4>2, <4>3, <4>4, DecisionStops
      <4> QED BY <4>4, <4>5 DEF u
    <3>3. CASE Moving(t, u)
      BY <1>4, <3>3 DEF Moving, Decided, Nothing, NotPlanned
    <3> QED BY <1>5, <2>2, <3>1, <3>2, <3>3 DEF ThreadsGoOn, Reading, Decided
  <2> QED BY <2>1, <2>2
<1>6. ASSUME NEW i \in Slots, Occupies(h, i) PROVE not /\ plans
  <2> DEFINE t == ping[h][i]
  <2>1. t.pc = "occupy" /\ t.pc \in Decided /\ t.plan.cand # Null /\ t.plan.wait
    BY <1>6, ThreadOf DEF Occupies, Decided, ThreadOK
  <2>2. row'[h].stage \notin StopStages
    BY <1>4, <1>6, <2>1 DEF Occupies, NotPlanned
  <2>3. not
    BY <1>3, <1>6, <2>2 DEF NotYet, Occupies, SameWork, StopStages
  <2>4. ASSUME NEW j \in Slots, ping'[h][j].pc \in Decided
        PROVE NotPlanned(ping'[h][j].report, ping'[h][j].plan)
    <3>1. j # i => ping'[h][j] = ping[h][j]
      BY <1>6, HostOf DEF Occupies
    <3> QED BY <1>4, <1>6, <2>1, <2>4, <3>1 DEF Occupies
  <2> QED BY <2>3, <2>4
<1>7. ASSUME NEW i \in Slots, Answers(h, i) PROVE not /\ plans
  <2> DEFINE t == ping[h][i]
             plan == t.plan
             b == Receive(agent[h], plan.goal)
  <2>1. t.pc \in Decided /\ t.pc # "free"
    BY <1>7 DEF Answers, Decided
  <2>2. /\ agent[h].pc = "waiting" /\ agent[h] \in Agent /\ t.report = disk[h] /\ told = disk[h]
        /\ plan \in Plan /\ PlanOK(envDeploy, plan)
        /\ agent[h].why = "fatal" => disk[h] # Null /\ disk[h].status \in FatalStatus
    BY <1>1, <2>1, DecidedIs
  <2>3. plans
    <3>1. ASSUME NEW j \in Slots PROVE ping'[h][j] = IF j = i THEN Free ELSE ping[h][j]
      BY <1>7, HostOf DEF Answers
    <3> QED BY <1>4, <3>1, FreeIs DEF Decided
  <2>4. NotPlanned(disk[h], plan)
    BY <1>4, <2>1, <2>2
  <2>5. /\ row'[h] = Null \/ row'[h] \in {x, plan.cand, plan.upd}
        /\ plan.cand # Null => row'[h] = plan.cand
    BY <1>7 DEF Answers, Calm, Written
  <2>6. agent'[h] = b /\ disk'[h] = disk[h]
    BY <1>7 DEF Answers
  <2>7. IF plan.goal.op = "NOOP" \/ agent[h].why = "fatal" THEN b = Asleep
        ELSE /\ b.pc = "running" /\ b.goal = plan.goal /\ b.report.status = "UNKNOWN"
             /\ b.report.stage = plan.goal.stage
    <3>1. plan.goal \in Goal /\ (plan.goal.op # "NOOP" => About(envDeploy, plan.goal))
      BY <2>2 DEF Plan, PlanOK
    <3> HIDE DEF b, plan
    <3> QED BY <2>2, <3>1, ReceiveIs DEF b
  <2>8. NotYet(x, agent[h], disk[h])
    BY <1>3, <2>2
  <2>9. row'[h] # Null => row'[h].stage # "STOPPED"
    BY <2>4, <2>5, <2>8 DEF NotPlanned, NotYet
  <2> HIDE DEF b, plan, x, told, t
  <2>10. CASE plan.goal.op = "NOOP" \/ agent[h].why = "fatal"
    <3>1. told2 = disk[h] /\ ~Works(agent'[h])
      BY <2>6, <2>7, <2>10, AsleepIs DEF Tells, Works
    <3>2. row'[h] # Null /\ row'[h].stage = "STOPPING" /\ disk[h] # Null => disk[h].status # "SUCCEEDED"
      <4>1. CASE agent[h].why = "fatal"
        BY <2>2, <4>1 DEF FatalStatus
      <4>2. CASE plan.goal.op = "NOOP"
        <5>1. row'[h] = Null \/ row'[h] = x \/ row'[h] = plan.upd
          BY <2>2, <2>5, <4>2 DEF PlanOK
        <5> QED BY <2>4, <2>8, <5>1 DEF NotPlanned, NotYet
      <4> QED BY <2>10, <4>1, <4>2
    <3> QED BY <2>3, <2>8, <2>9, <3>1, <3>2 DEF NotYet
  <2>11. CASE ~(plan.goal.op = "NOOP" \/ agent[h].why = "fatal") /\ plan.goal.op = "DELETE"
    <3>1. told2 = Null /\ agent'[h].goal.op = "DELETE"
      BY <2>6, <2>7, <2>11 DEF Tells
    <3> QED BY <2>3, <2>9, <3>1 DEF NotYet
  <2>12. CASE ~(plan.goal.op = "NOOP" \/ agent[h].why = "fatal") /\ plan.goal.op \in {"DEPLOY", "STOP"}
    <3>1. /\ told2 = agent'[h].report /\ told2.status = "UNKNOWN" /\ told2.stage = plan.goal.stage
          /\ agent'[h].goal = plan.goal
      BY <2>6, <2>7, <2>12 DEF Tells
    <3>2. plan.cand # Null /\ row'[h] = plan.cand /\ plan.cand.stage = plan.goal.stage
      BY <2>2, <2>5, <2>12 DEF PlanOK
    <3>3. plan.goal.stage # "STOPPED"
      BY <2>4, <3>2 DEF NotPlanned
    <3> QED BY <2>3, <3>1, <3>2, <3>3 DEF NotYet
  <2> QED BY <2>2, <2>10, <2>11, <2>12 DEF Plan, Goal
<1>8. CASE Reports(h)
  <2>1. plans /\ told2 = disk'[h] /\ row'[h] = x /\ agent'[h].pc = "waiting"
    BY <1>8 DEF Reports, Tells, Decided
  <2>2. CASE Wakes(h)
    <3>1. told2 = told /\ ~Works(agent'[h])
      BY <2>1, <2>2 DEF Wakes, Tells, Works
    <3> QED BY <1>3, <2>1, <3>1 DEF NotYet
  <2>3. CASE Forgets(h)
    BY <1>3, <2>1, <2>3 DEF Forgets, NotYet, Works
  <2>4. ASSUME agent[h].pc = "running", agent[h].goal.op # "DELETE"
        PROVE  /\ told = agent[h].report /\ Works(agent[h])
               /\ told \in Report /\ told.stage = agent[h].goal.stage /\ told # Null
    <3>1. AgentOK(envDeploy, agent[h]) /\ agent[h] \in Agent
      BY HostOf DEF HostInv, Sane
    <3> QED BY <2>4, <3>1 DEF AgentOK, Agent, Works, Tells
  <2>5. CASE Succeeds(h)
    <3>1. told2.stage = agent[h].goal.stage /\ ~Works(agent'[h]) /\ agent[h].goal.stage # "STOPPING"
      BY <1>2, <2>1, <2>4, <2>5 DEF Succeeds, RanScript, Works, Report
    <3>2. Works(agent[h]) /\ agent[h].goal.op # "DELETE" /\ told # Null /\ told.stage = agent[h].goal.stage
      BY <2>4, <2>5 DEF Succeeds, RanScript
    <3> QED BY <1>3, <2>1, <3>1, <3>2 DEF NotYet
  <2>6. CASE RunsOn(h)
    <3>1. Works(agent[h]) /\ agent[h].goal.op # "DELETE" /\ told # Null /\ told \in Report
          /\ agent[h].report = told
      BY <2>4, <2>6 DEF RunsOn, RanScript
    <3>2. told2.stage = told.stage /\ told2.status # "SUCCEEDED" /\ agent'[h].goal = agent[h].goal
      BY <2>1, <2>6, <3>1 DEF RunsOn, RanScript, Report
    <3> QED BY <1>3, <2>1, <3>1, <3>2 DEF NotYet
  <2> QED BY <1>8, <2>2, <2>3, <2>5, <2>6 DEF Reports
<1>9. CASE Operates(h)
  <2>1. row'[h] # Null => x # Null /\ row'[h].stage = x.stage
    <3>1. x \in Row /\ x # Null
      BY <1>9, HostOf DEF Operates
    <3> QED BY <1>9, <3>1 DEF Operates, Row
  <2>2. SameWork(h) /\ ping'[h] = ping[h]
    BY <1>9 DEF Operates
  <2> QED BY <1>3, <1>4, <2>1, <2>2 DEF NotYet, SameWork
<1>10. ASSUME NEW i \in Slots, Fails(h, i) PROVE FALSE
  BY <1>10, CalmIs DEF Fails
<1> QED BY <1>1, <1>5, <1>6, <1>7, <1>8, <1>9, <1>10 DEF Effect

\* A host is STOPPED, and let go, only after its services were shut down: no
\* report about another stage is taken for the end of STOPPING, although the row
\* turns to STOPPING while the agent still works on something else.
THEOREM StoppedIsStopped == ASSUME Faults = {} PROVE Spec => []StoppedWasStopping
<1> DEFINE stops == \A h \in Hosts : StopInv(h)
<1>1. Init => stops
  BY StopInit
<1>2. ASSUME IInv, [Next]_vars, stops PROVE stops'
  BY <1>2, StopStep DEF Calm
<1>3. stops => StoppedWasStopping
  BY DEF StopInv, NotYet, StoppedWasStopping
<1> HIDE DEF stops
<1> QED BY <1>1, <1>2, <1>3, IInvHolds, PTL DEF Spec
=============================================================================
