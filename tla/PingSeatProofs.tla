--------------------------- MODULE PingSeatProofs ---------------------------
(***************************************************************************)
(* max_parallel: never more hosts install than the environment allows, as  *)
(* long as clients wait for their answers and no operation takes a host    *)
(* out of the count and puts it back: the janitor expires none, users      *)
(* pause none, none is stopped. Writes of the service may fail.            *)
(***************************************************************************)
EXTENDS PingProofs, FiniteSetTheorems

Steady == Prompt /\ Ops \cap {"EXPIRE", "PAUSED_BY_USER", "STOP"} = {}

Counted(x) ==
  x # Null /\ x.stage # "SERVING_BUILD" /\ x.state # "PAUSED_BY_USER" /\ ~x.first
\* The row says that the host installs.
Going(x, c) == x # Null /\ x.stage # "SERVING_BUILD" /\ (x.first => c.first)

\* Who reports a stage of an installation has a row that says so.
RowSeat(x, r) ==
  /\ x # Null => x.state # "PAUSED_BY_USER"
  /\ r # Null /\ r.stage # "SERVING_BUILD" => x # Null /\ x.stage # "SERVING_BUILD"

\* What a plan may write for a host that reports r: it ends an installation only
\* when the report does, or a stage of it succeeded; a new one has to wait.
PlanSeat(r, plan) ==
  /\ plan.upd # Null => r # Null /\ plan.upd.stage = r.stage /\ plan.upd.state # "PAUSED_BY_USER"
  /\ plan.cand # Null =>
       /\ plan.cand.state # "PAUSED_BY_USER"
       /\ r # Null /\ r.stage # "SERVING_BUILD" /\ plan.cand.stage = "SERVING_BUILD" => r.status = "SUCCEEDED"
       /\ plan.wait => plan.cand.stage # "SERVING_BUILD"
  /\ plan.delete => r = Null

\* What a thread may write over the row x without a seat.
ThreadSeat(x, t) ==
  /\ PlanSeat(t.report, t.plan)
  /\ t.pc = "seat" => ~t.plan.cand.first
  /\ IF t.pc = "write" /\ t.plan.cand # Null THEN Going(x, t.plan.cand)
     ELSE Counted(t.plan.upd) => Counted(x)

SeatInv(h) ==
  /\ RowSeat(row[h], Tells(agent[h], disk[h]))
  /\ \A i \in Slots : ping[h][i].pc \in Decided => ThreadSeat(row[h], ping[h][i])

\* The lock belongs to the thread that is about to occupy a seat.
Holds(h, i) == ping[h][i].pc = "occupy" /\ ~ping[h][i].plan.cand.first
LockInv == \A h \in Hosts, i \in Slots : lock = <<h, i>> <=> Holds(h, i)

Limit == ParallelLimit /\ (lock # Null => Cardinality(Deploying) < MaxParallel)

SeatsInv == (\A h \in Hosts : SeatInv(h)) /\ LockInv /\ Limit
-----------------------------------------------------------------------------
(***************************************************************************)
(* A decision.                                                             *)
(***************************************************************************)
LEMMA SteadyIs ==
  ASSUME Steady
  PROVE  Prompt /\ "EXPIRE" \notin Ops /\ "PAUSED_BY_USER" \notin Ops /\ "STOP" \notin Ops
BY DEF Steady

\* The bean of a report does not start to count.
LEMMA ReportSeat ==
  ASSUME NEW t \in Report, NEW x \in Row \cup {Null}, RowSeat(x, t), NEW u, u = ByReport(t, x)
  PROVE  /\ u.stage = t.stage /\ u.state # "PAUSED_BY_USER"
         /\ Counted(u) => Counted(x)
         /\ t.stage # "SERVING_BUILD" => Going(x, u)
<1>1. u.stage = t.stage /\ u.state = NewState(t, x) /\ u.first = (x # Null /\ x.first /\ t.stage # "SERVING_BUILD")
  BY DEF ByReport
<1>2. x # Null => x \in Row /\ x.state # "PAUSED_BY_USER"
  BY DEF RowSeat
<1>3. t # Null
  BY NullApart
<1>4. NewState(t, x) # "PAUSED_BY_USER"
  BY <1>2 DEF NewState
<1> QED BY <1>1, <1>2, <1>3, <1>4 DEF RowSeat, Counted, Going

\* A plan as it is decided: whoever installs without a seat has one already.
Decides(x, r, plan) ==
  /\ PlanSeat(r, plan)
  /\ plan.upd # Null => (Counted(plan.upd) => Counted(x))
  /\ plan.cand # Null /\ ~plan.wait => Going(x, plan.cand)

LEMMA NothingSeat ==
  ASSUME NEW x, NEW r, NEW u,
         u # Null => r # Null /\ u.stage = r.stage /\ u.state # "PAUSED_BY_USER" /\ (Counted(u) => Counted(x))
  PROVE  Decides(x, r, Nothing(u))
BY DEF Decides, PlanSeat, Nothing

LEMMA InstallSeat ==
  ASSUME NEW x, NEW env \in EnvRec, NEW t \in Report \cup {Null}, NEW r, NEW u \in Row \cup {Null},
         u # Null => r # Null /\ u.stage = r.stage /\ u.state # "PAUSED_BY_USER" /\ (Counted(u) => Counted(x)),
         NEW c \in Row, NEW w \in BOOLEAN, c.state # "PAUSED_BY_USER",
         r # Null /\ r.stage # "SERVING_BUILD" /\ c.stage = "SERVING_BUILD" => r.status = "SUCCEEDED",
         w => c.stage # "SERVING_BUILD", ~w => Going(x, c),
         NEW p, p = Install(env, t, u, c, w)
  PROVE  Decides(x, r, p)
<1>1. p.upd = u /\ p.cand = c /\ p.wait = w /\ p.delete = FALSE
  BY DEF Install, Nothing
<1> QED BY <1>1 DEF Decides, PlanSeat

\* A host that does not serve a build has its seat already, and starts again.
LEMMA NewSeat ==
  ASSUME NEW env \in EnvRec, NEW x \in Row \cup {Null}, NEW e, env.deploy \in 1..e,
         NEW c, c = NewBean(env, x)
  PROVE  /\ c \in Row /\ c.state # "PAUSED_BY_USER" /\ c.stage # "SERVING_BUILD"
         /\ x # Null /\ x.stage # "SERVING_BUILD" => Going(x, c)
<1>1. c \in Row /\ c.stage = FirstStage /\ c.state = "NORMAL" /\ c.first = (x = Null \/ x.first)
  BY NewBeanIs
<1> QED BY <1>1, FirstStageIs DEF Going

LEMMA ReportSeats ==
  ASSUME "STOP" \notin Ops, NEW env \in EnvRec, NEW report \in Report, NEW x \in Row \cup {Null},
         NEW e \in Deploy0, NEW al, AliasOK(e, al), EnvOK(e, al, env), Known(e, report),
         RowSeat(x, report), NEW p, ReportPlan(env, report, x, p)
  PROVE  Decides(x, report, p)
<1> DEFINE t == Transform(env, report)
           u == ByReport(t, x)
<1>1. env # Null /\ env.deploy \in 1..e /\ report # Null
  BY NullApart, PingAssumption DEF ReportPlan, EnvOK, Deploy0, Deploys
<1>2. t \in Report /\ t.stage = report.stage /\ t.status = report.status /\ Known(e, t) /\ t # Null
  BY <1>1, TransformIs, NullApart DEF ReportPlan
<1>3. RowSeat(x, t)
  BY <1>1, <1>2 DEF RowSeat
<1>4. t.stage \in InstallStages
  BY <1>2 DEF Known, About
<1> HIDE DEF t
<1>5. /\ u.stage = report.stage /\ u.state # "PAUSED_BY_USER" /\ (Counted(u) => Counted(x))
      /\ t.stage # "SERVING_BUILD" => Going(x, u)
  BY <1>2, <1>3, ReportSeat
<1>6. u \in Row /\ u.first \in BOOLEAN
  <2>1. NewState(t, x) \in AgentState
    BY <1>2 DEF NewState, Row, AgentState, Report, AgentStatus
  <2> QED BY <1>2, <2>1 DEF u, ByReport, Row, Report
<1> HIDE DEF u
<1>7. ASSUME NEW c \in Row, NEW w \in BOOLEAN, p = Install(env, t, u, c, w), c.state # "PAUSED_BY_USER",
             report.stage # "SERVING_BUILD" /\ c.stage = "SERVING_BUILD" => report.status = "SUCCEEDED",
             w => c.stage # "SERVING_BUILD", ~w => Going(x, c)
      PROVE  Decides(x, report, p)
  BY <1>1, <1>2, <1>5, <1>6, <1>7, InstallSeat
<1>8. ASSUME p = Nothing(u) PROVE Decides(x, report, p)
  BY <1>1, <1>5, <1>8, NothingSeat
<1>9. CASE RestartPlan(env, report, x, p)
  <2> DEFINE c == NewBean(env, x)
             w == Serves(t, x)
  <2>1. p = Install(env, t, u, c, w) /\ w \in BOOLEAN
    BY <1>9 DEF RestartPlan, t, u, Serves
  <2>2. /\ c \in Row /\ c.state # "PAUSED_BY_USER" /\ c.stage # "SERVING_BUILD"
        /\ x # Null /\ x.stage # "SERVING_BUILD" => Going(x, c)
    BY <1>1, NewSeat
  <2>3. ~w => x # Null /\ x.stage # "SERVING_BUILD"
    BY <1>2, <1>3 DEF Serves, RowSeat
  <2> HIDE DEF c, w
  <2> QED BY <1>7, <2>1, <2>2, <2>3
<1>10. CASE SamePlan(env, report, x, p)
  <2>1. CASE t.status = "SUCCEEDED" /\ p = Install(env, t, u, NextBean(t, x), FALSE)
             /\ t.stage # "SERVING_BUILD"
    <3> DEFINE c == NextBean(t, x)
    <3>1. c = [u EXCEPT !.stage = NextStage(t.stage), !.state = "NORMAL", !.status = "UNKNOWN"]
      BY DEF NextBean, u
    <3>2. NextStage(t.stage) \in DeployStage
      BY <1>4, <2>1, NextStageOfInstall DEF DeployStage
    <3> HIDE DEF c
    <3>3. c \in Row /\ c.state = "NORMAL" /\ c.first = u.first
      BY <1>6, <3>1, <3>2 DEF Row, AgentState, AgentStatus
    <3>4. Going(x, c)
      BY <1>5, <2>1, <3>3 DEF Going
    <3> QED BY <1>2, <1>7, <2>1, <3>3, <3>4 DEF c
  <2>2. CASE u.state # "PAUSED_BY_SYSTEM" /\ p = Install(env, t, u, u, FALSE) /\ t.stage # "SERVING_BUILD"
    BY <1>5, <1>6, <1>7, <2>2
  <2>3. CASE p = Nothing(u)
    BY <1>8, <2>3
  <2> QED BY <1>10, <2>1, <2>2, <2>3 DEF SamePlan, t, u
<1> QED BY <1>9, <1>10 DEF ReportPlan

LEMMA DecisionSeats ==
  ASSUME "STOP" \notin Ops,
         NEW env \in EnvRec \cup {Null}, NEW report \in Report \cup {Null}, NEW x \in Row \cup {Null},
         NEW e \in Deploy0, NEW al, AliasOK(e, al), EnvOK(e, al, env), Known(e, report),
         BeanOK(e, x), RowSeat(x, report), NEW p, p = Process(env, report, x)
  PROVE  Decides(x, report, p)
<1> DEFINE u == Upd(report, x)
<1>1. u # Null => report # Null /\ u.stage = report.stage /\ u.state # "PAUSED_BY_USER" /\ (Counted(u) => Counted(x))
  BY ReportSeat DEF Upd
<1> HIDE DEF u
<1>2. CASE HeldPlan(report, x, p)
  BY <1>1, <1>2, NothingSeat DEF HeldPlan, u
<1>3. CASE StopPlan(env, report, x, p)
  BY <1>3 DEF StopPlan, BeanOK
<1>4. CASE ReportPlan(env, report, x, p)
  <2>1. env \in EnvRec /\ report \in Report
    BY <1>4 DEF ReportPlan
  <2> QED BY <1>4, <2>1, ReportSeats
<1>5. CASE FreshPlan(env, report, x, p)
  <2> DEFINE c == NewBean(env, x)
             w == x = Null \/ x.stage = "SERVING_BUILD"
  <2>1. env \in EnvRec /\ env.deploy \in 1..e
    BY <1>5, PingAssumption DEF FreshPlan, EnvOK, Deploy0, Deploys
  <2>2. /\ c \in Row /\ c.state # "PAUSED_BY_USER" /\ c.stage # "SERVING_BUILD"
        /\ x # Null /\ x.stage # "SERVING_BUILD" => Going(x, c)
    BY <2>1, NewSeat
  <2>3. report = Null /\ p = Install(env, Null, Null, c, w) /\ w \in BOOLEAN
    BY <1>5 DEF FreshPlan
  <2>4. ~w => Going(x, c)
    BY <2>2
  <2> HIDE DEF c, w
  <2> QED BY <2>1, <2>2, <2>3, <2>4, InstallSeat
<1>6. CASE LeavePlan(env, report, x, p)
  <2>1. CASE report # Null
    <3> DEFINE b == ByReport(report, x)
    <3>1. b.stage = report.stage /\ (Counted(b) => Counted(x)) /\ b.state # "PAUSED_BY_USER"
      BY <2>1, ReportSeat
    <3>2. b = [deploy |-> b.deploy, stage |-> b.stage, state |-> b.state, status |-> b.status, first |-> b.first]
      BY DEF ByReport
    <3> HIDE DEF b
    <3>3. p.cand = Null /\ p.delete = FALSE /\ p.upd = [b EXCEPT !.state = "DELETE"]
      BY <1>6, <2>1 DEF LeavePlan, Nothing, b
    <3>4. p.upd.stage = b.stage /\ p.upd.state = "DELETE" /\ p.upd.first = b.first
      BY <3>2, <3>3
    <3>5. Counted(p.upd) => Counted(b)
      <4>1. b # Null
        <5>1. b \in Row
          <6>1. report \in Report /\ NewState(report, x) \in AgentState
            BY <2>1 DEF NewState, Row, AgentState, Report, AgentStatus
          <6> QED BY <6>1 DEF b, ByReport, Row, Report
        <5> QED BY <5>1, NullApart
      <4> QED BY <3>1, <3>4, <4>1 DEF Counted
    <3> QED BY <2>1, <3>1, <3>3, <3>4, <3>5 DEF Decides, PlanSeat
  <2>2. CASE report = Null
    BY <1>6, <2>2 DEF LeavePlan, Nothing, Decides, PlanSeat
  <2> QED BY <2>1, <2>2
<1> QED BY <1>2, <1>3, <1>4, <1>5, <1>6, Outcomes
-----------------------------------------------------------------------------
(***************************************************************************)
(* The steps.                                                              *)
(***************************************************************************)
LEMMA SeatInit == ASSUME Init, NEW h \in Hosts PROVE SeatInv(h)
<1>1. ASSUME NEW i \in Slots PROVE ping[h][i].pc \notin Decided
  BY FreeIs DEF Init, Decided
<1>2. row[h] # Null => row[h].state = "NORMAL"
  BY DEF Init, ServesFirst
<1>3. agent[h].pc = "asleep" /\ (disk[h] # Null => disk[h].stage = "SERVING_BUILD")
  BY AsleepIs DEF Init, ReportsFirst
<1> QED BY <1>1, <1>2, <1>3 DEF SeatInv, RowSeat, Tells

\* Row x of a host becomes y: it counts already, or takes a seat.
Seats(h) == \E i \in Slots : Holds(h, i) /\ ping'[h][i].pc = "write"

LEMMA SeatStep ==
  ASSUME IInv, Steady, [Next]_vars, NEW h \in Hosts, SeatInv(h)
  PROVE  SeatInv(h)' /\ (Counted(row'[h]) => Counted(row[h]) \/ Seats(h))
<1> DEFINE x == row[h]
           told == Tells(agent[h], disk[h])
           told2 == Tells(agent'[h], disk'[h])
           kept == RowSeat(row'[h], told2)
           plans == \A i \in Slots : ping'[h][i].pc \in Decided => ThreadSeat(row'[h], ping'[h][i])
           counts == Counted(row'[h]) => Counted(x) \/ Seats(h)
<1>1. Prompt /\ Effect(h) /\ "EXPIRE" \notin Ops /\ "PAUSED_BY_USER" \notin Ops /\ "STOP" \notin Ops
  BY SteadyIs, Effects
<1>2. SUFFICES kept /\ plans /\ counts
  BY DEF SeatInv
<1>3. RowSeat(x, told) /\ \A i \in Slots : ping[h][i].pc \in Decided => ThreadSeat(x, ping[h][i])
  BY DEF SeatInv
<1>4. CASE ThreadsGoOn(h)
  <2>1. kept /\ counts /\ row'[h] = x
    BY <1>3, <1>4 DEF ThreadsGoOn, SameWork
  <2>2. ASSUME NEW i \in Slots, ping'[h][i].pc \in Decided
        PROVE ThreadSeat(x, ping'[h][i])
    <3> DEFINE t == ping[h][i]
               u == ping'[h][i]
    <3>1. CASE u = t
      BY <1>3, <2>2, <3>1
    <3>2. CASE Deciding(t, x, u)
      <4>1. /\ t \in Thread /\ t.pc = "read" /\ ThreadOK(envDeploy, alias, t)
            /\ t.report \in Report \cup {Null} /\ t.report = told
        BY <1>1, <3>2, DecidedIs, ThreadOf DEF Deciding
      <4>2. t.env \in EnvRec \cup {Null} /\ EnvOK(envDeploy, alias, t.env) /\ Known(envDeploy, t.report)
        BY <4>1 DEF Thread, ThreadOK
      <4>3. x \in Row \cup {Null} /\ envDeploy \in Deploy0 /\ AliasOK(envDeploy, alias) /\ BeanOK(envDeploy, x)
        BY HostOf, ThreadOf
      <4>4. /\ u.plan = Process(t.env, t.report, x) /\ u.report = t.report
            /\ u.pc = IF u.plan.cand = Null \/ ~u.plan.wait THEN "write"
                      ELSE IF u.plan.cand.first THEN "occupy" ELSE "seat"
        BY <3>2 DEF Deciding
      <4> HIDE DEF t, x, told, u
      <4>5. Decides(x, t.report, u.plan)
        BY <1>1, <1>3, <4>1, <4>2, <4>3, <4>4, DecisionSeats
      <4>6. ThreadSeat(x, u)
        BY <4>4, <4>5 DEF ThreadSeat, Decides, Counted
      <4> QED BY <4>6 DEF u
    <3>3. CASE Moving(t, u)
      <4>1. ThreadSeat(x, t) /\ ~(t.pc = "write")
        BY <1>3, <3>3 DEF Moving, Decided
      <4>2. CASE u.pc = "occupy" /\ u.plan = t.plan
        BY <3>3, <4>1, <4>2 DEF Moving, ThreadSeat
      <4>3. CASE u.pc = "write" /\ u.plan = Nothing(t.plan.upd)
        <5>1. u.plan.upd = t.plan.upd /\ u.plan.cand = Null /\ u.plan.delete = FALSE
          BY <4>3 DEF Nothing
        <5> QED BY <3>3, <4>1, <4>3, <5>1 DEF Moving, ThreadSeat, PlanSeat
      <4> QED BY <3>3, <4>2, <4>3 DEF Moving
    <3> QED BY <1>4, <2>2, <3>1, <3>2, <3>3 DEF ThreadsGoOn, Reading, Decided
  <2> QED BY <2>1, <2>2
<1>5. ASSUME NEW i \in Slots, Occupies(h, i) PROVE kept /\ plans /\ counts
  <2> DEFINE t == ping[h][i]
  <2>1. t.pc = "occupy" /\ t.pc \in Decided /\ t.plan.cand # Null /\ t.plan.wait
    BY <1>5, ThreadOf DEF Occupies, Decided, ThreadOK
  <2>2. PlanSeat(t.report, t.plan)
    BY <1>3, <2>1 DEF ThreadSeat
  <2>3. row'[h] = t.plan.cand /\ row'[h] # Null /\ row'[h].stage # "SERVING_BUILD" /\ row'[h].state # "PAUSED_BY_USER"
    BY <1>5, <2>1, <2>2 DEF Occupies, PlanSeat
  <2>4. kept
    BY <1>5, <2>3 DEF RowSeat
  <2>5. ASSUME NEW j \in Slots, ping'[h][j].pc \in Decided PROVE ThreadSeat(row'[h], ping'[h][j])
    <3>1. ping'[h][j] = ping[h][j] \/ j = i
      BY <1>5, HostOf DEF Occupies
    <3>2. j = i
      BY <1>1, <2>1, <2>5, <3>1, DecidedIs DEF Decided
    <3> QED BY <1>5, <2>2, <2>3, <3>2 DEF Occupies, ThreadSeat, Going
  <2>6. counts
    BY <1>5, <2>1, <2>3 DEF Counted, Seats, Holds, Occupies
  <2> QED BY <2>4, <2>5, <2>6
<1>6. ASSUME NEW i \in Slots, Answers(h, i) PROVE kept /\ plans /\ counts
  <2> DEFINE t == ping[h][i]
             plan == t.plan
             b == Receive(agent[h], plan.goal)
  <2>1. t.pc \in Decided /\ t.pc = "write"
    BY <1>6 DEF Answers, Decided
  <2>2. /\ agent[h].pc = "waiting" /\ agent[h] \in Agent /\ t.report = disk[h] /\ told = disk[h]
        /\ plan \in Plan /\ PlanOK(envDeploy, plan)
        /\ agent[h].why = "fatal" => disk[h] # Null /\ disk[h].status \in FatalStatus
    BY <1>1, <2>1, DecidedIs DEF Decided
  <2>3. plans
    <3>1. ASSUME NEW j \in Slots PROVE ping'[h][j].pc = "free"
      <4>1. ping'[h][j] = IF j = i THEN Free ELSE ping[h][j]
        BY <1>6, HostOf DEF Answers
      <4> QED BY <1>1, <2>1, <4>1, FreeIs, DecidedIs
    <3> QED BY <3>1 DEF Decided
  <2>4. PlanSeat(disk[h], plan) /\ (IF plan.cand # Null THEN Going(x, plan.cand) ELSE Counted(plan.upd) => Counted(x))
    BY <1>3, <2>1, <2>2 DEF ThreadSeat
  <2>5. \/ row'[h] = x
        \/ plan.cand # Null /\ row'[h] = plan.cand
        \/ plan.cand = Null /\ (plan.upd # Null \/ plan.delete) /\ row'[h] = plan.upd
    BY <1>6 DEF Answers, Written
  <2>6. agent'[h] = b /\ disk'[h] = disk[h]
    BY <1>6 DEF Answers
  <2>7. IF plan.goal.op = "NOOP" \/ agent[h].why = "fatal" THEN b = Asleep
        ELSE /\ b.pc = "running" /\ b.goal = plan.goal /\ b.report.status = "UNKNOWN"
             /\ b.report.stage = plan.goal.stage
    <3>1. plan.goal \in Goal /\ (plan.goal.op # "NOOP" => About(envDeploy, plan.goal))
      BY <2>2 DEF Plan, PlanOK
    <3> HIDE DEF b, plan
    <3> QED BY <2>2, <3>1, ReceiveIs DEF b
  <2>8. RowSeat(x, disk[h])
    BY <1>3, <2>2
  <2> HIDE DEF b, plan, x, told, t
  <2>9. row'[h] # Null => row'[h].state # "PAUSED_BY_USER"
    BY <2>4, <2>5, <2>8 DEF PlanSeat, RowSeat
  <2>10. counts
    BY <2>4, <2>5, <2>8 DEF Counted, Going, RowSeat
  <2>11. told2 # Null /\ told2.stage # "SERVING_BUILD" => row'[h] # Null /\ row'[h].stage # "SERVING_BUILD"
    <3>1. CASE plan.goal.op = "NOOP" \/ agent[h].why = "fatal"
      <4>1. told2 = disk[h]
        BY <2>6, <2>7, <3>1, AsleepIs DEF Tells
      <4>2. plan.cand # Null => agent[h].why = "fatal" /\ disk[h] # Null /\ disk[h].status # "SUCCEEDED"
        BY <2>2, <3>1 DEF PlanOK, FatalStatus
      <4>3. CASE plan.cand # Null /\ row'[h] = plan.cand
        BY <2>2, <2>4, <4>1, <4>2, <4>3, NullApart DEF PlanSeat
      <4>4. CASE plan.cand = Null /\ (plan.upd # Null \/ plan.delete) /\ row'[h] = plan.upd
        BY <2>4, <4>1, <4>4 DEF PlanSeat
      <4>5. CASE row'[h] = x
        BY <2>8, <4>1, <4>5 DEF RowSeat
      <4> QED BY <2>5, <4>3, <4>4, <4>5
    <3>2. CASE ~(plan.goal.op = "NOOP" \/ agent[h].why = "fatal") /\ plan.goal.op = "DELETE"
      BY <2>6, <2>7, <3>2 DEF Tells
    <3>3. CASE ~(plan.goal.op = "NOOP" \/ agent[h].why = "fatal") /\ plan.goal.op \in {"DEPLOY", "STOP"}
      <4>1. told2.stage = plan.goal.stage
        BY <2>6, <2>7, <3>3 DEF Tells
      <4>2. plan.cand # Null /\ plan.cand.stage = plan.goal.stage
        BY <2>2, <3>3 DEF PlanOK
      <4> QED BY <2>4, <2>5, <4>1, <4>2 DEF Going
    <3> QED BY <2>2, <3>1, <3>2, <3>3 DEF Plan, Goal
  <2> QED BY <2>3, <2>9, <2>10, <2>11 DEF RowSeat
<1>7. ASSUME NEW i \in Slots, Fails(h, i) PROVE kept /\ plans /\ counts
  <2>1. row'[h] = x /\ disk'[h] = disk[h] /\ agent'[h] = NoAnswer(agent[h]) /\ ping[h][i].pc = "occupy"
    BY <1>7 DEF Fails
  <2>2. /\ agent[h].pc = "waiting" /\ agent[h] \in Agent /\ agent[h].report = disk[h]
        /\ told = disk[h] /\ AgentOK(envDeploy, agent[h])
    BY <1>1, <2>1, DecidedIs, ThreadOf DEF Alone, Tells
  <2>3. told2 = told
    <3> DEFINE a == agent[h]
               b == NoAnswer(a)
    <3>1. a \in Agent /\ AgentOK(envDeploy, a) /\ a.pc = "waiting"
      BY <2>2
    <3> HIDE DEF a, b
    <3>2. \A d : a.report = d => Tells(b, d) = d
      BY <3>1, NoAnswerIs DEF b
    <3> QED BY <2>1, <2>2, <3>2 DEF a, b
  <2>4. kept /\ counts
    BY <1>3, <2>1, <2>3
  <2>5. ASSUME NEW j \in Slots, ping'[h][j].pc \in Decided PROVE ThreadSeat(row'[h], ping'[h][j])
    <3>1. ping'[h][j] = IF j = i THEN Free ELSE ping[h][j]
      BY <1>7, HostOf DEF Fails
    <3> QED BY <1>3, <2>1, <2>5, <3>1, FreeIs DEF Decided
  <2> QED BY <2>4, <2>5
<1>8. CASE Reports(h)
  <2>1. plans /\ told2 = disk'[h] /\ row'[h] = x /\ counts
    BY <1>8 DEF Reports, Tells, Decided
  <2>2. CASE Wakes(h)
    BY <1>3, <2>1, <2>2 DEF Wakes, Tells
  <2>3. CASE Forgets(h)
    BY <1>3, <2>1, <2>3 DEF Forgets, RowSeat
  <2>4. ASSUME NEW s, NEW why, RanScript(h, s, why) PROVE kept
    <3>1. told = agent[h].report /\ told \in Report /\ told # Null
      <4>1. AgentOK(envDeploy, agent[h]) /\ agent[h] \in Agent
        BY HostOf DEF HostInv, Sane
      <4> QED BY <2>4, <4>1 DEF RanScript, AgentOK, Agent, Works, Tells
    <3>2. told2.stage = told.stage
      BY <2>1, <2>4, <3>1 DEF RanScript, Report
    <3> QED BY <1>3, <2>1, <3>1, <3>2 DEF RowSeat
  <2> QED BY <1>8, <2>1, <2>2, <2>3, <2>4 DEF Reports, Succeeds, RunsOn
<1>9. CASE Operates(h)
  <2>1. /\ row'[h] # Null /\ x # Null /\ row'[h].state # "PAUSED_BY_USER"
        /\ row'[h].stage = x.stage /\ row'[h].first = x.first
    <3>1. x \in Row /\ x # Null
      BY <1>9, HostOf DEF Operates
    <3>2. PICK state \in Ops \cap AgentState : row'[h] = [x EXCEPT !.state = state]
      BY <1>1, <1>9 DEF Operates
    <3>3. row'[h] \in Row
      BY <3>1, <3>2 DEF Row
    <3> QED BY <1>1, <3>1, <3>2, <3>3, NullApart DEF Row
  <2>2. SameWork(h) /\ ping'[h] = ping[h]
    BY <1>9 DEF Operates
  <2>3. x.state # "PAUSED_BY_USER" /\ (Counted(row'[h]) <=> Counted(x))
    BY <1>3, <2>1 DEF Counted, RowSeat
  <2>4. \A c : Going(x, c) => Going(row'[h], c)
    BY <2>1 DEF Going
  <2>5. kept
    BY <1>3, <2>1, <2>2 DEF RowSeat, SameWork
  <2>6. plans
    BY <1>3, <2>2, <2>3, <2>4 DEF ThreadSeat
  <2> QED BY <2>3, <2>5, <2>6
<1> QED BY <1>1, <1>4, <1>5, <1>6, <1>7, <1>8, <1>9 DEF Effect

\* A thread that is about to take a seat, and the lock.
LEMMA HoldsStep ==
  ASSUME IInv, Prompt, NEW h \in Hosts, NEW i \in Slots, NEW t \in Thread, ping' = [ping EXCEPT ![h][i] = t],
         lock' = lock, LockInv, ~Holds(h, i), t.pc = "occupy" => t.plan.cand.first
  PROVE  LockInv'
<1>1. ping'[h][i] = t /\ \A k \in Hosts, j \in Slots : k # h \/ j # i => ping'[k][j] = ping[k][j]
  BY PingIs, HostOf
<1>2. ASSUME NEW k \in Hosts, NEW j \in Slots PROVE lock' = <<k, j>> <=> Holds(k, j)'
  <2>1. lock = <<k, j>> <=> Holds(k, j)
    BY DEF LockInv
  <2>2. CASE k = h /\ j = i
    BY <1>1, <2>1, <2>2 DEF Holds
  <2>3. CASE k # h \/ j # i
    BY <1>1, <2>1, <2>3 DEF Holds
  <2> QED BY <2>2, <2>3
<1> QED BY <1>2 DEF LockInv

\* One thread takes the lock, or gives up what it has.
LEMMA LockMoves ==
  ASSUME IInv, NEW h \in Hosts, NEW i \in Slots, NEW t \in Thread, ping' = [ping EXCEPT ![h][i] = t],
         LockInv,
         \/ lock = Null /\ lock' = <<h, i>> /\ t.pc = "occupy" /\ ~t.plan.cand.first
         \/ lock' = (IF lock = <<h, i>> THEN Null ELSE lock) /\ t.pc # "occupy"
  PROVE  LockInv'
<1>1. ping'[h][i] = t /\ \A k \in Hosts, j \in Slots : k # h \/ j # i => ping'[k][j] = ping[k][j]
  BY PingIs, HostOf
<1>2. ASSUME NEW k \in Hosts, NEW j \in Slots PROVE lock' = <<k, j>> <=> Holds(k, j)'
  <2>1. lock = <<k, j>> <=> Holds(k, j)
    BY DEF LockInv
  <2>2. Null # <<k, j>>
    BY NullApart
  <2>3. CASE k = h /\ j = i
    BY <1>1, <2>1, <2>2, <2>3 DEF Holds
  <2>4. CASE k # h \/ j # i
    <3>1. <<k, j>> # <<h, i>> /\ (Holds(k, j)' <=> Holds(k, j))
      BY <1>1, <2>4 DEF Holds
    <3> QED BY <2>1, <2>2, <3>1
  <2> QED BY <2>3, <2>4
<1> QED BY <1>2 DEF LockInv
\* The lock is taken only by a thread that has counted a free seat under it.
LockMove ==
  \/ lock' = lock \/ lock' = Null
  \/ lock = Null /\ Cardinality(Deploying) < MaxParallel /\ row' = row

LEMMA PingLock ==
  ASSUME IInv, IInv', Prompt, LockInv, NEW h \in Hosts, NEW i \in Slots, PingStep(h, i),
         ping[h][i].pc = "seat" => ~ping[h][i].plan.cand.first
  PROVE  LockInv' /\ LockMove
<1> DEFINE p == ping[h][i]
           t == ping'[h][i]
<1>1. p \in Thread /\ t \in Thread
  BY ThreadOf DEF IInv, TypeOK
<1>2. ASSUME NEW u, ping' = [ping EXCEPT ![h][i] = u]
      PROVE  t = u /\ ping' = [ping EXCEPT ![h][i] = t]
  BY <1>2 DEF IInv, TypeOK
<1>3. ASSUME NEW u, ping' = [ping EXCEPT ![h][i] = u], lock' = lock, p.pc # "occupy",
             u.pc = "occupy" => u.plan.cand.first
      PROVE  LockInv' /\ LockMove
  <2>1. t = u /\ ping' = [ping EXCEPT ![h][i] = t] /\ ~Holds(h, i)
    BY <1>2, <1>3 DEF Holds
  <2> HIDE DEF p, t
  <2>2. LockInv'
    BY <1>1, <1>3, <2>1, HoldsStep
  <2> QED BY <1>3, <2>2 DEF LockMove
<1>4. CASE ReadEnv(h, i)
  <2>1. PICK env : ping' = [ping EXCEPT ![h][i] = [p EXCEPT !.pc = "read", !.env = env]]
    BY <1>4 DEF ReadEnv
  <2>2. [p EXCEPT !.pc = "read", !.env = env].pc = "read" /\ p.pc = "new" /\ lock' = lock
    BY <1>1, <1>4 DEF Thread, ReadEnv
  <2> HIDE DEF p
  <2> QED BY <1>3, <2>1, <2>2
<1>5. CASE Analyse(h, i)
  <2> DEFINE plan == Process(p.env, p.report, row[h])
             next == IF plan.cand = Null \/ ~plan.wait THEN "write"
                     ELSE IF plan.cand.first THEN "occupy" ELSE "seat"
             u == [p EXCEPT !.plan = plan, !.pc = next, !.env = Null]
  <2>1. ping' = [ping EXCEPT ![h][i] = u] /\ p.pc = "read" /\ lock' = lock
    BY <1>5 DEF Analyse
  <2>2. u.pc = "occupy" => u.plan.cand.first
    <3> HIDE DEF plan
    <3> QED BY <1>1 DEF Thread
  <2> HIDE DEF u, p
  <2> QED BY <1>3, <2>1, <2>2
<1>6. CASE Seat(h, i)
  <2> DEFINE seated  == [p EXCEPT !.pc = "occupy"]
             dropped == [p EXCEPT !.pc = "write", !.plan = Nothing(p.plan.upd)]
  <2>1. p.pc = "seat" /\ ~p.plan.cand.first /\ row' = row
    BY <1>6 DEF Seat
  <2>2. seated.pc = "occupy" /\ seated.plan = p.plan /\ dropped.pc = "write"
    BY <1>1 DEF Thread
  <2>3. \/ /\ ping' = [ping EXCEPT ![h][i] = seated]
           /\ lock = Null /\ Cardinality(Deploying) < MaxParallel /\ lock' = <<h, i>>
        \/ ping' = [ping EXCEPT ![h][i] = dropped] /\ lock' = lock
    BY <1>6 DEF Seat
  <2> HIDE DEF seated, dropped
  <2>4. CASE ping' = [ping EXCEPT ![h][i] = dropped] /\ lock' = lock
    <3> HIDE DEF p
    <3> QED BY <1>3, <2>1, <2>2, <2>4
  <2>5. CASE /\ ping' = [ping EXCEPT ![h][i] = seated]
             /\ lock = Null /\ Cardinality(Deploying) < MaxParallel /\ lock' = <<h, i>>
    <3>1. t = seated /\ ping' = [ping EXCEPT ![h][i] = t]
      BY <1>2, <2>5
    <3> HIDE DEF p, t
    <3>2. LockInv'
      BY <1>1, <2>1, <2>2, <2>5, <3>1, LockMoves
    <3> QED BY <2>1, <2>5, <3>2 DEF LockMove
  <2> QED BY <2>3, <2>4, <2>5
<1>7. CASE Occupy(h, i)
  <2> DEFINE seated  == [p EXCEPT !.pc = "write"]
             dropped == [p EXCEPT !.pc = "write", !.plan = Nothing(p.plan.upd)]
  <2>1. seated.pc = "write" /\ dropped.pc = "write" /\ Free.pc = "free"
    BY <1>1, FreeIs DEF Thread
  <2>2. \/ ping' = [ping EXCEPT ![h][i] = seated]
        \/ ping' = [ping EXCEPT ![h][i] = dropped]
        \/ ping' = [ping EXCEPT ![h][i] = Free]
    BY <1>7 DEF Occupy
  <2>3. lock' = IF lock = <<h, i>> THEN Null ELSE lock
    BY <1>7 DEF Occupy
  <2> HIDE DEF seated, dropped
  <2>4. ping' = [ping EXCEPT ![h][i] = t] /\ t.pc # "occupy"
    BY <1>2, <2>1, <2>2
  <2> HIDE DEF t
  <2>5. LockInv'
    BY <1>1, <2>3, <2>4, LockMoves
  <2> QED BY <2>3, <2>5 DEF LockMove
<1>8. CASE Write(h, i)
  BY <1>3, <1>8, FreeIs DEF Write
<1> QED BY <1>4, <1>5, <1>6, <1>7, <1>8 DEF PingStep

LEMMA SendLock ==
  ASSUME IInv, IInv', Prompt, LockInv, lock' = lock, NEW h \in Hosts, NEW i \in Slots, NEW a, Send(h, i, a)
  PROVE  LockInv'
<1> DEFINE u == [Free EXCEPT !.pc = "new", !.report = a.report]
           t == ping'[h][i]
<1>1. ping' = [ping EXCEPT ![h][i] = u] /\ ping[h][i].pc = "free" /\ u.pc = "new"
  BY FreeIs DEF Send, Thread
<1>2. t = u /\ t \in Thread
  BY <1>1 DEF IInv, TypeOK
<1> HIDE DEF u, t
<1> QED BY <1>1, <1>2, HoldsStep DEF Holds

LEMMA LockStep ==
  ASSUME IInv, IInv', Steady, \A h \in Hosts : SeatInv(h), LockInv, [Next]_vars
  PROVE  LockInv' /\ LockMove
<1>1. ASSUME UNCHANGED <<ping, lock>> PROVE LockInv' /\ LockMove
  BY <1>1 DEF LockInv, Holds, LockMove
<1>2. ASSUME NEW h \in Hosts, AgentStep(h) PROVE LockInv' /\ LockMove
  <2>1. lock' = lock /\ \E i \in Slots : \E a : Send(h, i, a)
    <3>1. ASSUME NEW why, NEW r, DumpAndSend(h, why, r) PROVE \E i \in Slots : \E a : Send(h, i, a)
      BY <3>1 DEF DumpAndSend
    <3>2. CASE Start(h)
      BY <3>2 DEF Start
    <3>3. CASE Poll(h)
      BY <3>1, <3>3 DEF Poll
    <3>4. CASE Finish(h)
      BY <3>1, <3>4 DEF Finish
    <3> QED BY <1>2, <3>2, <3>3, <3>4 DEF AgentStep
  <2> QED BY <2>1, SteadyIs, SendLock DEF LockMove
<1>3. ASSUME NEW h \in Hosts, AgentFault(h) PROVE FALSE
  BY <1>3, SteadyIs, PromptFaults DEF AgentFault, Retry, GiveUp, Crash
<1>4. ASSUME NEW h \in Hosts, Operation(h) PROVE UNCHANGED <<ping, lock>>
  BY <1>4 DEF Operation, ChangeCapacity, SetState, Expire
<1>5. ASSUME NEW h \in Hosts, NEW i \in Slots, PingStep(h, i) PROVE LockInv' /\ LockMove
  <2>1. ping[h][i].pc = "seat" => ~ping[h][i].plan.cand.first
    BY DEF SeatInv, ThreadSeat, Decided
  <2> QED BY <1>5, <2>1, SteadyIs, PingLock
<1>6. ASSUME NewDeploy \/ PauseEnv \/ UNCHANGED vars PROVE UNCHANGED <<ping, lock>>
  BY <1>6 DEF NewDeploy, PauseEnv, vars
<1> QED BY <1>1, <1>2, <1>3, <1>4, <1>5, <1>6 DEF Next
-----------------------------------------------------------------------------
(***************************************************************************)
(* The limit.                                                              *)
(***************************************************************************)
LEMMA DeployingIs ==
  /\ Deploying = {h \in Hosts : Counted(row[h])} /\ IsFiniteSet(Deploying)
  /\ Cardinality(Deploying) \in Nat
<1>1. Deploying = {h \in Hosts : Counted(row[h])} /\ Deploying \subseteq Hosts
  BY DEF Deploying, Counted
<1>2. IsFiniteSet(Deploying)
  BY <1>1, PingAssumption, FS_Subset
<1> QED BY <1>1, <1>2, FS_CardinalityType

LEMMA LimitStep ==
  ASSUME IInv, IInv', Steady, SeatsInv, [Next]_vars
  PROVE  Limit'
<1>1. \A h \in Hosts : Counted(row'[h]) => Counted(row[h]) \/ Seats(h)
  BY SeatStep DEF SeatsInv
<1>2. LockInv /\ LockInv' /\ LockMove
  BY LockStep DEF SeatsInv
<1> DEFINE n == Cardinality(Deploying)
           D == Deploying
           E == {h \in Hosts : Counted(row'[h])}
<1>3. n \in Nat /\ n <= MaxParallel /\ (lock # Null => n < MaxParallel) /\ MaxParallel \in Nat /\ IsFiniteSet(D)
  BY DeployingIs, PingAssumption DEF SeatsInv, Limit, ParallelLimit
<1>4. Deploying' = E
  BY DEF Deploying, Counted
<1>5. CASE \A h \in Hosts : ~Seats(h)
  <2>1. E \subseteq D
    BY <1>1, <1>5, DeployingIs
  <2>2. Cardinality(E) \in Nat /\ Cardinality(E) <= n
    BY <1>3, <2>1, FS_Subset, FS_CardinalityType
  <2>3. lock' # Null => n < MaxParallel
    BY <1>2, <1>3 DEF LockMove
  <2> HIDE DEF E, D, n
  <2> QED BY <1>3, <1>4, <2>2, <2>3 DEF Limit, ParallelLimit
<1>6. ASSUME NEW h \in Hosts, Seats(h) PROVE Limit'
  <2>1. PICK i \in Slots : Holds(h, i) /\ ping'[h][i].pc = "write"
    BY <1>6 DEF Seats
  <2>2. lock = <<h, i>> /\ lock' # <<h, i>> /\ lock # Null
    BY <1>2, <2>1, NullApart DEF LockInv, Holds
  <2>3. lock' = Null
    BY <1>2, <2>2 DEF LockMove
  <2>4. \A k \in Hosts : Seats(k) => k = h
    <3>1. ASSUME NEW k \in Hosts, NEW j \in Slots, Holds(k, j) PROVE k = h
      <4>1. lock = <<k, j>>
        BY <1>2, <3>1 DEF LockInv
      <4> QED BY <2>2, <4>1
    <3> QED BY <3>1 DEF Seats
  <2>5. E \subseteq D \cup {h}
    BY <1>1, <2>4, DeployingIs
  <2> HIDE DEF E, D
  <2>6. IsFiniteSet(D \cup {h}) /\ Cardinality(D \cup {h}) <= n + 1
    <3>1. n = Cardinality(D)
      BY DEF D
    <3> HIDE DEF n
    <3>2. Cardinality(D \cup {h}) = IF h \in D THEN n ELSE n + 1
      BY <1>3, <3>1, FS_AddElement
    <3>3. IsFiniteSet(D \cup {h})
      BY <1>3, FS_AddElement
    <3> QED BY <1>3, <3>2, <3>3
  <2>7. Cardinality(E) \in Nat /\ Cardinality(E) <= Cardinality(D \cup {h}) /\ Cardinality(D \cup {h}) \in Nat
    BY <2>5, <2>6, FS_Subset, FS_CardinalityType
  <2>8. Cardinality(E) <= MaxParallel
    <3> HIDE DEF n
    <3> QED BY <1>3, <2>2, <2>6, <2>7
  <2> QED BY <1>4, <2>3, <2>8 DEF Limit, ParallelLimit
<1> QED BY <1>5, <1>6

LEMMA SeatsInit == ASSUME Init PROVE SeatsInv
<1>1. \A h \in Hosts : SeatInv(h)
  BY SeatInit
<1>2. ASSUME NEW h \in Hosts, NEW i \in Slots PROVE ~Holds(h, i) /\ lock # <<h, i>>
  BY FreeIs, NullApart DEF Init, Holds
<1>3. Deploying = {}
  BY DEF Init, Deploying, ServesFirst
<1>4. Cardinality(Deploying) = 0
  BY <1>3, FS_EmptySet
<1> QED BY <1>1, <1>2, <1>4, PingAssumption DEF SeatsInv, LockInv, Limit, ParallelLimit, Init

\* canDeploy counts without the lock, then again under it, and a seat is taken
\* by a write made before the lock is given back. So the limit holds however the
\* pings of any number of hosts interleave, and whatever happens in between:
\* new deploys, rollbacks, resets, hosts that join or leave, failed writes.
THEOREM ParallelLimited == ASSUME Steady PROVE Spec => []ParallelLimit
<1>1. Init => SeatsInv
  BY SeatsInit
<1>2. ASSUME IInv, IInv', SeatsInv, [Next]_vars PROVE SeatsInv'
  <2>1. \A h \in Hosts : SeatInv(h)'
    BY <1>2, SeatStep DEF SeatsInv
  <2>2. LockInv' /\ Limit'
    BY <1>2, LockStep, LimitStep DEF SeatsInv
  <2> QED BY <2>1, <2>2 DEF SeatsInv
<1>3. SeatsInv => ParallelLimit
  BY DEF SeatsInv, Limit
<1> QED BY <1>1, <1>2, <1>3, IInvHolds, PTL DEF Spec
=============================================================================
