------------------------- MODULE PingInstallProofs -------------------------
(***************************************************************************)
(* A host that counts as succeeded has run every stage of its deploy, in   *)
(* order: what an agent reports, what the row says and what was really run *)
(* fit together, under the two names a deploy has after a rollback. Clients*)
(* wait for their answers; writes of the service may fail, unless hosts    *)
(* are stopped.                                                            *)
(***************************************************************************)
EXTENDS PingProofs

Waiting == Prompt /\ ("STOP" \in Ops => Faults = {})

Serving1(x) == x # Null /\ x.stage = "SERVING_BUILD"
\* Of the two names, the one of the environment is the later deploy.
Ordered(r) == r.alias # NoDeploy => r.deploy <= r.alias
Dated(r) == r # Null => Ordered(r)
Latest(env, r) ==
  env # Null /\ r # Null => r.deploy <= env.deploy /\ r.alias <= env.deploy

\* The stages before the one reported have been run for it, or this one, too.
Ran(r, p) ==
  r # Null =>
    \A k \in 1..Len(Stages) :
      Stages[k] = r.stage /\ (k > 1 \/ r.status = "SUCCEEDED") =>
        /\ r.deploy \in p.ids /\ p.done >= k - 1
        /\ r.status = "SUCCEEDED" => p.done >= k
Installed(al, x, p) == p.ids \cap {x.deploy, al[x.deploy]} # {} /\ p.done >= Len(Stages) - 1

RowInst(al, x, a, r, p) ==
  /\ Dated(r) /\ Ran(r, p)
  /\ Serving1(x) => /\ r # Null => r.stage = "SERVING_BUILD"
                    /\ Installed(al, x, p)
                    /\ Works(a) /\ r # Null => x.deploy \in {r.deploy, r.alias}

\* A goal, and the candidate written for it: the stages before have been run.
CandInst(al, r, p, c, goal) ==
  /\ \A k \in 2..Len(Stages) : c.stage = Stages[k] => goal.deploy \in p.ids /\ p.done >= k - 1
  /\ c.stage = "SERVING_BUILD" => /\ r # Null /\ r.status = "SUCCEEDED" /\ Installed(al, c, p)
                                  /\ c.deploy \in {goal.deploy, goal.alias}
PlanInst(al, r, p, plan) ==
  /\ plan.upd # Null => /\ r # Null /\ plan.upd.stage = r.stage
                        /\ plan.upd.deploy = r.deploy \/ al[plan.upd.deploy] = r.deploy
  /\ plan.cand # Null => /\ CandInst(al, r, p, plan.cand, plan.goal)
                         /\ plan.wait => plan.cand.stage # "SERVING_BUILD"
  /\ Ordered(plan.goal)

ThreadInst(al, x, p, t) ==
  /\ t.pc = "read" => Latest(t.env, t.report)
  /\ t.pc \in Decided => PlanInst(al, t.report, p, t.plan)
  /\ t.pc = "write" /\ t.plan.cand # Null => ~Serving1(x) \/ Faults = {}

InstInv(h) ==
  /\ RowInst(alias, row[h], agent[h], Tells(agent[h], disk[h]), progress[h])
  /\ \A i \in Slots : ThreadInst(alias, row[h], progress[h], ping[h][i])
InstHolds == \A h \in Hosts : InstInv(h)
-----------------------------------------------------------------------------
(***************************************************************************)
(* Stages and names.                                                       *)
(***************************************************************************)
LEMMA StageIs ==
  /\ Len(Stages) \in Nat /\ Len(Stages) >= 2
  /\ \A k \in 1..Len(Stages) : /\ Stages[k] = "SERVING_BUILD" <=> k = Len(Stages)
                               /\ Stages[k] = FirstStage <=> k = 1
                               /\ Stages[k] \notin StopStages
<1>1. Len(Stages) \in Nat /\ Len(Stages) >= 2
  BY StagesAssumption
<1>2. ASSUME NEW k \in 1..Len(Stages)
      PROVE  /\ Stages[k] = "SERVING_BUILD" <=> k = Len(Stages)
             /\ Stages[k] = FirstStage <=> k = 1
  BY <1>1, StagesAssumption DEF FirstStage
<1>3. ASSUME NEW k \in 1..Len(Stages) PROVE Stages[k] \notin StopStages
  BY StagesAssumption DEF StopStages, InstallStages
<1> QED BY <1>1, <1>2, <1>3

\* After the stage at position k - 1 comes the one at position k.
LEMMA NextStageIs ==
  ASSUME NEW s \in InstallStages, s # "SERVING_BUILD"
  PROVE  \E k \in 1..(Len(Stages) - 1) : Stages[k] = s /\ NextStage(s) = Stages[k + 1]
<1>1. PICK j \in 1..Len(Stages) : Stages[j] = s
  BY DEF InstallStages
<1> DEFINE i == CHOOSE k \in 1..Len(Stages) : Stages[k] = s
<1>2. i \in 1..Len(Stages) /\ Stages[i] = s
  BY <1>1
<1>3. NextStage(s) = Stages[1 + i]
  BY StagesAssumption DEF NextStage, InstallStages
<1> HIDE DEF i
<1>4. i # Len(Stages) /\ Len(Stages) \in Nat
  BY <1>2, StageIs
<1>5. i \in 1..(Len(Stages) - 1) /\ 1 + i = i + 1
  BY <1>2, <1>4
<1> QED BY <1>2, <1>3, <1>5

\* A report about the deploy of env, under either name, is answered with a goal

\* about the deploy it names.
LEMMA NamesIs ==
  ASSUME NEW env \in EnvRec, NEW report \in Report, NEW e \in Deploy0, NEW al, AliasOK(e, al),
         EnvOK(e, al, env), env.deploy # NoDeploy, Known(e, report), Latest(env, report), Dated(report),
         NEW t, t = Transform(env, report),
         NEW d, d = IF t.alias # NoDeploy THEN t.alias ELSE env.deploy,
         NEW a, a = IF t.alias # NoDeploy THEN env.deploy ELSE NoDeploy
  PROVE  /\ t.deploy = env.deploy => d = report.deploy
         /\ a # NoDeploy => d <= a
         /\ env.deploy \in {d, a}
         /\ t.deploy = report.deploy \/ (t.deploy = env.deploy /\ al[t.deploy] = report.deploy)
<1>1. env # Null /\ report # Null /\ NoDeploy = 0
  BY NullApart, PingAssumption
<1>2. /\ env.deploy \in 1..e /\ env.alias = al[env.deploy] /\ env.alias \in 0..env.deploy /\ e \in Nat
      /\ env.deploy \in Nat
  BY <1>1, PingAssumption DEF EnvOK, AliasOK, Deploys, Deploy0, EnvRec
<1>3. /\ report.deploy \in Nat /\ report.alias \in Nat /\ report.deploy # 0
      /\ report.deploy <= env.deploy /\ report.alias <= env.deploy
      /\ report.alias # 0 => report.deploy <= report.alias
  BY <1>1, <1>2, PingAssumption DEF Latest, Dated, Ordered, Known, About
<1>4. CASE env.deploy # report.deploy /\ env.alias # NoDeploy /\ env.alias = report.deploy
  <2>1. t.deploy = env.deploy /\ t.alias = env.alias
    BY <1>4 DEF Transform, Report
  <2> HIDE DEF Dated
  <2> QED BY <1>1, <1>2, <1>3, <1>4, <2>1
<1>5. CASE ~(env.deploy # report.deploy /\ env.alias # NoDeploy /\ env.alias = report.deploy)
  <2>1. t = report
    BY <1>5 DEF Transform
  <2> QED BY <1>1, <1>2, <1>3, <1>5, <2>1
<1> QED BY <1>4, <1>5
-----------------------------------------------------------------------------
(***************************************************************************)
(* A decision.                                                             *)
(***************************************************************************)
LEMMA NothingInst ==
  ASSUME NEW al, NEW r, NEW p, NEW u,
         u # Null => r # Null /\ u.stage = r.stage /\ (u.deploy = r.deploy \/ al[u.deploy] = r.deploy)
  PROVE  PlanInst(al, r, p, Nothing(u)) /\ Nothing(u).cand = Null
BY DEF PlanInst, Nothing, NOOP, Ordered

LEMMA InstallFields ==
  ASSUME NEW env, NEW t, NEW u, NEW c, NEW w, NEW q, q = Install(env, t, u, c, w)
  PROVE  /\ q.upd = u /\ q.cand = c /\ q.wait = w
         /\ q.goal.deploy = IF t # Null /\ t.alias # NoDeploy THEN t.alias ELSE env.deploy
         /\ q.goal.alias = IF t # Null /\ t.alias # NoDeploy THEN env.deploy ELSE NoDeploy
BY DEF Install, Nothing

\* The first stage needs nothing to have been run before.
LEMMA FirstInst ==
  ASSUME NEW env \in EnvRec, NEW x \in Row \cup {Null}, NEW e, env.deploy \in 1..e,
         NEW c, c = NewBean(env, x)
  PROVE  c.stage # "SERVING_BUILD" /\ \A k \in 2..Len(Stages) : c.stage # Stages[k]
<1>1. c.stage = FirstStage
  BY NewBeanIs
<1> QED BY <1>1, FirstStageIs, StageIs

LEMMA ReportInst ==
  ASSUME NEW env \in EnvRec, NEW report \in Report, NEW x \in Row \cup {Null},
         NEW e \in Deploy0, NEW al, AliasOK(e, al), EnvOK(e, al, env), Known(e, report),
         Latest(env, report), NEW b, NEW p \in [ids : SUBSET Deploys, done : 0..Len(Stages)],
         RowInst(al, x, b, report, p), StopAsked(x, report),
         NEW q, ReportPlan(env, report, x, q)
  PROVE  PlanInst(al, report, p, q) /\ (q.cand # Null /\ ~q.wait => ~Serving1(x))
<1> DEFINE t == Transform(env, report)
           u == ByReport(t, x)
           d == IF t # Null /\ t.alias # NoDeploy THEN t.alias ELSE env.deploy
           a == IF t # Null /\ t.alias # NoDeploy THEN env.deploy ELSE NoDeploy
<1>1. env # Null /\ env.deploy \in 1..e /\ report # Null /\ env.deploy # NoDeploy
  BY NullApart, PingAssumption DEF ReportPlan, EnvOK, Deploy0, Deploys
<1>2. t \in Report /\ t.stage = report.stage /\ t.status = report.status /\ t # Null
  BY <1>1, TransformIs, NullApart DEF ReportPlan
<1>3. Dated(report) /\ Ran(report, p) /\ (Serving1(x) => report.stage = "SERVING_BUILD")
  BY <1>1 DEF RowInst
<1>4. /\ t.deploy = env.deploy => d = report.deploy
      /\ a # NoDeploy => d <= a
      /\ env.deploy \in {d, a}
      /\ t.deploy = report.deploy \/ (t.deploy = env.deploy /\ al[t.deploy] = report.deploy)
  BY <1>1, <1>2, <1>3, NamesIs
<1> HIDE DEF t
<1>5. u.stage = report.stage /\ u.deploy = t.deploy
  BY <1>2 DEF ByReport
<1>6. u # Null => report # Null /\ u.stage = report.stage /\ (u.deploy = report.deploy \/ al[u.deploy] = report.deploy)
  BY <1>1, <1>4, <1>5
<1> HIDE DEF u, d, a
<1>7. ASSUME NEW c, NEW w \in BOOLEAN, q = Install(env, t, u, c, w),
             w => c.stage # "SERVING_BUILD", ~w => ~Serving1(x),
             \A k \in 2..Len(Stages) : c.stage = Stages[k] => d \in p.ids /\ p.done >= k - 1,
             c.stage = "SERVING_BUILD" => report.status = "SUCCEEDED" /\ Installed(al, c, p)
                                          /\ c.deploy \in {d, a}
      PROVE  PlanInst(al, report, p, q) /\ (q.cand # Null /\ ~q.wait => ~Serving1(x))
  <2>1. q.upd = u /\ q.cand = c /\ q.wait = w /\ q.goal.deploy = d /\ q.goal.alias = a
    BY <1>7, InstallFields DEF d, a
  <2> QED BY <1>1, <1>4, <1>6, <1>7, <2>1 DEF PlanInst, CandInst, Ordered
<1>8. CASE q = Nothing(u)
  <2>1. PlanInst(al, report, p, q) /\ q.cand = Null
    BY <1>6, <1>8, NothingInst
  <2> QED BY <2>1
<1>9. CASE RestartPlan(env, report, x, q)
  <2> DEFINE c == NewBean(env, x)
             w == Serves(t, x)
  <2>1. q = Install(env, t, u, c, w) /\ w \in BOOLEAN
    BY <1>9 DEF RestartPlan, t, u, Serves
  <2>2. c.stage # "SERVING_BUILD" /\ \A k \in 2..Len(Stages) : c.stage # Stages[k]
    BY <1>1, FirstInst
  <2>3. ~w => ~Serving1(x)
    BY <1>2, <1>3 DEF Serves, Serving1
  <2> HIDE DEF c, w
  <2> QED BY <1>7, <2>1, <2>2, <2>3
<1>10. CASE SamePlan(env, report, x, q)
  <2>1. t.deploy = env.deploy
    BY <1>10 DEF SamePlan, t
  <2>2. report.stage # "SERVING_BUILD" => ~Serving1(x)
    BY <1>3
  <2>3. CASE t.stage # "SERVING_BUILD" /\ t.status = "SUCCEEDED"
             /\ q = Install(env, t, u, NextBean(t, x), FALSE)
    <3> DEFINE c == NextBean(t, x)
    <3>1. c.stage = NextStage(t.stage) /\ c.deploy = env.deploy
      BY <2>1 DEF NextBean, ByReport
    <3> HIDE DEF c
    <3>2. CASE t.stage \in InstallStages
      <4>1. PICK k \in 1..(Len(Stages) - 1) : Stages[k] = t.stage /\ NextStage(t.stage) = Stages[k + 1]
        BY <2>3, <3>2, NextStageIs
      <4>2. k \in 1..Len(Stages) /\ k + 1 \in 1..Len(Stages)
        BY <4>1, StageIs
      <4>3. report.deploy \in p.ids /\ p.done >= k
        BY <1>1, <1>2, <1>3, <2>3, <4>1, <4>2 DEF Ran
      <4>4. ASSUME NEW j \in 2..Len(Stages), c.stage = Stages[j]
            PROVE  d \in p.ids /\ p.done >= j - 1
        <5>1. j = k + 1
          BY <3>1, <4>1, <4>2, <4>4, StagesAssumption
        <5> QED BY <1>4, <2>1, <4>1, <4>3, <5>1
      <4>5. ASSUME c.stage = "SERVING_BUILD" PROVE Installed(al, c, p)
        <5>1. k + 1 = Len(Stages)
          BY <3>1, <4>1, <4>2, <4>5, StageIs
        <5>2. p.done >= Len(Stages) - 1
          BY <4>1, <4>3, <5>1
        <5>3. report.deploy \in {c.deploy, al[c.deploy]}
          BY <1>4, <2>1, <3>1
        <5> QED BY <4>3, <5>2, <5>3 DEF Installed
      <4> QED BY <1>2, <1>4, <1>7, <2>2, <2>3, <3>1, <4>4, <4>5 DEF c
    <3>3. t.stage \in InstallStages
      <4>1. CASE "STOP" \in Ops /\ t.stage \in StopStages
        <5>1. x # Null /\ x.state \in Sticky
          BY <1>1, <1>2, <2>3, <4>1 DEF StopAsked, FatalStatus
        <5> QED BY <1>10, <5>1 DEF ReportPlan, SamePlan, Sticky
      <4>2. CASE "STOP" \notin Ops
        BY <1>1, <1>2, <4>2 DEF Known, About
      <4> QED BY <1>2, <4>1, <4>2 DEF Report, DeployStage, StopStages
    <3> QED BY <3>2, <3>3
  <2>4. CASE t.stage # "SERVING_BUILD" /\ q = Install(env, t, u, u, FALSE)
    <3>1. ASSUME NEW k \in 2..Len(Stages), u.stage = Stages[k]
          PROVE  d \in p.ids /\ p.done >= k - 1
      <4>1. k \in 1..Len(Stages) /\ k > 1
        BY StageIs
      <4> QED BY <1>1, <1>3, <1>4, <1>5, <2>1, <3>1, <4>1 DEF Ran
    <3> QED BY <1>2, <1>5, <1>7, <2>2, <2>4, <3>1
  <2>5. CASE q = Nothing(u)
    BY <1>8, <2>5
  <2> QED BY <1>10, <2>3, <2>4, <2>5 DEF SamePlan, t, u
<1> QED BY <1>9, <1>10 DEF ReportPlan

LEMMA DecisionInst ==
  ASSUME NEW env \in EnvRec \cup {Null}, NEW report \in Report \cup {Null}, NEW x \in Row \cup {Null},
         NEW e \in Deploy0, NEW al, AliasOK(e, al), EnvOK(e, al, env), Known(e, report),
         BeanOK(e, x), StopAsked(x, report), Latest(env, report),
         NEW b, NEW p \in [ids : SUBSET Deploys, done : 0..Len(Stages)],
         RowInst(al, x, b, report, p), NEW q, q = Process(env, report, x)
  PROVE  PlanInst(al, report, p, q) /\ (q.cand # Null /\ ~q.wait => ~Serving1(x) \/ "STOP" \in Ops)
<1> DEFINE u == Upd(report, x)
           d == IF report # Null /\ report.alias # NoDeploy THEN report.alias ELSE env.deploy
           a == IF report # Null /\ report.alias # NoDeploy THEN env.deploy ELSE NoDeploy
<1>1. u # Null => report # Null /\ u.stage = report.stage /\ (u.deploy = report.deploy \/ al[u.deploy] = report.deploy)
  BY DEF Upd, ByReport
<1> HIDE DEF u
<1>2. CASE HeldPlan(report, x, q)
  <2>1. q = Nothing(u)
    BY <1>2 DEF HeldPlan, u
  <2>2. PlanInst(al, report, p, q) /\ q.cand = Null
    BY <1>1, <2>1, NothingInst
  <2> QED BY <2>2
<1>3. CASE StopPlan(env, report, x, q)
  <2>1. env # Null /\ "STOP" \in Ops /\ x # Null
    BY <1>3 DEF StopPlan, BeanOK
  <2>2. a # NoDeploy => d <= a
    BY <2>1 DEF Latest
  <2>3. ASSUME NEW c, c.stage \in StopStages, q = Install(env, report, u, c, FALSE)
        PROVE PlanInst(al, report, p, q)
    <3>1. c.stage # "SERVING_BUILD" /\ \A k \in 2..Len(Stages) : c.stage # Stages[k]
      BY <2>3, StageIs DEF StopStages
    <3>2. q.upd = u /\ q.cand = c /\ q.wait = FALSE /\ q.goal.deploy = d /\ q.goal.alias = a
      BY <2>3 DEF Install, Nothing
    <3> HIDE DEF d, a
    <3> QED BY <1>1, <2>2, <3>1, <3>2 DEF PlanInst, CandInst, Ordered
  <2>4. StopBean(env, x).stage = "STOPPING"
    BY DEF StopBean
  <2>5. x.stage = "STOPPING" => NextStopBean(report, x).stage = "STOPPED"
    <3> DEFINE y == ByReport(report, x)
    <3>1. y = [deploy |-> y.deploy, stage |-> y.stage, state |-> y.state, status |-> y.status, first |-> y.first]
      BY DEF ByReport
    <3>2. NextStopBean(report, x) = [y EXCEPT !.stage = NextStage(x.stage), !.state = "STOP", !.status = "UNKNOWN"]
      BY DEF NextStopBean
    <3> HIDE DEF y
    <3>3. NextStopBean(report, x).stage = NextStage(x.stage)
      BY <3>1, <3>2
    <3> QED BY <3>3, NextStageOfStop
  <2>6. CASE q = Install(env, report, u, StopBean(env, x), FALSE)
    <3> DEFINE c == StopBean(env, x)
    <3>1. c.stage \in StopStages /\ q = Install(env, report, u, c, FALSE)
      BY <2>4, <2>6 DEF StopStages
    <3> HIDE DEF c
    <3> QED BY <2>1, <2>3, <3>1
  <2>7. CASE x.stage = "STOPPING" /\ q = Install(env, report, u, NextStopBean(report, x), FALSE)
    <3> DEFINE c == NextStopBean(report, x)
    <3>1. c.stage \in StopStages /\ q = Install(env, report, u, c, FALSE)
      BY <2>5, <2>7 DEF StopStages
    <3> HIDE DEF c
    <3> QED BY <2>1, <2>3, <3>1
  <2>8. CASE x.stage = "STOPPING" /\ q = Install(env, report, u, x, FALSE)
    <3>1. x.stage \in StopStages
      BY <2>8 DEF StopStages
    <3> HIDE DEF d, a
    <3> QED BY <2>1, <2>3, <2>8, <3>1
  <2>9. \/ q = Install(env, report, u, StopBean(env, x), FALSE)
        \/ x.stage = "STOPPING" /\ q = Install(env, report, u, NextStopBean(report, x), FALSE)
        \/ x.stage = "STOPPING" /\ q = Install(env, report, u, x, FALSE)
    BY <1>3 DEF StopPlan, u
  <2> QED BY <2>6, <2>7, <2>8, <2>9
<1>4. CASE ReportPlan(env, report, x, q)
  <2>1. env \in EnvRec /\ report \in Report
    BY <1>4 DEF ReportPlan
  <2> QED BY <1>4, <2>1, ReportInst
<1>5. CASE FreshPlan(env, report, x, q)
  <2> DEFINE c == NewBean(env, x)
             w == x = Null \/ x.stage = "SERVING_BUILD"
  <2>1. env \in EnvRec /\ env.deploy \in 1..e
    BY <1>5, PingAssumption DEF FreshPlan, EnvOK, Deploy0, Deploys
  <2>2. c.stage # "SERVING_BUILD" /\ \A k \in 2..Len(Stages) : c.stage # Stages[k]
    BY <2>1, FirstInst
  <2>3. q.upd = Null /\ q.cand = c /\ q.wait = w /\ q.goal.alias = NoDeploy
    <3>1. report = Null /\ q = Install(env, Null, Null, c, w)
      BY <1>5 DEF FreshPlan
    <3> HIDE DEF c, w
    <3> QED BY <3>1, InstallFields
  <2> HIDE DEF c
  <2> QED BY <2>2, <2>3 DEF PlanInst, CandInst, Ordered, Serving1
<1>6. CASE LeavePlan(env, report, x, q)
  <2>1. CASE report # Null
    <3>1. q.cand = Null /\ q.goal.alias = NoDeploy /\ q.upd.stage = report.stage /\ q.upd.deploy = report.deploy
      BY <1>6, <2>1 DEF LeavePlan, Nothing, ByReport
    <3> QED BY <2>1, <3>1 DEF PlanInst, Ordered
  <2>2. CASE report = Null
    BY <1>6, <2>2 DEF LeavePlan, Nothing, NOOP, PlanInst, Ordered
  <2> QED BY <2>1, <2>2
<1> QED BY <1>2, <1>3, <1>4, <1>5, <1>6, Outcomes
-----------------------------------------------------------------------------
(***************************************************************************)
(* The steps.                                                              *)
(***************************************************************************)

\* A stage that succeeds for a deploy whose stages before have succeeded.
LEMMA AdvanceRuns ==
  ASSUME NEW p \in [ids : SUBSET Deploys, done : 0..Len(Stages)], NEW goal \in Goal,
         goal.deploy # NoDeploy, NEW k \in 1..Len(Stages), Stages[k] = goal.stage,
         k > 1 => goal.deploy \in p.ids /\ p.done >= k - 1,
         NEW q, q = Advance(p, goal)
  PROVE  /\ goal.deploy \in q.ids /\ q.done >= k
         /\ k > 1 => q = p \/ q.ids = {goal.deploy, goal.alias} \ {NoDeploy}
<1> DEFINE ids  == {goal.deploy, goal.alias} \ {NoDeploy}
           here == {j \in 1..Len(Stages) : Stages[j] = goal.stage}
<1>1. here = {k}
  BY StagesAssumption
<1>2. goal.deploy \in ids
  OBVIOUS
<1>3. q = CASE here = {1} -> [ids |-> ids, done |-> 1]
            [] here # {1} /\ ids \cap p.ids # {} /\ p.done + 1 \in here -> [ids |-> ids, done |-> p.done + 1]
            [] OTHER -> p
  BY DEF Advance
<1> HIDE DEF ids, here
<1>4. CASE k = 1
  <2>1. q = [ids |-> ids, done |-> 1]
    BY <1>1, <1>3, <1>4
  <2> QED BY <1>2, <1>4, <2>1
<1>5. CASE k # 1 /\ p.done + 1 = k
  <2>1. here # {1} /\ ids \cap p.ids # {} /\ p.done + 1 \in here
    BY <1>1, <1>2, <1>5
  <2>2. q = [ids |-> ids, done |-> p.done + 1]
    BY <1>3, <2>1
  <2> QED BY <1>2, <1>5, <2>2 DEF ids
<1>6. CASE k # 1 /\ p.done + 1 # k
  <2>1. here # {1} /\ p.done + 1 \notin here
    BY <1>1, <1>6
  <2>2. q = p
    BY <1>3, <2>1
  <2>3. Len(Stages) \in Nat /\ p.done \in Nat
    BY StagesAssumption
  <2> QED BY <1>6, <2>2, <2>3
<1> QED BY <1>4, <1>5, <1>6

LEMMA InstInit == ASSUME Init, NEW h \in Hosts PROVE InstInv(h)
<1>1. ASSUME NEW i \in Slots PROVE ping[h][i].pc = "free"
  BY <1>1, FreeIs DEF Init
<1>2. Tells(agent[h], disk[h]) = disk[h]
  BY AsleepIs DEF Init, Tells
<1>3. RowInst(alias, row[h], agent[h], Tells(agent[h], disk[h]), progress[h])
  <2>1. CASE h \notin Serving
    BY <1>2, <2>1 DEF Init, RowInst, Dated, Ran, Serving1
  <2>2. CASE h \in Serving
    <3>1. row[h] = ServesFirst(h) /\ disk[h] = ReportsFirst(h) /\ progress[h] = [ids |-> {1}, done |-> Len(Stages)]
      BY <2>2 DEF Init
    <3>2. disk[h].deploy = 1 /\ disk[h].alias = NoDeploy /\ disk[h].stage = "SERVING_BUILD" /\ row[h].deploy = 1
          /\ progress[h].ids = {1} /\ progress[h].done = Len(Stages)
      BY <3>1 DEF ServesFirst, ReportsFirst
    <3>3. \A k \in 1..Len(Stages) : progress[h].done >= k - 1 /\ progress[h].done >= k
      BY <3>2, StageIs
    <3>4. progress[h].done >= Len(Stages) - 1
      BY <3>2, StageIs
    <3>5. Ran(disk[h], progress[h]) /\ Dated(disk[h]) /\ Installed(alias, row[h], progress[h])
      BY <3>2, <3>3, <3>4 DEF Ran, Dated, Ordered, Installed
    <3> QED BY <1>2, <3>2, <3>5 DEF RowInst
  <2> QED BY <2>1, <2>2
<1> QED BY <1>1, <1>3 DEF InstInv, ThreadInst, Decided

\* What a host serves depends on its row and on what it was told about it.
LEMMA RowStays ==
  ASSUME NEW al, NEW x, NEW a, NEW r, NEW p, RowInst(al, x, a, r, p), NEW b, NEW y,
         Works(b) => Works(a), Serving1(y) => Serving1(x) /\ y.deploy = x.deploy
  PROVE  RowInst(al, y, b, r, p)
BY DEF RowInst, Installed

\* Nothing is told any more.
LEMMA RowForgets ==
  ASSUME NEW al, NEW x, NEW a, NEW r, NEW p, RowInst(al, x, a, r, p), NEW b
  PROVE  RowInst(al, x, b, Null, p)
BY DEF RowInst, Dated, Ran

\* The answer says what the plan says, whether or not it is written.
LEMMA AnswerInst ==
  ASSUME NEW e, NEW al, NEW x, NEW a \in Agent, NEW r \in Report \cup {Null}, NEW p,
         RowInst(al, x, a, r, p), p.done \in Nat, NEW plan \in Plan, PlanOK(e, plan), PlanInst(al, r, p, plan),
         a.why = "fatal" => r # Null /\ r.status \in FatalStatus,
         NEW y \in Written(x, plan), plan.cand # Null => ~Serving1(x) \/ y = plan.cand,
         NEW b, b = Receive(a, plan.goal)
  PROVE  RowInst(al, y, b, Tells(b, r), p)
<1> DEFINE goal == plan.goal
<1>1. /\ IF goal.op = "NOOP" \/ a.why = "fatal" THEN b = Asleep
         ELSE /\ b.pc = "running" /\ b.goal = goal /\ b.report.status = "UNKNOWN"
              /\ b.report.deploy = goal.deploy /\ b.report.alias = goal.alias
              /\ b.report.stage = goal.stage
      /\ goal.op \in {"NOOP", "DEPLOY", "STOP", "DELETE"}
  <2>1. goal \in Goal /\ (goal.op # "NOOP" => About(e, goal))
    BY DEF Plan, PlanOK
  <2> HIDE DEF goal
  <2>2. IF goal.op = "NOOP" \/ a.why = "fatal" THEN b = Asleep
        ELSE /\ b.pc = "running" /\ b.goal = goal /\ b.report.status = "UNKNOWN"
             /\ b.report.deploy = goal.deploy /\ b.report.alias = goal.alias
             /\ b.report.stage = goal.stage
    BY <2>1, ReceiveIs DEF goal
  <2> QED BY <2>1, <2>2 DEF Goal
<1>2. y = x \/ (plan.cand # Null /\ y = plan.cand) \/ (plan.cand = Null /\ y = plan.upd)
  BY DEF Written
<1>3. Dated(r) /\ Ran(r, p)
  BY DEF RowInst
<1>4. ASSUME y # plan.cand \/ plan.cand = Null, Serving1(y)
      PROVE  Installed(al, y, p) /\ (r # Null => r.stage = "SERVING_BUILD")
  <2>1. CASE y = x
    BY <1>4, <2>1 DEF RowInst
  <2>2. CASE y = plan.upd
    <3>1. r # Null /\ y.stage = r.stage /\ (y.deploy = r.deploy \/ al[y.deploy] = r.deploy)
      BY <1>4, <2>2 DEF PlanInst, Serving1
    <3>2. Stages[Len(Stages)] = r.stage /\ Len(Stages) \in 1..Len(Stages) /\ Len(Stages) > 1
      BY <1>4, <3>1, StageIs DEF Serving1
    <3>3. r.deploy \in p.ids /\ p.done >= Len(Stages) - 1
      BY <1>3, <3>1, <3>2 DEF Ran
    <3> QED BY <1>4, <3>1, <3>3 DEF Installed, Serving1
  <2> QED BY <1>2, <1>4, <2>1, <2>2
<1> HIDE DEF goal
<1>5. CASE goal.op = "NOOP" \/ a.why = "fatal"
  <2>1. Tells(b, r) = r /\ ~Works(b)
    BY <1>1, <1>5, AsleepIs DEF Tells, Works
  <2>2. plan.cand # Null /\ y = plan.cand => ~Serving1(y)
    <3>1. plan.cand # Null => r.status # "SUCCEEDED"
      BY <1>5 DEF PlanOK, FatalStatus, goal
    <3> QED BY <3>1 DEF Serving1, PlanInst, CandInst
  <2> QED BY <1>3, <1>4, <2>1, <2>2 DEF RowInst
<1>6. CASE ~(goal.op = "NOOP" \/ a.why = "fatal") /\ goal.op = "DELETE"
  <2>1. Tells(b, r) = Null /\ plan.cand = Null
    BY <1>1, <1>6 DEF Tells, PlanOK, goal
  <2> QED BY <1>4, <2>1 DEF RowInst, Dated, Ran
<1>7. CASE ~(goal.op = "NOOP" \/ a.why = "fatal") /\ goal.op \in {"DEPLOY", "STOP"}
  <2> DEFINE s == b.report
  <2>1. /\ Tells(b, r) = s /\ s.status = "UNKNOWN"
        /\ s.deploy = goal.deploy /\ s.alias = goal.alias /\ s.stage = goal.stage
    BY <1>1, <1>7 DEF Tells
  <2>2. plan.cand # Null /\ plan.cand.stage = goal.stage
    BY <1>7 DEF PlanOK, goal
  <2>3. CandInst(al, r, p, plan.cand, goal) /\ Ordered(goal)
    BY <2>2 DEF PlanInst, goal
  <2> HIDE DEF s
  <2>4. Dated(s)
    BY <2>1, <2>3 DEF Dated, Ordered
  <2>5. ASSUME NEW k \in 1..Len(Stages), Stages[k] = s.stage, k > 1 \/ s.status = "SUCCEEDED"
        PROVE  s.deploy \in p.ids /\ p.done >= k - 1 /\ (s.status = "SUCCEEDED" => p.done >= k)
    <3>1. k \in 2..Len(Stages) /\ plan.cand.stage = Stages[k]
      BY <2>1, <2>2, <2>5, StageIs
    <3> QED BY <2>1, <2>3, <3>1 DEF CandInst
  <2>6. Ran(s, p)
    BY <2>5 DEF Ran
  <2>7. Serving1(y) => y = plan.cand
    BY <1>2, <2>2
  <2>8. Serving1(y) => s.stage = "SERVING_BUILD" /\ Installed(al, y, p) /\ y.deploy \in {s.deploy, s.alias}
    BY <2>1, <2>2, <2>3, <2>7 DEF CandInst, Serving1
  <2> QED BY <2>1, <2>4, <2>6, <2>8 DEF RowInst
<1> QED BY <1>1, <1>5, <1>6, <1>7

\* The agent reports that its script still runs, or failed.
LEMMA RunsInst ==
  ASSUME NEW al, NEW x, NEW a, NEW r \in Report, r # Null, NEW p, RowInst(al, x, a, r, p), Works(a),
         NEW s, s # "SUCCEEDED", NEW b, NEW q, q = [r EXCEPT !.status = s]
  PROVE  RowInst(al, x, b, q, p)
<1>1. q.deploy = r.deploy /\ q.alias = r.alias /\ q.stage = r.stage /\ q.status = s
  BY DEF Report
<1>2. Dated(q) /\ Ran(q, p)
  BY <1>1 DEF RowInst, Dated, Ordered, Ran
<1> QED BY <1>1, <1>2 DEF RowInst

\* It reports that its stage is done.
LEMMA SuccessInst ==
  ASSUME NEW e \in Nat, NEW al, NEW x, BeanOK(e, x), NEW a, NEW r \in Report, r # Null,
         NEW p \in [ids : SUBSET Deploys, done : 0..Len(Stages)], RowInst(al, x, a, r, p), Works(a),
         NEW goal \in Goal, r.deploy = goal.deploy, r.alias = goal.alias, r.stage = goal.stage,
         goal.deploy \in 1..e, NEW b, ~Works(b),
         NEW q, q = [r EXCEPT !.status = "SUCCEEDED"], NEW n, n = Advance(p, goal)
  PROVE  RowInst(al, x, b, q, n)
<1>1. q.deploy = r.deploy /\ q.alias = r.alias /\ q.stage = r.stage /\ q.status = "SUCCEEDED"
  BY DEF Report
<1>2. Dated(q)
  BY <1>1 DEF RowInst, Dated, Ordered
<1>3. goal.deploy # NoDeploy /\ n \in [ids : SUBSET Deploys, done : 0..Len(Stages)]
  BY PingAssumption, AdvanceIs
<1>4. ASSUME NEW k \in 1..Len(Stages), Stages[k] = goal.stage
      PROVE  /\ goal.deploy \in n.ids /\ n.done >= k /\ n.done >= k - 1
             /\ k > 1 => n = p \/ n.ids = {goal.deploy, goal.alias} \ {NoDeploy}
  <2>1. k > 1 => goal.deploy \in p.ids /\ p.done >= k - 1
    BY <1>4 DEF RowInst, Ran
  <2>2. /\ goal.deploy \in n.ids /\ n.done >= k
        /\ k > 1 => n = p \/ n.ids = {goal.deploy, goal.alias} \ {NoDeploy}
    BY <1>3, <1>4, <2>1, AdvanceRuns
  <2> QED BY <1>3, <2>2, StageIs
<1>5. Ran(q, n)
  BY <1>1, <1>4 DEF Ran
<1>6. ASSUME Serving1(x) PROVE q.stage = "SERVING_BUILD" /\ Installed(al, x, n)
  <2>1. r.stage = "SERVING_BUILD" /\ Installed(al, x, p) /\ x.deploy \in {goal.deploy, goal.alias} \ {NoDeploy}
    BY <1>6, PingAssumption DEF RowInst, BeanOK, Serving1
  <2>2. Stages[Len(Stages)] = goal.stage /\ Len(Stages) \in 1..Len(Stages) /\ Len(Stages) > 1
    BY <2>1, StageIs
  <2>3. n.done >= Len(Stages) - 1 /\ (n = p \/ n.ids = {goal.deploy, goal.alias} \ {NoDeploy})
    BY <1>4, <2>2
  <2> QED BY <1>1, <2>1, <2>3 DEF Installed
<1> QED BY <1>2, <1>5, <1>6 DEF RowInst

\* What a host is affected by, as long as no deploy is made.
LEMMA InstStep ==
  ASSUME IInv, IInv', Waiting, NEW h \in Hosts, Effect(h), alias' = alias, InstInv(h)
  PROVE  InstInv(h)'
<1> DEFINE x == row[h]
           p == progress[h]
           told == Tells(agent[h], disk[h])
           told2 == Tells(agent'[h], disk'[h])
           fits == RowInst(alias, row'[h], agent'[h], told2, progress'[h])
           threads == \A i \in Slots : ThreadInst(alias, row'[h], progress'[h], ping'[h][i])
<1>1. Prompt
  BY DEF Waiting
<1>2. RowInst(alias, x, agent[h], told, p)
  BY DEF InstInv
<1>3. ASSUME NEW i \in Slots PROVE ThreadInst(alias, x, p, ping[h][i])
  BY DEF InstInv
<1>4. p \in [ids : SUBSET Deploys, done : 0..Len(Stages)] /\ p.done \in Nat
  BY StageIs DEF IInv, TypeOK
<1>5. SUFFICES fits /\ threads
  BY DEF InstInv
<1>6. ASSUME \A i \in Slots : ping'[h][i].pc \in {"free", "new"} PROVE threads
  BY <1>6 DEF ThreadInst, Decided
<1>7. CASE ThreadsGoOn(h)
  <2>1. row'[h] = x /\ told2 = told /\ progress'[h] = p /\ agent'[h] = agent[h]
    BY <1>7 DEF ThreadsGoOn, SameWork, SameHistory
  <2>2. ASSUME NEW i \in Slots PROVE ThreadInst(alias, x, p, ping'[h][i])
    <3> DEFINE t == ping[h][i]
               u == ping'[h][i]
    <3>1. CASE u = t
      BY <1>3, <3>1
    <3>2. CASE Reading(t, u)
      <4>1. Known(envDeploy, u.report) /\ envDeploy \in Nat
        BY <3>2, ThreadOf, HostOf DEF Reading, ThreadOK
      <4>2. Latest(u.env, u.report)
        BY <3>2, <4>1 DEF Reading, Latest, Known, About
      <4> QED BY <3>2, <4>2 DEF Reading, ThreadInst, Decided
    <3>3. CASE Deciding(t, x, u)
      <4>1. /\ t \in Thread /\ t.pc = "read" /\ ThreadOK(envDeploy, alias, t)
            /\ t.report \in Report \cup {Null} /\ t.report = told
        BY <1>1, <3>3, DecidedIs DEF Deciding
      <4>2. t.env \in EnvRec \cup {Null} /\ EnvOK(envDeploy, alias, t.env) /\ Known(envDeploy, t.report)
        BY <4>1 DEF Thread, ThreadOK
      <4>3. /\ x \in Row \cup {Null} /\ envDeploy \in Deploy0 /\ AliasOK(envDeploy, alias)
            /\ BeanOK(envDeploy, x) /\ StopAsked(x, t.report)
        BY <1>1, <4>1, HostOf, ThreadOf
      <4>4. u.plan = Process(t.env, t.report, x) /\ u.report = t.report
            /\ (u.pc = "write" => u.plan.cand = Null \/ ~u.plan.wait) /\ u.pc \in Decided
        BY <3>3 DEF Deciding, Decided
      <4>5. Latest(t.env, t.report)
        BY <1>3, <4>1 DEF ThreadInst
      <4> HIDE DEF t, x, told, u, p
      <4>6. /\ PlanInst(alias, t.report, p, u.plan)
            /\ u.plan.cand # Null /\ ~u.plan.wait => ~Serving1(x) \/ "STOP" \in Ops
        BY <1>2, <1>4, <4>1, <4>2, <4>3, <4>4, <4>5, DecisionInst
      <4> QED BY <4>4, <4>6 DEF ThreadInst, Decided, Waiting, u
    <3>4. CASE Moving(t, u)
      <4>1. PlanInst(alias, t.report, p, t.plan) /\ u.report = t.report
        BY <1>3, <3>4 DEF Moving, ThreadInst, Decided
      <4> DEFINE v == t.plan.upd
                 r == t.report
      <4>2. v # Null => r # Null /\ v.stage = r.stage /\ (v.deploy = r.deploy \/ alias[v.deploy] = r.deploy)
        BY <4>1 DEF PlanInst
      <4> HIDE DEF t, u, x, p, v, r
      <4>3. CASE u.pc = "occupy" /\ u.plan = t.plan
        BY <4>1, <4>3 DEF ThreadInst, Decided, u
      <4>4. CASE u.pc = "write" /\ u.plan = Nothing(v)
        <5>1. PlanInst(alias, r, p, Nothing(v)) /\ Nothing(v).cand = Null
          BY <4>2, NothingInst
        <5> QED BY <4>1, <4>4, <5>1 DEF ThreadInst, u, r
      <4>5. \/ u.pc = "occupy" /\ u.plan = t.plan
            \/ u.pc = "write" /\ u.plan = Nothing(v)
        BY <3>4 DEF Moving, v
      <4> QED BY <4>3, <4>4, <4>5
    <3> QED BY <1>7, <3>1, <3>2, <3>3, <3>4 DEF ThreadsGoOn
  <2> QED BY <1>2, <2>1, <2>2
<1>8. ASSUME NEW i \in Slots, Occupies(h, i) PROVE fits /\ threads
  <2> DEFINE t == ping[h][i]
             u == ping'[h][i]
  <2>1. t.pc = "occupy" /\ t.pc \in Decided /\ t.plan.cand # Null /\ t.plan.wait /\ row'[h] = t.plan.cand
    BY <1>8, ThreadOf DEF Occupies, Decided, ThreadOK
  <2>2. PlanInst(alias, t.report, p, t.plan)
    BY <1>3, <2>1 DEF ThreadInst
  <2>3. ~Serving1(row'[h])
    BY <2>1, <2>2 DEF PlanInst, Serving1
  <2>4. told2 = told /\ progress'[h] = p /\ agent'[h] = agent[h] /\ u.pc = "write" /\ u.plan = t.plan
        /\ u.report = t.report
    BY <1>8 DEF Occupies, SameWork, SameHistory
  <2>5. fits
    BY <1>2, <2>3, <2>4 DEF RowInst
  <2>6. ASSUME NEW j \in Slots PROVE ThreadInst(alias, row'[h], p, ping'[h][j])
    <3>1. CASE j = i
      BY <2>2, <2>3, <2>4, <3>1 DEF ThreadInst
    <3>2. CASE j # i
      <4>1. ping'[h][j].pc = "free"
        <5>1. ping'[h][j] = ping[h][j]
          BY <1>8, <3>2, HostOf DEF Occupies
        <5>2. t.pc # "free" => (ping[h][j].pc # "free" => j = i)
          BY <1>1, DecidedIs
        <5> QED BY <2>1, <3>2, <5>1, <5>2, HostOf DEF Thread
      <4> QED BY <4>1 DEF ThreadInst, Decided
    <3> QED BY <3>1, <3>2
  <2> QED BY <2>4, <2>5, <2>6
<1>9. ASSUME NEW i \in Slots, Answers(h, i) PROVE fits /\ threads
  <2> DEFINE t == ping[h][i]
             plan == t.plan
             b == Receive(agent[h], plan.goal)
  <2>1. t.pc \in Decided /\ t.pc = "write" /\ t.pc # "free"
    BY <1>9 DEF Answers, Decided
  <2>2. /\ agent[h] \in Agent /\ t.report = disk[h] /\ told = disk[h] /\ disk[h] \in Report \cup {Null}
        /\ plan \in Plan /\ PlanOK(envDeploy, plan)
        /\ agent[h].why = "fatal" => disk[h] # Null /\ disk[h].status \in FatalStatus
    BY <1>1, <2>1, DecidedIs
  <2>3. threads
    <3>1. ASSUME NEW j \in Slots PROVE ping'[h][j].pc = "free"
      <4>1. ping'[h][j] = IF j = i THEN Free ELSE ping[h][j]
        BY <1>9, HostOf DEF Answers
      <4> QED BY <1>1, <2>1, <4>1, FreeIs, DecidedIs
    <3> QED BY <1>6, <3>1
  <2>4. PlanInst(alias, disk[h], p, plan) /\ (plan.cand # Null => ~Serving1(x) \/ Faults = {})
    BY <1>3, <2>1, <2>2 DEF ThreadInst
  <2>5. row'[h] \in Written(x, plan) /\ (Faults = {} /\ plan.cand # Null => row'[h] = plan.cand)
    BY <1>9 DEF Answers
  <2>6. agent'[h] = b /\ disk'[h] = disk[h] /\ progress'[h] = p
    BY <1>9 DEF Answers, SameHistory
  <2>7. RowInst(alias, x, agent[h], disk[h], p)
    BY <1>2, <2>2
  <2> DEFINE y == row'[h]
             a == agent[h]
             r == disk[h]
  <2> HIDE DEF b, plan, x, told, t, p, y, a, r
  <2>8. plan.cand # Null => ~Serving1(x) \/ y = plan.cand
    BY <2>4, <2>5 DEF y
  <2>9. RowInst(alias, y, b, Tells(b, r), p)
    <3>1. a \in Agent /\ r \in Report \cup {Null} /\ (a.why = "fatal" => r # Null /\ r.status \in FatalStatus)
          /\ y \in Written(x, plan) /\ RowInst(alias, x, a, r, p) /\ PlanInst(alias, r, p, plan)
          /\ b = Receive(a, plan.goal)
      BY <2>2, <2>4, <2>5, <2>7 DEF a, r, y, b
    <3> QED BY <1>4, <2>2, <2>8, <3>1, AnswerInst
  <2> QED BY <2>3, <2>6, <2>9 DEF y, r
<1>10. ASSUME NEW i \in Slots, Fails(h, i) PROVE fits /\ threads
  <2>1. row'[h] = x /\ disk'[h] = disk[h] /\ agent'[h] = NoAnswer(agent[h]) /\ ping[h][i].pc = "occupy"
        /\ progress'[h] = p
    BY <1>10 DEF Fails, SameHistory
  <2>2. /\ agent[h].pc = "waiting" /\ agent[h] \in Agent /\ agent[h].report = disk[h]
        /\ told = disk[h] /\ AgentOK(envDeploy, agent[h])
    BY <1>1, <2>1, DecidedIs, ThreadOf DEF Alone, Tells
  <2>3. told2 = told /\ (Works(agent'[h]) => Works(agent[h]))
    <3> DEFINE a == agent[h]
               b == NoAnswer(a)
    <3>1. a \in Agent /\ AgentOK(envDeploy, a) /\ a.pc = "waiting"
      BY <2>2
    <3> HIDE DEF a, b
    <3>2. (\A d : a.report = d => Tells(b, d) = d) /\ (Works(b) => Works(a))
      BY <3>1, NoAnswerIs DEF b
    <3> QED BY <2>1, <2>2, <3>2 DEF a, b
  <2>4. fits
    BY <1>2, <2>1, <2>3, RowStays
  <2>5. ASSUME NEW j \in Slots PROVE ping'[h][j].pc = "free"
    <3>1. ping'[h][j] = IF j = i THEN Free ELSE ping[h][j]
      BY <1>10, HostOf DEF Fails
    <3>2. ping[h][i].pc # "free" => (ping[h][j].pc # "free" => j = i)
      BY <1>1, DecidedIs
    <3> QED BY <2>1, <3>1, <3>2, FreeIs
  <2> QED BY <1>6, <2>4, <2>5
<1>11. CASE Reports(h)
  <2>1. threads /\ told2 = disk'[h] /\ row'[h] = x /\ agent'[h].pc = "waiting"
    BY <1>6, <1>11 DEF Reports, Tells
  <2>2. CASE Wakes(h)
    <3>1. told2 = told /\ ~Works(agent'[h]) /\ progress'[h] = p
      BY <2>1, <2>2 DEF Wakes, Tells, Works, SameHistory
    <3> QED BY <1>2, <2>1, <3>1, RowStays
  <2>3. CASE Forgets(h)
    <3>1. told2 = Null /\ progress'[h] = p
      BY <2>1, <2>3 DEF Forgets, SameHistory
    <3> QED BY <1>2, <2>1, <3>1, RowForgets
  <2>4. ASSUME agent[h].pc = "running", agent[h].goal.op # "DELETE"
        PROVE  /\ told = agent[h].report /\ Works(agent[h]) /\ told \in Report /\ told # Null
               /\ agent[h].goal \in Goal /\ told.deploy = agent[h].goal.deploy
               /\ told.alias = agent[h].goal.alias /\ told.stage = agent[h].goal.stage
               /\ agent[h].goal.deploy \in 1..envDeploy
    <3>1. AgentOK(envDeploy, agent[h]) /\ agent[h] \in Agent
      BY HostOf DEF HostInv, Sane
    <3> QED BY <2>4, <3>1 DEF AgentOK, Agent, Works, Tells, Known, About
  <2>5. CASE Succeeds(h)
    <3> DEFINE a == agent[h]
               b == agent'[h]
               n == progress'[h]
               q == disk'[h]
    <3>1. /\ told = a.report /\ Works(a) /\ told \in Report /\ told # Null /\ a.goal \in Goal
          /\ told.deploy = a.goal.deploy /\ told.alias = a.goal.alias /\ told.stage = a.goal.stage
          /\ a.goal.deploy \in 1..envDeploy
      BY <2>4, <2>5 DEF Succeeds, RanScript
    <3>2. /\ q = [told EXCEPT !.status = "SUCCEEDED"] /\ n = Advance(p, a.goal) /\ ~Works(b)
      BY <2>1, <2>5, <3>1 DEF Succeeds, RanScript, Works
    <3>3. envDeploy \in Nat /\ BeanOK(envDeploy, x) /\ RowInst(alias, x, a, told, p)
      BY <1>2, HostOf, ThreadOf DEF HostInv, Sane
    <3> HIDE DEF a, b, n, q, told, x, p
    <3>4. RowInst(alias, x, b, q, n)
      BY <1>4, <3>1, <3>2, <3>3, SuccessInst
    <3> QED BY <2>1, <3>4 DEF b, n, q
  <2>6. CASE RunsOn(h)
    <3>1. told = agent[h].report /\ Works(agent[h]) /\ told \in Report /\ told # Null /\ progress'[h] = p
      BY <2>4, <2>6 DEF RunsOn, RanScript, SameHistory
    <3>2. PICK s \in {"UNKNOWN", "SCRIPT_FAILED", "TOO_MANY_RETRY"} : disk'[h] = [told EXCEPT !.status = s]
      BY <2>6, <3>1 DEF RunsOn, RanScript
    <3> HIDE DEF told, x, p
    <3>3. RowInst(alias, x, agent'[h], disk'[h], p)
      BY <1>2, <3>1, <3>2, RunsInst
    <3> QED BY <2>1, <3>1, <3>3
  <2> QED BY <1>11, <2>2, <2>3, <2>5, <2>6 DEF Reports
<1>12. CASE Operates(h)
  <2>1. Serving1(row'[h]) => Serving1(x) /\ row'[h].deploy = x.deploy
    <3>1. x \in Row /\ x # Null
      BY <1>12, HostOf DEF Operates
    <3> QED BY <1>12, <3>1 DEF Operates, Row, Serving1
  <2>2. agent'[h] = agent[h] /\ told2 = told /\ progress'[h] = p /\ ping'[h] = ping[h]
    BY <1>12 DEF Operates, SameWork, SameHistory
  <2>3. fits
    BY <1>2, <2>1, <2>2, RowStays
  <2>4. threads
    BY <1>3, <2>1, <2>2 DEF ThreadInst
  <2> QED BY <2>3, <2>4
<1> QED BY <1>7, <1>8, <1>9, <1>10, <1>11, <1>12 DEF Effect

\* A new deploy gets its alias; those of the deploys anybody speaks of are kept.
LEMMA InstNewDeploy ==
  ASSUME IInv, NewDeploy, NEW h \in Hosts, InstInv(h),
         \A d \in 1..envDeploy : alias'[d] = alias[d]
  PROVE  InstInv(h)'
<1> DEFINE x == row[h]
           p == progress[h]
           told == Tells(agent[h], disk[h])
<1>1. UNCHANGED <<row, agent, disk, progress, ping>>
  BY DEF NewDeploy
<1>2. ASSUME NEW c, BeanOK(envDeploy, c), c # Null PROVE alias'[c.deploy] = alias[c.deploy]
  BY <1>2 DEF BeanOK
<1>3. RowInst(alias, x, agent[h], told, p)
  BY DEF InstInv
<1>4. RowInst(alias', x, agent[h], told, p)
  <2>1. Serving1(x) => alias'[x.deploy] = alias[x.deploy]
    BY <1>2, ThreadOf, HostOf DEF Serving1, HostInv, Sane
  <2> HIDE DEF x, p, told
  <2> QED BY <1>3, <2>1 DEF RowInst, Installed
<1>5. ASSUME NEW i \in Slots PROVE ThreadInst(alias', x, p, ping[h][i])
  <2> DEFINE t == ping[h][i]
             plan == t.plan
  <2>1. ThreadInst(alias, x, p, t)
    BY DEF InstInv
  <2>2. CASE t.pc \in Decided
    <3>1. BeanOK(envDeploy, plan.upd) /\ BeanOK(envDeploy, plan.cand)
      BY <2>2, ThreadOf DEF ThreadOK, PlanOK
    <3>2. PlanInst(alias, t.report, p, plan)
      BY <2>1, <2>2 DEF ThreadInst
    <3>3. /\ plan.upd # Null => alias'[plan.upd.deploy] = alias[plan.upd.deploy]
          /\ plan.cand # Null => alias'[plan.cand.deploy] = alias[plan.cand.deploy]
      BY <1>2, <3>1
    <3> HIDE DEF plan, t, x, p
    <3>4. PlanInst(alias', t.report, p, plan)
      BY <3>2, <3>3 DEF PlanInst, CandInst, Installed
    <3> QED BY <2>1, <3>4 DEF ThreadInst, plan, t
  <2>3. CASE t.pc \notin Decided
    BY <2>1, <2>3 DEF ThreadInst
  <2> QED BY <2>2, <2>3
<1> QED BY <1>1, <1>4, <1>5 DEF InstInv

LEMMA AliasMoves == ASSUME [Next]_vars PROVE NewDeploy \/ alias' = alias
<1>1. ASSUME NEW h \in Hosts, AgentStep(h) \/ AgentFault(h) \/ Operation(h) PROVE alias' = alias
  BY <1>1 DEF AgentStep, Start, Poll, Finish, AgentFault, Retry, GiveUp, Crash, Operation,
       ChangeCapacity, SetState, Expire, tables
<1>2. ASSUME NEW h \in Hosts, NEW i \in Slots, PingStep(h, i) PROVE alias' = alias
  BY <1>2 DEF PingStep, ReadEnv, Analyse, Seat, Occupy, Write, tables
<1>3. ASSUME PauseEnv \/ UNCHANGED vars PROVE alias' = alias
  BY <1>3 DEF PauseEnv, vars, tables
<1> QED BY <1>1, <1>2, <1>3 DEF Next

\* PingHandler judges a host by a row that several pings write, about deploys
\* that change name when the environment is rolled back. Still a host that counts
\* as succeeded has run every stage of its deploy, or of the one it goes back to,
\* in order: whatever deploys and rollbacks are made meanwhile, whatever users
\* and the janitor do, and even if writes fail.
THEOREM CountedInstalled == ASSUME Waiting PROVE Spec => []CountedIsInstalled
<1>1. Init => InstHolds
  BY InstInit DEF InstHolds
<1>2. ASSUME IInv, IInv', InstHolds, [Next]_vars PROVE InstHolds'
  <2>1. ASSUME NEW h \in Hosts PROVE InstInv(h)'
    <3>1. InstInv(h) /\ Prompt
      BY <1>2 DEF InstHolds, Waiting
    <3>2. Effect(h) /\ \A d \in 1..envDeploy : alias'[d] = alias[d]
      BY <1>2, <3>1, Effects
    <3>3. CASE alias' = alias
      BY <1>2, <3>1, <3>2, <3>3, InstStep
    <3>4. CASE NewDeploy
      BY <1>2, <3>1, <3>2, <3>4, InstNewDeploy
    <3> QED BY <1>2, <3>3, <3>4, AliasMoves
  <2> QED BY <2>1 DEF InstHolds
<1>3. InstHolds => CountedIsInstalled
  <2>1. ASSUME NEW h \in Hosts, InstInv(h), row[h] # Null, row[h].stage = "SERVING_BUILD",
               row[h].deploy = envDeploy
        PROVE  progress[h].ids \cap {envDeploy, alias[envDeploy]} # {} /\ progress[h].done >= Len(Stages) - 1
    BY <2>1 DEF InstInv, RowInst, Serving1, Installed
  <2> QED BY <2>1 DEF InstHolds, CountedIsInstalled
<1> QED BY <1>1, <1>2, <1>3, IInvHolds, PTL DEF Spec
=============================================================================
