--------------------------- MODULE PromotionProofs ---------------------------
(***************************************************************************)
(* What the lock PROMOTE-<env> and the second look at the environ are      *)
(* worth, for any number of promoters, users and deploys: a deploy is      *)
(* promoted over once, and once auto promotion is off only a promotion     *)
(* already past its second look is still committed.                        *)
(***************************************************************************)
EXTENDS Promotion, TLAPS

\* p is past its second look and about to insert a promotion.
Holds(p) == thread[p].pc = "deploy" /\ thread[p].by = "promote"

\* p saw auto promotion on, and what it judges is still the current deploy.
Armed(p) ==
  \/ thread[p].pc \in {"current", "candidates", "lock"} /\ thread[p].old = envDeploy
  \/ Holds(p)

\* Dates are drawn in order: what a thread or a row calls the old deploy is not
\* newer than the current one, and the current one is the newest.
Ordered ==
  /\ envDeploy <= clock
  /\ \A t \in Mine : t <= envDeploy /\ (row[t].by = "promote" => row[t].old < t)
  /\ \A p \in Promoters \cup Users : thread[p].old <= envDeploy

\* Who is past the second look has the lock, and nobody has promoted over its
\* deploy.
Locking ==
  /\ \A p \in Promoters \cup Users : Holds(p) => p \in Promoters /\ lock = p
  /\ \A p \in Promoters : Holds(p) =>
       \A t \in Mine : row[t].by = "promote" => row[t].old # thread[p].old

\* After a late promotion nobody is left who could commit another.
Disarmed ==
  late > 0 => late = 1 /\ promoteType = "MANUAL" /\ \A p \in Promoters : ~Armed(p)

\* Only promoters go where promotions come from.
UsersApart == \A u \in Users : thread[u].by \in {"none", "user"} /\ thread[u].pc \in {"idle", "deploy"}

IInv == TypeOK /\ Ordered /\ Locking /\ Disarmed /\ UsersApart /\ ReplacedOnce

-----------------------------------------------------------------------------
\* Date 0 stands for no deploy.
LEMMA DatesAre == ASSUME NEW t \in Dates PROVE t \in Nat /\ t # 0 /\ t <= MaxDate
BY PromotionAssumption DEF Dates

LEMMA RecordsAre == NoRow \in Row /\ First \in Row /\ Idle \in Thread
BY DEF NoRow, First, Idle, Row, Thread, DeployState, ActiveStates, AcceptanceStatus

LEMMA FinalStateIs == ASSUME NEW s PROVE FinalState(s) \in DeployState
BY DEF FinalState, DeployState, FinalStates

LEMMA ProposedIs ==
  ASSUME NEW s, NEW enough \in BOOLEAN, NEW tooMany \in BOOLEAN, NEW stalled \in BOOLEAN
  PROVE  ProposedState(s, enough, tooMany, stalled) \in DeployState
BY DEF ProposedState, DeployState, ActiveStates

LEMMA Initially == ASSUME Init PROVE IInv
<1> USE PromotionAssumption, RecordsAre DEF Init
<1>1. 1 \in Dates /\ row[1] = First /\ Mine = {1}
  BY DEF Dates, Mine, First, NoRow
<1>2. TypeOK
  BY <1>1 DEF TypeOK
<1>3. \A p \in Promoters \cup Users : thread[p] = Idle
  OBVIOUS
<1>4. Ordered /\ Locking /\ Disarmed /\ UsersApart /\ ReplacedOnce
  BY <1>1, <1>3 DEF Ordered, Locking, Disarmed, UsersApart, ReplacedOnce, Holds, Idle, First, NoRow
<1> QED BY <1>2, <1>4 DEF IInv

(***************************************************************************)
(* The steps that change the local variables of one thread, the lock and   *)
(* the switches, but no deploy.                                            *)
(***************************************************************************)
LEMMA ThreadStep ==
  ASSUME IInv, NEW p \in Promoters \cup Users, NEW x \in Thread,
         thread' = [thread EXCEPT ![p] = x],
         UNCHANGED <<clock, row, envDeploy, late>>,
         envState' = envState, ops' \in 0 .. MaxOps,
         promoteType' \in {promoteType, "MANUAL"},
         x.old <= envDeploy,
         p \in Users => x.by \in {"none", "user"} /\ x.pc \in {"idle", "deploy"},
         lock' \in {lock, p, Free},
         lock' # lock /\ lock' = p => p \in Promoters,
         lock' # lock => lock = p \/ (lock = Free /\ lock' = p),
         x.pc = "deploy" /\ x.by = "promote" => lock' = p /\ x.old = envDeploy,
         late > 0 => /\ ~(x.pc = "deploy" /\ x.by = "promote")
                     /\ x.pc \in {"current", "candidates", "lock"} => x.old # envDeploy
  PROVE  IInv'
<1> USE PromotionAssumption DEF IInv, TypeOK
<1>1. Mine' = Mine
  BY DEF Mine
<1>2. \A q \in Promoters \cup Users : thread'[q] = IF q = p THEN x ELSE thread[q]
  OBVIOUS
<1>3. TypeOK'
  BY <1>1
<1>4. Ordered' /\ UsersApart' /\ ReplacedOnce'
  BY <1>1, <1>2 DEF Ordered, UsersApart, ReplacedOnce
<1>5. \A q \in Promoters \cup Users : Holds(q)' => q \in Promoters /\ lock' = q
  <2> SUFFICES ASSUME NEW q \in Promoters \cup Users, Holds(q)' PROVE q \in Promoters /\ lock' = q
    OBVIOUS
  <2>1. CASE q = p
    BY <1>2, <2>1 DEF Holds
  <2>2. CASE q # p
    <3>1. Holds(q) /\ lock = q /\ q \in Promoters
      BY <1>2, <2>2 DEF Holds, Locking
    <3> QED BY <2>2, <3>1
  <2> QED BY <2>1, <2>2
<1>6. \A q \in Promoters : Holds(q)' => \A t \in Mine : row[t].by = "promote" => row[t].old # thread'[q].old
  <2> SUFFICES ASSUME NEW q \in Promoters, Holds(q)', NEW t \in Mine, row[t].by = "promote"
               PROVE  row[t].old # thread'[q].old
    OBVIOUS
  <2>1. CASE q = p
    <3>1. x.old = envDeploy
      BY <1>2, <2>1 DEF Holds
    <3>2. row[t].old < t /\ t <= envDeploy
      BY DEF Ordered
    <3>3. row[t].old \in Nat /\ t \in Nat /\ envDeploy \in Nat
      BY DatesAre DEF Mine, Row, Dates
    <3> QED BY <1>2, <2>1, <3>1, <3>2, <3>3
  <2>2. CASE q # p
    BY <1>2, <2>2 DEF Holds, Locking
  <2> QED BY <2>1, <2>2
<1>7. Locking'
  BY <1>1, <1>5, <1>6 DEF Locking
<1>8. Disarmed'
  <2> SUFFICES ASSUME late > 0 PROVE late = 1 /\ promoteType' = "MANUAL" /\ \A q \in Promoters : ~Armed(q)'
    BY DEF Disarmed
  <2>1. late = 1 /\ promoteType' = "MANUAL"
    BY DEF Disarmed
  <2>2. \A q \in Promoters : ~Armed(q)'
    BY <1>2 DEF Disarmed, Armed, Holds
  <2> QED BY <2>1, <2>2
<1> QED BY <1>3, <1>4, <1>7, <1>8

(***************************************************************************)
(* The steps that change rows, but not whose they are, and no thread.      *)
(***************************************************************************)
LEMMA RowStep ==
  ASSUME IInv, UNCHANGED <<envDeploy, envState, promoteType, lock, thread, late>>,
         clock' \in clock .. MaxDate, ops' \in 0 .. MaxOps,
         row' \in [Dates -> Row], Mine' = Mine,
         \A t \in Mine : row'[t].by = row[t].by /\ row'[t].old = row[t].old
  PROVE  IInv'
<1> USE PromotionAssumption DEF IInv, TypeOK
<1>1. TypeOK'
  OBVIOUS
<1>2. envDeploy \in Int /\ clock \in Int
  BY DatesAre DEF Mine
<1>3. Ordered'
  BY <1>2 DEF Ordered
<1>4. Locking' /\ Disarmed' /\ UsersApart' /\ ReplacedOnce'
  BY DEF Locking, Disarmed, UsersApart, ReplacedOnce, Holds, Armed
<1> QED BY <1>1, <1>3, <1>4

-----------------------------------------------------------------------------
(***************************************************************************)
(* One lemma per group of actions.                                         *)
(***************************************************************************)

LEMMA RowsChanged ==
  ASSUME IInv, \/ PredDeploy \/ Progress \/ Reject
               \/ \E t \in Dates : PredAccepted(t) \/ JanitorDelete(t)
  PROVE  IInv'
<1> USE PromotionAssumption, RecordsAre DEF IInv, TypeOK
<1>0. clock \in Nat /\ envDeploy \in Nat /\ MaxDate \in Nat /\ MaxOps \in Nat
  BY DatesAre DEF Mine
<1>1. CASE PredDeploy
  <2> DEFINE n == clock + 1
  <2>1. n \in Dates /\ clock' = n /\ n \notin Mine
    BY <1>0, <1>1 DEF PredDeploy, Dates, Ordered
  <2>2. \A t \in Dates : row'[t] = IF t = n THEN [NoRow EXCEPT !.env = "pred"]
                          ELSE IF t \in Pred /\ row[t].acc \notin FinalAcceptance
                            THEN [row[t] EXCEPT !.acc = "TERMINATED"] ELSE row[t]
    BY <1>1 DEF PredDeploy
  <2>3. ASSUME NEW t \in Dates PROVE row'[t] \in Row /\ (row'[t].env = "mine" <=> row[t].env = "mine")
    <3>1. CASE t = n
      <4>1. row'[t] = [NoRow EXCEPT !.env = "pred"] /\ row[t].env # "mine"
        BY <2>1, <2>2, <3>1 DEF Mine
      <4>2. [NoRow EXCEPT !.env = "pred"] \in Row
        BY DEF Row, NoRow
      <4>3. row'[t].env = "pred"
        BY <4>1 DEF NoRow
      <4> QED BY <4>1, <4>2, <4>3
    <3>2. CASE t # n
      <4>1. row'[t] = row[t] \/ row'[t] = [row[t] EXCEPT !.acc = "TERMINATED"]
        BY <2>2, <3>2
      <4>2. row[t] \in Row
        OBVIOUS
      <4> QED BY <4>1, <4>2 DEF Row, AcceptanceStatus
    <3> QED BY <3>1, <3>2
  <2>4. row' \in [Dates -> Row]
    BY <1>1, <2>3 DEF PredDeploy
  <2>5. Mine' = Mine
    BY <2>3 DEF Mine
  <2>6. \A t \in Mine : row'[t] = row[t]
    BY <2>1, <2>2 DEF Mine, Pred
  <2>7. clock' \in clock .. MaxDate
    BY <1>0, <1>1, <2>1 DEF PredDeploy
  <2> QED BY <1>0, <1>1, <2>4, <2>5, <2>6, <2>7, RowStep DEF PredDeploy
<1>2. ASSUME NEW t \in Dates, NEW s \in DeployState, NEW a \in AcceptanceStatus,
             row' = [row EXCEPT ![t].state = s, ![t].acc = a]
      PROVE  row' \in [Dates -> Row] /\ Mine' = Mine
             /\ \A u \in Mine : row'[u].by = row[u].by /\ row'[u].old = row[u].old
  <2>1. \A u \in Dates : u # t => row'[u] = row[u]
    BY <1>2
  <2>2. row[t] \in Row /\ row'[t] = [row[t] EXCEPT !.state = s, !.acc = a]
    BY <1>2
  <2>3. row'[t] \in Row /\ row'[t].env = row[t].env /\ row'[t].by = row[t].by
        /\ row'[t].old = row[t].old
    BY <2>2 DEF Row
  <2>4. row' \in [Dates -> Row]
    BY <1>2, <2>1, <2>3
  <2> QED BY <2>1, <2>3, <2>4 DEF Mine
<1>3. \A t \in Dates : row[t] = [row[t] EXCEPT !.state = row[t].state, !.acc = row[t].acc]
                       /\ row[t].state \in DeployState /\ row[t].acc \in AcceptanceStatus
  BY DEF Row
<1>4. ASSUME NEW t \in Dates, PredAccepted(t) PROVE IInv'
  <2>1. /\ row' \in [Dates -> Row] /\ Mine' = Mine
        /\ \A u \in Mine : row'[u].by = row[u].by /\ row'[u].old = row[u].old
    BY <1>4 DEF PredAccepted, Row, Mine, AcceptanceStatus
  <2> QED BY <1>0, <1>4, <2>1, RowStep DEF PredAccepted
<1>5. CASE Progress
  <2>1. envDeploy \in Mine
    BY <1>5 DEF Progress
  <2>2. PICK enough, tooMany, stalled \in BOOLEAN :
          LET next == ProposedState(row[envDeploy].state, enough, tooMany, stalled)
          IN  row' = [row EXCEPT ![envDeploy].state = next,
                        ![envDeploy].acc = IF next = "SUCCEEDING" /\ @ = "PENDING_DEPLOY"
                                           THEN "ACCEPTED" ELSE @]
    BY <1>5 DEF Progress
  <2> DEFINE s == ProposedState(row[envDeploy].state, enough, tooMany, stalled)
             a == IF s = "SUCCEEDING" /\ row[envDeploy].acc = "PENDING_DEPLOY"
                  THEN "ACCEPTED" ELSE row[envDeploy].acc
  <2>3. s \in DeployState
    BY ProposedIs
  <2>4. a \in AcceptanceStatus /\ envDeploy \in Dates
    BY <2>1, <1>3 DEF Mine, AcceptanceStatus
  <2>5. row' = [row EXCEPT ![envDeploy].state = s, ![envDeploy].acc = a]
    BY <2>2, <2>4
  <2>6. /\ row' \in [Dates -> Row] /\ Mine' = Mine
        /\ \A u \in Mine : row'[u].by = row[u].by /\ row'[u].old = row[u].old
    <3> HIDE DEF s, a
    <3> QED BY <1>2, <2>3, <2>4, <2>5
  <2>7. UNCHANGED <<clock, envDeploy, envState, promoteType, lock, thread, ops, late>>
    BY <1>5 DEF Progress
  <2> HIDE DEF s, a
  <2> QED BY <1>0, <2>6, <2>7, RowStep
<1>6. CASE Reject
  <2>1. envDeploy \in Mine
    BY <1>6 DEF Reject
  <2>2. /\ row' \in [Dates -> Row] /\ Mine' = Mine
        /\ \A u \in Mine : row'[u].by = row[u].by /\ row'[u].old = row[u].old
    BY <1>6, <2>1 DEF Reject, Row, Mine, AcceptanceStatus
  <2>3. ops' \in 0 .. MaxOps
    BY <1>0, <1>6 DEF Reject, Disturb
  <2> QED BY <1>0, <1>6, <2>2, <2>3, RowStep DEF Reject
<1>7. ASSUME NEW t \in Dates, JanitorDelete(t) PROVE IInv'
  <2>1. t \in Pred
    BY <1>7 DEF JanitorDelete
  <2>2. /\ row' \in [Dates -> Row] /\ Mine' = Mine
        /\ \A u \in Mine : row'[u].by = row[u].by /\ row'[u].old = row[u].old
    BY <1>7, <2>1 DEF JanitorDelete, Row, Mine, Pred, NoRow
  <2>3. ops' \in 0 .. MaxOps
    BY <1>0, <1>7 DEF JanitorDelete, Disturb
  <2> QED BY <1>0, <1>7, <2>2, <2>3, RowStep DEF JanitorDelete
<1> QED BY <1>1, <1>4, <1>5, <1>6, <1>7

\* The users who turn a switch; an edit of the promote configuration starts the
\* count of late promotions again.
LEMMA SwitchesTurned == ASSUME IInv, PauseOrResume \/ EditPromote PROVE IInv'
<1> USE PromotionAssumption DEF IInv, TypeOK
<1>1. Mine' = Mine /\ ops' \in 0 .. MaxOps
  BY DEF PauseOrResume, EditPromote, Disturb, Mine
<1>2. TypeOK'
  BY <1>1 DEF PauseOrResume, EditPromote
<1>3. Ordered' /\ Locking' /\ UsersApart' /\ ReplacedOnce'
  BY DEF PauseOrResume, EditPromote, Ordered, Locking, UsersApart, ReplacedOnce, Holds, Mine
<1>4. Disarmed'
  BY DEF PauseOrResume, EditPromote, Disarmed, Armed, Holds
<1> QED BY <1>2, <1>3, <1>4

\* A round of a promoter, up to the insertion of a deploy: nothing it does
\* arms a promoter once a promotion was late.
LEMMA RoundStep ==
  ASSUME IInv, NEW p \in Promoters,
         \/ ReadEnv(p) \/ ReadPromotes(p) \/ Judge(p) \/ Pick(p) \/ SafePromote(p)
         \/ Search(p) \/ Disable(p)
  PROVE  IInv'
<1> USE PromotionAssumption, RecordsAre
<1>0. /\ p \in Promoters \cup Users /\ p \notin Users /\ ops \in 0 .. MaxOps
      /\ thread[p] \in Thread /\ thread[p].old <= envDeploy
      /\ late > 0 => promoteType = "MANUAL" /\ ~Armed(p)
      /\ envDeploy \in Dates \cup {0} /\ envDeploy \in Nat /\ lock \in {lock, p, Free}
  BY DatesAre DEF Ordered, Disarmed, Mine, IInv, TypeOK
<1>1. Idle.pc = "idle" /\ Idle.by = "none" /\ Idle.old = 0 /\ 0 <= envDeploy
  BY <1>0 DEF Idle
<1>2. CASE ReadEnv(p)
  <2> DEFINE x == [Idle EXCEPT !.pc = "promotes", !.old = envDeploy]
  <2>1. x \in Thread /\ x.pc = "promotes" /\ x.old = envDeploy
    BY <1>0 DEF Idle, Thread
  <2> HIDE DEF x
  <2>3. x.old <= envDeploy
    BY <1>0, <2>1
  <2>2. thread' = [thread EXCEPT ![p] = x]
    BY <1>2 DEF ReadEnv, x
  <2> QED BY <1>0, <1>2, <2>1, <2>2, <2>3, ThreadStep DEF ReadEnv
<1>3. ASSUME Stop(p), UNCHANGED <<clock, row, envDeploy, envState, ops, late, lock>>,
             promoteType' \in {promoteType, "MANUAL"}
      PROVE  IInv'
  BY <1>0, <1>1, <1>3, ThreadStep DEF Stop
<1>4. ASSUME NEW c \in {"current", "candidates", "search", "disable"}, Goto(p, c),
             late > 0 => c \in {"search", "disable"} \/ thread[p].old # envDeploy,
             UNCHANGED <<clock, row, envDeploy, envState, promoteType, ops, late, lock>>
      PROVE  IInv'
  <2> DEFINE x == [thread[p] EXCEPT !.pc = c]
  <2>1. x \in Thread /\ x.pc = c /\ x.old = thread[p].old
    BY <1>0 DEF Thread
  <2> HIDE DEF x
  <2>2. thread' = [thread EXCEPT ![p] = x]
    BY <1>4 DEF Goto, x
  <2> QED BY <1>0, <1>4, <2>1, <2>2, ThreadStep
<1>5. CASE ReadPromotes(p)
  <2>1. CASE promoteType = "MANUAL"
    BY <1>3, <1>5, <2>1 DEF ReadPromotes
  <2>2. CASE promoteType # "MANUAL"
    BY <1>0, <1>4, <1>5, <2>2 DEF ReadPromotes
  <2> QED BY <2>1, <2>2
<1>6. CASE Judge(p)
  <2>1. late > 0 => thread[p].old # envDeploy
    BY <1>0, <1>6 DEF Judge, Armed
  <2>2. ASSUME NEW policy \in FailPolicies
        PROVE  OnFailure[policy] \in {"current", "candidates", "search", "disable"}
    BY <2>2 DEF OnFailure
  <2>3. Stop(p) \/ \E c \in {"current", "candidates", "search", "disable"} : Goto(p, c)
    BY <1>6, <2>2 DEF Judge
  <2>4. UNCHANGED <<clock, row, envDeploy, envState, promoteType, ops, late, lock>>
    BY <1>6 DEF Judge
  <2> QED BY <1>3, <1>4, <2>1, <2>3, <2>4
<1>7. CASE Pick(p)
  <2>1. UNCHANGED <<clock, row, envDeploy, envState, promoteType, ops, late, lock>>
    BY <1>7 DEF Pick
  <2>2. ASSUME NEW t \in Dates,
               thread' = [thread EXCEPT ![p] = [@ EXCEPT !.pc = "lock", !.from = t, !.by = "promote"]]
        PROVE  IInv'
    <3> DEFINE x == [thread[p] EXCEPT !.pc = "lock", !.from = t, !.by = "promote"]
    <3>1. x \in Thread /\ x.pc = "lock" /\ x.old = thread[p].old
      BY <1>0 DEF Thread
    <3>2. thread' = [thread EXCEPT ![p] = x]
      BY <2>2
    <3>3. late > 0 => thread[p].old # envDeploy
      BY <1>0, <1>7 DEF Pick, Armed
    <3> HIDE DEF x
    <3> QED BY <1>0, <2>1, <3>1, <3>2, <3>3, ThreadStep
  <2>3. Candidates(thread[p].old) \subseteq Dates
    BY DEF Candidates, Newest, Pred
  <2> QED BY <1>3, <1>7, <2>1, <2>2, <2>3 DEF Pick
<1>8. CASE SafePromote(p)
  <2>1. UNCHANGED <<clock, row, envDeploy, envState, promoteType, ops, late>>
        /\ thread[p].pc = "lock"
    BY <1>8 DEF SafePromote
  <2>2. CASE lock = Free /\ envDeploy = thread[p].old /\ lock' = p /\ Goto(p, "deploy")
    <3> DEFINE x == [thread[p] EXCEPT !.pc = "deploy"]
    <3>1. x \in Thread /\ x.pc = "deploy" /\ x.old = envDeploy
      BY <1>0, <2>2 DEF Thread
    <3>2. thread' = [thread EXCEPT ![p] = x]
      BY <2>2 DEF Goto
    <3>3. ~(late > 0)
      BY <1>0, <2>1, <2>2 DEF Armed
    <3> HIDE DEF x
    <3> QED BY <1>0, <2>1, <2>2, <3>1, <3>2, <3>3, ThreadStep
  <2>3. CASE lock' = lock /\ Stop(p)
    BY <1>3, <2>1, <2>3
  <2> QED BY <1>8, <2>2, <2>3 DEF SafePromote
<1>9. CASE Search(p)
  <2> DEFINE x == [thread[p] EXCEPT !.pc = "deploy", !.by = "rollback"]
  <2>1. x \in Thread /\ x.pc = "deploy" /\ x.by = "rollback" /\ x.old = thread[p].old
    BY <1>0 DEF Thread
  <2>2. thread' = [thread EXCEPT ![p] = x]
    BY <1>9 DEF Search
  <2> HIDE DEF x
  <2> QED BY <1>0, <1>9, <2>1, <2>2, ThreadStep DEF Search
<1>10. CASE Disable(p)
  BY <1>3, <1>10 DEF Disable
<1> QED BY <1>2, <1>5, <1>6, <1>7, <1>8, <1>9, <1>10

LEMMA UserBegins == ASSUME IInv, NEW u \in Users, UserDeploy(u) PROVE IInv'
<1> USE PromotionAssumption, RecordsAre
<1>1. envDeploy \in Dates \cup {0} /\ envDeploy \in Nat /\ u \notin Promoters
  BY DatesAre DEF Mine, IInv, TypeOK
<1>2. PICK t \in Pred \cup {0} : thread' = [thread EXCEPT ![u] =
        [Idle EXCEPT !.pc = "deploy", !.old = envDeploy, !.from = t, !.by = "user"]]
  BY DEF UserDeploy
<1> DEFINE x == [Idle EXCEPT !.pc = "deploy", !.old = envDeploy, !.from = t, !.by = "user"]
<1>3. x \in Thread /\ x.pc = "deploy" /\ x.by = "user" /\ x.old = envDeploy
  BY <1>1 DEF Idle, Thread, Pred
<1>4. thread' = [thread EXCEPT ![u] = x]
  BY <1>2
<1>5. ops' \in 0 .. MaxOps /\ promoteType' \in {promoteType, "MANUAL"}
      /\ UNCHANGED <<clock, row, envDeploy, envState, lock, late>>
  BY DEF UserDeploy, Disturb, IInv, TypeOK
<1> HIDE DEF x
<1>6. x.old <= envDeploy
  BY <1>1, <1>3
<1> QED BY <1>1, <1>3, <1>4, <1>5, <1>6, ThreadStep

LEMMA CrashStep == ASSUME IInv, NEW p \in Promoters, Crash(p) PROVE IInv'
<1> USE PromotionAssumption, RecordsAre
<1>1. envDeploy \in Nat /\ Idle.old <= envDeploy /\ Idle.pc = "idle" /\ p \notin Users
  BY DatesAre DEF Mine, Idle, IInv, TypeOK
<1>2. ops' \in 0 .. MaxOps /\ thread' = [thread EXCEPT ![p] = Idle]
      /\ UNCHANGED <<clock, row, envDeploy, envState, promoteType, late>>
      /\ lock' = IF lock = p THEN Free ELSE lock
  BY DEF Crash, Disturb, Stop, Release, IInv, TypeOK
<1>3. lock' \in {lock, p, Free} /\ lock' # p /\ (lock' # lock => lock = p)
  BY <1>2
<1> QED BY <1>1, <1>2, <1>3, ThreadStep

\* A deploy inserted: if it is a promotion, its promoter has the lock, nobody
\* has promoted over the old deploy, and nobody else is past a second look; the
\* new deploy disarms every thread that judged the old one.
LEMMA DeployStep == ASSUME IInv, NEW p \in Promoters \cup Users, Deploy(p) PROVE IInv'
<1> USE PromotionAssumption, RecordsAre
<1> DEFINE me == thread[p]
           old == IF me.by = "promote" THEN me.old ELSE 0
           new == [NoRow EXCEPT !.env = "mine", !.from = me.from, !.by = me.by, !.old = old]
<1>a. /\ me \in Thread /\ me.old <= envDeploy /\ envDeploy <= clock
      /\ envDeploy \in Dates \cup {0} /\ clock \in Nat /\ MaxDate \in Nat
      /\ lock \in Promoters \cup {Free} /\ ops \in 0 .. MaxOps /\ late \in Nat
  BY DEF IInv, TypeOK, Ordered, Mine
<1>b. me.old \in Dates \cup {0}
  BY <1>a DEF Thread
<1>c. me.old \in Nat /\ envDeploy \in Nat
  BY <1>a, <1>b, DatesAre
<1>d. /\ me.pc = "deploy"
      /\ lock' = IF lock = p THEN Free ELSE lock
      /\ UNCHANGED <<envState, promoteType, ops>>
  BY DEF Deploy, Release
<1>0. /\ me \in Thread /\ me.old <= envDeploy /\ me.pc = "deploy"
      /\ lock' = IF lock = p THEN Free ELSE lock
      /\ UNCHANGED <<envState, promoteType, ops>>
      /\ envDeploy \in Dates \cup {0} /\ envDeploy \in Nat /\ envDeploy <= clock
      /\ clock \in Nat /\ MaxDate \in Nat /\ lock \in Promoters \cup {Free}
      /\ ops \in 0 .. MaxOps /\ me.old \in Nat /\ late \in Nat
  BY <1>a, <1>c, <1>d
<1>1. CASE Stop(p) /\ UNCHANGED <<clock, row, envDeploy, late>>
  <2>1. Idle.old <= envDeploy /\ Idle.pc = "idle" /\ Idle.by = "none"
    BY <1>0 DEF Idle
  <2>2. lock' \in {lock, p, Free} /\ (lock' # lock => lock = p)
        /\ (lock' # lock => lock' = Free /\ lock' # p)
    BY <1>0
  <2>3. thread' = [thread EXCEPT ![p] = Idle]
    BY <1>1 DEF Stop
  <2> QED BY <1>0, <1>1, <2>1, <2>2, <2>3, ThreadStep
<1>2. CASE ~(Stop(p) /\ UNCHANGED <<clock, row, envDeploy, late>>)
  <2> DEFINE n == clock + 1
             x == IF me.by = "rollback" THEN [Idle EXCEPT !.pc = "disable"] ELSE Idle
  <2>1. /\ clock < MaxDate /\ clock' = n /\ envDeploy' = n
        /\ late' = IF me.by = "promote" /\ promoteType = "MANUAL" THEN late + 1 ELSE late
        /\ IF me.by = "rollback" THEN Then(p, "disable") ELSE Stop(p)
        /\ row' = [t \in Dates |-> IF t = n THEN new ELSE IF t = me.old
               THEN [row[t] EXCEPT !.state = FinalState(@),
                                   !.acc = IF @ \in FinalAcceptance THEN @ ELSE "TERMINATED"]
               ELSE row[t]]
    <3>1. /\ clock < MaxDate /\ clock' = clock + 1 /\ envDeploy' = clock'
          /\ late' = IF me.by = "promote" /\ promoteType = "MANUAL" THEN late + 1 ELSE late
          /\ IF me.by = "rollback" THEN Then(p, "disable") ELSE Stop(p)
          /\ row' = [t \in Dates |->
               IF t = clock'
                 THEN [NoRow EXCEPT !.env = "mine", !.from = me.from, !.by = me.by,
                                    !.old = IF me.by = "promote" THEN me.old ELSE 0]
               ELSE IF t = me.old
                 THEN [row[t] EXCEPT !.state = FinalState(@),
                                     !.acc = IF @ \in FinalAcceptance THEN @ ELSE "TERMINATED"]
               ELSE row[t]]
      BY <1>2, Zenon DEF Deploy
    <3> QED BY <3>1, Zenon
  <2>2. x \in Thread /\ x.pc \in {"idle", "disable"} /\ x.old = 0 /\ x.by = "none"
        /\ thread' = [thread EXCEPT ![p] = x]
    BY <2>1 DEF Idle, Thread, Stop, Then
  <2>3. n \in Dates /\ n \notin Mine /\ envDeploy < n /\ n \in Nat
    <3>1. clock < MaxDate
      BY <2>1
    <3>2. n \in Dates /\ envDeploy < n /\ n \in Nat
      BY <1>0, <3>1 DEF Dates
    <3>3. n \in Mine => n <= envDeploy
      BY DEF IInv, Ordered
    <3> QED BY <1>0, <3>2, <3>3
  <2>4. new \in Row /\ new.env = "mine" /\ new.by = me.by
        /\ (me.by = "promote" => new.old = me.old)
    <3>1. /\ me.from \in Dates \cup {0} /\ me.old \in Dates \cup {0}
          /\ me.by \in {"none", "user", "promote", "rollback"}
      <4>1. me \in Thread
        BY <1>0
      <4> HIDE DEF me
      <4> QED BY <4>1 DEF Thread
    <3>2. old \in Dates \cup {0} /\ (me.by = "promote" => old = me.old)
      BY <3>1
    <3>3. "RUNNING" \in DeployState /\ "PENDING_DEPLOY" \in AcceptanceStatus
      BY DEF DeployState, ActiveStates, AcceptanceStatus
    <3> HIDE DEF me, old
    <3> QED BY <3>1, <3>2, <3>3 DEF Row, NoRow
  <2>0. clock' = n /\ envDeploy' = n
        /\ late' = IF me.by = "promote" /\ promoteType = "MANUAL" THEN late + 1 ELSE late
    BY <2>1
  <2> HIDE DEF new, x, n, old
  <2>5. row'[n] = new
    BY <2>1, <2>3
  <2>6. ASSUME NEW t \in Dates, t # n
        PROVE  row'[t] \in Row /\ row'[t].env = row[t].env
               /\ row'[t].by = row[t].by /\ row'[t].old = row[t].old
    <3>1. row[t] \in Row
      BY DEF IInv, TypeOK
    <3>2. CASE row'[t] = row[t]
      BY <3>1, <3>2
    <3>3. CASE row'[t] = [row[t] EXCEPT !.state = FinalState(@),
                            !.acc = IF @ \in FinalAcceptance THEN @ ELSE "TERMINATED"]
      <4>1. FinalState(row[t].state) \in DeployState
        BY FinalStateIs
      <4> QED BY <3>1, <3>3, <4>1 DEF Row, AcceptanceStatus
    <3> QED BY <2>1, <2>6, <3>2, <3>3
  <2>7. row' \in [Dates -> Row]
    BY <2>1, <2>4, <2>5, <2>6
  <2>8. Mine' = Mine \cup {n}
    BY <2>3, <2>4, <2>5, <2>6 DEF Mine
  <2>9. \A q \in Promoters \cup Users : thread'[q] = IF q = p THEN x ELSE thread[q]
    BY <2>2 DEF IInv, TypeOK
  <2>10. late' \in Nat
    BY <1>0, <2>0
  <2>11. TypeOK'
    <3>1. clock' \in 0 .. MaxDate /\ envDeploy' \in Mine'
      BY <1>0, <2>0, <2>3, <2>8 DEF Dates
    <3>2. thread' \in [Promoters \cup Users -> Thread]
      BY <2>2 DEF IInv, TypeOK
    <3>3. lock' \in Promoters \cup {Free} /\ ops' \in 0 .. MaxOps
      BY <1>0
    <3>4. envState' \in {"NORMAL", "PAUSED"} /\ promoteType' \in {"AUTO", "MANUAL"}
      BY <1>0 DEF IInv, TypeOK
    <3> QED BY <2>7, <2>10, <3>1, <3>2, <3>3, <3>4 DEF TypeOK
  <2>12. Ordered'
    <3>1. envDeploy' <= clock'
      BY <1>0, <2>0, <2>3
    <3>2. ASSUME NEW t \in Mine' PROVE t <= envDeploy' /\ (row'[t].by = "promote" => row'[t].old < t)
      <4>1. CASE t = n
        <5>1. t = envDeploy' /\ t \in Nat /\ me.old < t
          BY <1>0, <2>0, <2>3, <4>1
        <5> QED BY <2>4, <2>5, <4>1, <5>1
      <4>2. CASE t # n
        <5>1. t \in Mine /\ t \in Dates /\ t <= envDeploy /\ (row[t].by = "promote" => row[t].old < t)
          BY <2>8, <4>2 DEF IInv, Ordered, Mine
        <5>2. t \in Nat
          BY <5>1, DatesAre
        <5>3. t <= n
          BY <1>0, <2>3, <5>1, <5>2
        <5> QED BY <2>0, <2>6, <4>2, <5>1, <5>3
      <4> QED BY <4>1, <4>2
    <3>3. ASSUME NEW q \in Promoters \cup Users PROVE thread'[q].old <= envDeploy'
      <4>1. thread[q].old <= envDeploy /\ thread[q].old \in Nat
        BY DatesAre DEF IInv, TypeOK, Ordered, Thread, Dates
      <4>2. thread[q].old <= n /\ 0 <= n
        BY <1>0, <2>3, <4>1
      <4> QED BY <2>0, <2>2, <2>9, <4>2
    <3> QED BY <3>1, <3>2, <3>3 DEF Ordered
  <2>13. ASSUME NEW q \in Promoters \cup Users, Holds(q)'
         PROVE  q # p /\ Holds(q) /\ thread'[q] = thread[q]
    BY <2>2, <2>9, <2>13 DEF Holds
  <2>14. me.by = "promote" => Holds(p) /\ p \in Promoters /\ lock = p
    BY <1>0 DEF IInv, Locking, Holds
  <2>15. Locking'
    <3>1. ASSUME NEW q \in Promoters \cup Users, Holds(q)' PROVE q \in Promoters /\ lock' = q
      BY <1>0, <2>13, <3>1 DEF IInv, Locking
    <3>2. ASSUME NEW q \in Promoters, Holds(q)', NEW t \in Mine', row'[t].by = "promote"
          PROVE  row'[t].old # thread'[q].old
      <4>1. q # p /\ Holds(q) /\ thread'[q] = thread[q] /\ lock = q
        BY <2>13, <3>2 DEF IInv, Locking
      <4>2. t # n
        BY <2>4, <2>5, <2>14, <3>2, <4>1
      <4>3. t \in Mine /\ t \in Dates
        BY <2>8, <4>2 DEF Mine
      <4> QED BY <2>6, <3>2, <4>1, <4>2, <4>3 DEF IInv, Locking
    <3> QED BY <3>1, <3>2 DEF Locking
  <2>16. Disarmed'
    <3> SUFFICES ASSUME late' > 0
                 PROVE  late' = 1 /\ promoteType = "MANUAL" /\ \A q \in Promoters : ~Armed(q)'
      BY <1>0 DEF Disarmed
    <3>1. late' = 1 /\ promoteType = "MANUAL"
      <4>1. CASE late = 0
        <5>1. late' = late \/ (late' = late + 1 /\ promoteType = "MANUAL")
          BY <2>0
        <5> QED BY <4>1, <5>1
      <4>2. CASE late > 0
        <5>1. late = 1 /\ promoteType = "MANUAL" /\ \A q \in Promoters : ~Armed(q)
          BY <4>2 DEF IInv, Disarmed
        <5>2. me.by # "promote"
          BY <2>14, <5>1 DEF Armed
        <5> QED BY <2>0, <5>1, <5>2
      <4> QED BY <4>1, <4>2 DEF IInv, TypeOK
    <3>2. ASSUME NEW q \in Promoters PROVE ~Holds(q)'
      <4> SUFFICES ASSUME Holds(q)' PROVE FALSE
        OBVIOUS
      <4>1. q # p /\ Holds(q) /\ lock = q
        BY <2>13 DEF IInv, Locking
      <4>2. late = 0
        BY <4>1 DEF IInv, TypeOK, Disarmed, Armed
      <4>3. late' # late
        BY <4>2
      <4> QED BY <2>0, <2>14, <4>1, <4>3
    <3>3. ASSUME NEW q \in Promoters
          PROVE  ~(thread'[q].pc \in {"current", "candidates", "lock"} /\ thread'[q].old = envDeploy')
      <4>1. CASE q = p
        BY <2>2, <2>9, <4>1
      <4>2. CASE q # p
        <5>1. thread[q].old <= envDeploy /\ thread[q].old \in Nat
          BY DatesAre DEF IInv, TypeOK, Ordered, Thread, Dates
        <5>2. thread[q].old # n
          BY <1>0, <2>3, <5>1
        <5> QED BY <2>0, <2>9, <4>2, <5>2
      <4> QED BY <4>1, <4>2
    <3> QED BY <3>1, <3>2, <3>3 DEF Armed
  <2>17. UsersApart'
    <3>1. p \in Users => x.pc = "idle"
      BY DEF x, IInv, UsersApart, Idle
    <3> QED BY <2>2, <2>9, <3>1 DEF IInv, UsersApart
  <2>18. ReplacedOnce'
    <3> SUFFICES ASSUME NEW t \in Mine', NEW u \in Mine', row'[t].by = "promote",
                        row'[u].by = "promote", row'[t].old = row'[u].old
                 PROVE  t = u
      BY DEF ReplacedOnce
    <3>1. ASSUME NEW v \in Mine', v # n PROVE v \in Mine /\ v \in Dates
      BY <2>8, <3>1 DEF Mine
    <3>2. ASSUME NEW v \in Mine', v # n, me.by = "promote", row'[v].by = "promote"
          PROVE  row'[v].old # me.old
      BY <2>6, <2>14, <3>1, <3>2 DEF IInv, Locking
    <3>3. CASE t = n \/ u = n
      BY <2>4, <2>5, <3>2, <3>3
    <3>4. CASE t # n /\ u # n
      BY <2>6, <3>1, <3>4 DEF IInv, ReplacedOnce
    <3> QED BY <3>3, <3>4
  <2> QED BY <2>11, <2>12, <2>15, <2>16, <2>17, <2>18 DEF IInv
<1> QED BY <1>1, <1>2

LEMMA Preserved == ASSUME IInv, [Next]_vars PROVE IInv'
<1>1. CASE Next
  <2>1. ASSUME NEW p \in Promoters, PromoterStep(p) \/ Crash(p) PROVE IInv'
    BY <2>1, RoundStep, DeployStep, CrashStep DEF PromoterStep
  <2>2. ASSUME NEW u \in Users, UserStep(u) PROVE IInv'
    BY <2>2, UserBegins, DeployStep DEF UserStep
  <2> QED BY <1>1, <2>1, <2>2, RowsChanged, SwitchesTurned DEF Next
<1>2. CASE UNCHANGED vars
  BY <1>2 DEF vars, IInv, TypeOK, Ordered, Locking, Disarmed, UsersApart, ReplacedOnce,
     Holds, Armed, Mine
<1> QED BY <1>1, <1>2

LEMMA Invariant == Spec => []IInv
<1>1. Init => IInv
  BY Initially
<1>2. IInv /\ [Next]_vars => IInv'
  BY Preserved
<1> QED BY <1>1, <1>2, PTL DEF Spec

-----------------------------------------------------------------------------
\* Type correctness of the promotion of one environment, for any number of
\* promoters, users and deploys.
THEOREM TypeCorrect == Spec => []TypeOK
<1>1. IInv => TypeOK
  BY DEF IInv
<1> QED BY <1>1, Invariant, PTL

\* No deploy is promoted over twice, however many AutoPromoters judged it ready
\* (AutoPromoter.safePromote).
THEOREM PromotedOnce == Spec => []ReplacedOnce
<1>1. IInv => ReplacedOnce
  BY DEF IInv
<1> QED BY <1>1, Invariant, PTL

\* After auto promotion is disabled at most one promotion is still committed,
\* until somebody edits the promote configuration
\* (DeployHandler.disableAutoPromote against AutoPromoter.processOnce).
THEOREM AtMostOneLate == Spec => []LateByOne
<1>1. IInv => LateByOne
  BY DEF IInv, TypeOK, Disarmed, LateByOne
<1> QED BY <1>1, Invariant, PTL
=============================================================================
