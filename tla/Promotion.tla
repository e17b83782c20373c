------------------------------ MODULE Promotion ------------------------------
(***************************************************************************)
(* Automatic promotion of one environment: AutoPromoter threads of several *)
(* service processes, users who deploy and who change the promote          *)
(* configuration, and the stage promoted from.                             *)
(* AutoPromoter reads three rows, decides, and only then takes the lock    *)
(* PROMOTE-<env> and reads the environ again; a rollback takes no lock;    *)
(* users never do.  What DeployLifecycle shows in detail, the progress of  *)
(* the current deploy, is one step here.  A step of a thread is one        *)
(* statement sent to the database, or one transaction.                     *)
(***************************************************************************)
EXTENDS DeployStates, FiniteSets

CONSTANTS
  Promoters,      \* AutoPromoter threads, one per service process
  Users,          \* threads in POST or PUT .../deploys
  QueueSize,      \* promotes.queue_size
  PageSize,       \* the page getLastSucceededDeploy looks at
  FailPolicies,   \* the values promotes.fail_policy may have
  DisablePolicies,\* the values promotes.disable_policy may have
  MaxDate,        \* bound on the deploys of both stages: the last date drawn
  MaxOps,         \* bound on what users, reviewers, janitor and crashes do
  Free            \* nobody holds the lock

ASSUME PromotionAssumption ==
  /\ QueueSize \in Nat \ {0}
  /\ PageSize \in Nat \ {0}
  /\ FailPolicies \subseteq {"CONTINUE", "DISABLE", "ROLLBACK"}
  /\ DisablePolicies \subseteq {"MANUAL", "AUTO"}
  /\ MaxDate \in Nat \ {0} /\ MaxOps \in Nat
  /\ Promoters \cap Users = {}
  /\ Free \notin Promoters

VARIABLES
  clock,      \* the last start_date drawn
  row,        \* the rows of both stages, by start_date
  envDeploy,  \* environs.deploy_id
  envState,   \* environs.env_state
  promoteType,\* promotes.type
  lock,       \* GET_LOCK('PROMOTE-<env>')
  thread,     \* the local variables of each promoter and user
  ops,        \* history: what users, reviewers, janitor and crashes did
  late        \* history: promotions committed since auto promotion was disabled

vars == <<clock, row, envDeploy, envState, promoteType, lock, thread,
          ops, late>>

Dates == 1 .. MaxDate

\* from: the date of the deploy promoted, 0 when there is none.
\* by and old are history: who inserted the row and, of a promotion, which
\* deploy it retired.
NoRow == [env |-> "none", from |-> 0, state |-> "RUNNING", acc |-> "PENDING_DEPLOY",
          by |-> "none", old |-> 0]
Idle == [pc |-> "idle", old |-> 0, from |-> 0, by |-> "none"]

\* The environment starts with the deploy of date 1, accepted.
First == [NoRow EXCEPT !.env = "mine", !.by = "user", !.state = "SUCCEEDING", !.acc = "ACCEPTED"]
Init ==
  /\ clock = 1
  /\ row = [t \in Dates |-> IF t = 1 THEN First ELSE NoRow]
  /\ envDeploy = 1
  /\ envState = "NORMAL"
  /\ promoteType = "AUTO"
  /\ lock = Free
  /\ thread = [p \in Promoters \cup Users |-> Idle]
  /\ ops = 0 /\ late = 0

Disturb == ops < MaxOps /\ ops' = ops + 1

Pred   == {t \in Dates : row[t].env = "pred"}
Mine   == {t \in Dates : row[t].env = "mine"}
Newest(S, n) == {t \in S : Cardinality({u \in S : u > t}) < n}

Goto(p, pc)  == thread' = [thread EXCEPT ![p].pc = pc]
Then(p, pc)  == thread' = [thread EXCEPT ![p] = [Idle EXCEPT !.pc = pc]]
Stop(p)      == thread' = [thread EXCEPT ![p] = Idle]
\* Mutant of Release: an early return skips the finally block.
ReleaseNothing(p) == lock' = lock

Release(p)   == lock' = IF lock = p THEN Free ELSE lock

-----------------------------------------------------------------------------
(***************************************************************************)
(* The stage promoted from, the progress of the current deploy and its     *)
(* reviewers.                                                              *)
(***************************************************************************)

\* A new deploy (or build) of the pred stage; the one before is over.
PredDeploy ==
  /\ clock < MaxDate
  /\ clock' = clock + 1
  /\ row' = [t \in Dates |->
       IF t = clock + 1 THEN [NoRow EXCEPT !.env = "pred"]
       ELSE IF t \in Pred /\ row[t].acc \notin FinalAcceptance
         THEN [row[t] EXCEPT !.acc = "TERMINATED"] ELSE row[t]]
  /\ UNCHANGED <<envDeploy, envState, promoteType, lock, thread, ops, late>>

PredAccepted(t) ==
  /\ t \in Pred
  /\ row[t].acc = "PENDING_DEPLOY"
  /\ row' = [row EXCEPT ![t].acc = "ACCEPTED"]
  /\ UNCHANGED <<clock, envDeploy, envState, promoteType, lock, thread, ops, late>>

\* StateTransitioner: the next state, and the acceptance at the first success.
Progress ==
  /\ envDeploy # 0
  /\ envState = "NORMAL"
  /\ row[envDeploy].state \in ActiveStates
  /\ \E enough, tooMany, stalled \in BOOLEAN :
       LET next == ProposedState(row[envDeploy].state, enough, tooMany, stalled)
       IN  row' = [row EXCEPT ![envDeploy].state = next,
                     ![envDeploy].acc = IF next = "SUCCEEDING" /\ @ = "PENDING_DEPLOY"
                                        THEN "ACCEPTED" ELSE @]
  /\ UNCHANGED <<clock, envDeploy, envState, promoteType, lock, thread, ops, late>>

\* A reviewer rejects the current deploy after its first success.
Reject ==
  /\ Disturb
  /\ envDeploy # 0
  /\ row[envDeploy].acc = "ACCEPTED"
  /\ row' = [row EXCEPT ![envDeploy].acc = "REJECTED"]
  /\ UNCHANGED <<clock, envDeploy, envState, promoteType, lock, thread, late>>

-----------------------------------------------------------------------------
(***************************************************************************)
(* AutoPromoter.processOnce                                                *)
(***************************************************************************)

\* The list of the environments to process may be old; the environ is not.
ReadEnv(p) ==
  /\ thread[p].pc = "idle"
  /\ envState = "NORMAL"
  /\ thread' = [thread EXCEPT ![p] = [Idle EXCEPT !.pc = "promotes", !.old = envDeploy]]
  /\ UNCHANGED <<clock, row, envDeploy, envState, promoteType, lock, ops, late>>

ReadPromotes(p) ==
  /\ thread[p].pc = "promotes"
  /\ IF promoteType = "MANUAL" THEN Stop(p) ELSE Goto(p, "current")
  /\ UNCHANGED <<clock, row, envDeploy, envState, promoteType, lock, ops, late>>

OnFailure == [CONTINUE |-> "candidates", DISABLE |-> "disable", ROLLBACK |-> "search"]
Failed(d) == d # 0 /\ (row[d].acc = "REJECTED" \/ row[d].state = "FAILING")
Retirable(d) ==
  d # 0 => /\ row[d].state \in ActiveStates
           /\ row[d].acc \in FinalAcceptance \/ row[d].state = "FAILING"

\* Read the current deploy: leave it, promote over it, or apply fail_policy,
\* which users may change at any time.
Judge(p) ==
  LET d == thread[p].old IN
  /\ thread[p].pc = "current"
  /\ \/ ~Retirable(d) /\ Stop(p)
     \/ Retirable(d) /\ ~Failed(d) /\ Goto(p, "candidates")
     \/ /\ Retirable(d) /\ Failed(d)
        /\ \E policy \in FailPolicies : Goto(p, OnFailure[policy])
  /\ UNCHANGED <<clock, row, envDeploy, envState, promoteType, lock, ops, late>>

\* Only what is newer than the source of the current deploy is considered;
\* a current deploy that was not promoted counts with its own start_date.
\* QueueSize limits how far behind the newest the promotion may be.
DateOf(d) == IF d = 0 THEN 0 ELSE IF row[d].from # 0 THEN row[d].from ELSE d
SourceGone(d) == d # 0 /\ row[d].from # 0 /\ row[row[d].from].env = "gone"
Candidates(d) ==
  Newest({t \in Pred : row[t].acc = "ACCEPTED" /\ t > DateOf(d)}, QueueSize)

\* The oldest of the candidates; a deleted source ends in an exception.
Pick(p) ==
  LET d == thread[p].old IN
  /\ thread[p].pc = "candidates"
  /\ \/ (SourceGone(d) \/ Candidates(d) = {}) /\ Stop(p)
     \/ /\ ~SourceGone(d)
        /\ \E t \in Candidates(d) :
             /\ \A u \in Candidates(d) : t <= u
             /\ thread' = [thread EXCEPT ![p] = [@ EXCEPT !.pc = "lock", !.from = t, !.by = "promote"]]
  /\ UNCHANGED <<clock, row, envDeploy, envState, promoteType, lock, ops, late>>

\* Mutants of SafePromote: the environ is not read again; the lock is ignored.
SafePromoteUnchecked(p) ==
  /\ thread[p].pc = "lock"
  /\ \/ lock = Free /\ lock' = p /\ Goto(p, "deploy")
     \/ lock # Free /\ lock' = lock /\ Stop(p)
  /\ UNCHANGED <<clock, row, envDeploy, envState, promoteType, ops, late>>
SafePromoteUnlocked(p) ==
  /\ thread[p].pc = "lock"
  /\ \/ envDeploy = thread[p].old /\ Goto(p, "deploy")
     \/ envDeploy # thread[p].old /\ Stop(p)
  /\ UNCHANGED <<clock, row, envDeploy, envState, promoteType, lock, ops, late>>

\* GET_LOCK with timeout 0; the holder reads the environ again: is the current
\* deploy still the deploy we think it is?
SafePromote(p) ==
  /\ thread[p].pc = "lock"
  /\ \/ /\ lock = Free /\ envDeploy = thread[p].old
        /\ lock' = p
        /\ Goto(p, "deploy")
     \/ /\ lock # Free \/ envDeploy # thread[p].old
        /\ lock' = lock
        /\ Stop(p)
  /\ UNCHANGED <<clock, row, envDeploy, envState, promoteType, ops, late>>

\* Mutant of Search: only the newest deploy is looked at.
SearchNewest(p) ==
  /\ thread[p].pc = "search"
  /\ \E t \in Newest(Mine, 1) :
       /\ row[t].state = "SUCCEEDED"
       /\ thread' = [thread EXCEPT ![p] = [@ EXCEPT !.pc = "deploy", !.by = "rollback"]]
  /\ UNCHANGED <<clock, row, envDeploy, envState, promoteType, lock, ops, late>>

\* getLastSucceededDeploy asks for the same first page until a deploy on it
\* has SUCCEEDED. The deploy inserted next carries no from_deploy; its build
\* is that of the deploy found.
Succeeded == {t \in Newest(Mine, PageSize) : row[t].state = "SUCCEEDED"}
Search(p) ==
  /\ thread[p].pc = "search"
  /\ \E t \in Newest(Succeeded, 1) :
       thread' = [thread EXCEPT ![p] = [@ EXCEPT !.pc = "deploy", !.by = "rollback"]]
  /\ UNCHANGED <<clock, row, envDeploy, envState, promoteType, lock, ops, late>>

\* disableAutoPromote, forced.
Disable(p) ==
  /\ thread[p].pc = "disable"
  /\ promoteType' = "MANUAL"
  /\ Stop(p)
  /\ UNCHANGED <<clock, row, envDeploy, envState, lock, ops, late>>

-----------------------------------------------------------------------------
(***************************************************************************)
(* internalDeploy, called by promoters and users.                          *)
(***************************************************************************)

\* Insert a deploy dated now, point the environ at it, retire the deploy that
\* was current when the thread read the environ. A promotion first reads its
\* source and fails when that is gone. A promoter gives its lock back.
Deploy(p) ==
  LET me == thread[p]
      lost == me.by = "promote" /\ row[me.from].env = "gone" IN
  /\ me.pc = "deploy"
  /\ Release(p)
  /\ \/ /\ lost
        /\ Stop(p)
        /\ UNCHANGED <<clock, row, envDeploy, late>>
     \/ /\ ~lost
        /\ clock < MaxDate
        /\ clock' = clock + 1
        /\ envDeploy' = clock'
        /\ row' = [t \in Dates |->
             IF t = clock'
               THEN [NoRow EXCEPT !.env = "mine", !.from = me.from, !.by = me.by,
                                  !.old = IF me.by = "promote" THEN me.old ELSE 0]
             ELSE IF t = me.old
               THEN [row[t] EXCEPT !.state = FinalState(@),
                                   !.acc = IF @ \in FinalAcceptance THEN @ ELSE "TERMINATED"]
             ELSE row[t]]
        /\ IF me.by = "rollback" THEN Then(p, "disable") ELSE Stop(p)
        /\ late' = IF me.by = "promote" /\ promoteType = "MANUAL" THEN late + 1 ELSE late
  /\ UNCHANGED <<envState, promoteType, ops>>

-----------------------------------------------------------------------------
(***************************************************************************)
(* Users, DeployJanitor and crashes.                                       *)
(***************************************************************************)

\* deploy, promote, restart and rollback read the environ and switch auto
\* promotion off if the disable policy agrees. Only promote names a from_deploy.
UserDeploy(u) ==
  /\ thread[u].pc = "idle"
  /\ Disturb
  /\ \E t \in Pred \cup {0} :
       thread' = [thread EXCEPT ![u] =
         [Idle EXCEPT !.pc = "deploy", !.old = envDeploy, !.from = t, !.by = "user"]]
  /\ \E policy \in DisablePolicies :
       promoteType' = IF policy = "AUTO" THEN "MANUAL" ELSE promoteType
  /\ UNCHANGED <<clock, row, envDeploy, envState, lock, late>>

PauseOrResume ==
  /\ Disturb
  /\ envState' = IF envState = "NORMAL" THEN "PAUSED" ELSE "NORMAL"
  /\ UNCHANGED <<clock, row, envDeploy, promoteType, lock, thread, late>>

\* PUT .../promotes
EditPromote ==
  /\ Disturb
  /\ promoteType' = IF promoteType = "AUTO" THEN "MANUAL" ELSE "AUTO"
  /\ late' = 0
  /\ UNCHANGED <<clock, row, envDeploy, envState, lock, thread>>

\* DeployJanitor spares the current deploy of the pred stage, not the source
\* of a deploy elsewhere.
JanitorDelete(t) ==
  /\ Disturb
  /\ t \in Pred \ Newest(Pred, 1)
  /\ row' = [row EXCEPT ![t] = [NoRow EXCEPT !.env = "gone"]]
  /\ UNCHANGED <<clock, envDeploy, envState, promoteType, lock, thread, late>>

Crash(p) ==
  /\ Disturb
  /\ thread[p].pc # "idle"
  /\ Release(p)
  /\ Stop(p)
  /\ UNCHANGED <<clock, row, envDeploy, envState, promoteType, late>>

PromoterStep(p) ==
  \/ ReadEnv(p) \/ ReadPromotes(p) \/ Judge(p) \/ Pick(p) \/ SafePromote(p)
  \/ Search(p) \/ Disable(p) \/ Deploy(p)
UserStep(u) == UserDeploy(u) \/ Deploy(u)

Next ==
  \/ \E p \in Promoters : PromoterStep(p) \/ Crash(p)
  \/ \E u \in Users : UserStep(u)
  \/ \E t \in Dates : PredAccepted(t) \/ JanitorDelete(t)
  \/ PredDeploy \/ Progress \/ Reject \/ PauseOrResume \/ EditPromote

Spec == Init /\ [][Next]_vars

\* AutoPromoter runs at a fixed rate and each of its statements returns, so
\* rounds start and, but for the search and the bound on dates, come to an end.
RoundsStart(p) == []<>(thread[p].pc # "idle" \/ envState # "NORMAL")
RoundsEnd(p)   == []<>(thread[p].pc \in {"idle", "search"} \/ clock = MaxDate)

FairSpec == /\ Spec
            /\ \A p \in Promoters : RoundsStart(p) /\ RoundsEnd(p) /\ WF_vars(Search(p))
-----------------------------------------------------------------------------
Row == [env : {"none", "pred", "mine", "gone"}, from : Dates \cup {0}, state : DeployState,
        acc : AcceptanceStatus, by : {"none", "user", "promote", "rollback"},
        old : Dates \cup {0}]
Thread == [pc : {"idle", "promotes", "current", "candidates", "lock", "search",
                 "disable", "deploy"},
           old : Dates \cup {0}, from : Dates \cup {0},
           by : {"none", "user", "promote", "rollback"}]

TypeOK ==
  /\ clock \in 0 .. MaxDate
  /\ row \in [Dates -> Row]
  /\ envDeploy \in {0} \cup Mine
  /\ envState \in {"NORMAL", "PAUSED"}
  /\ promoteType \in {"AUTO", "MANUAL"}
  /\ lock \in Promoters \cup {Free}
  /\ thread \in [Promoters \cup Users -> Thread]
  /\ ops \in 0 .. MaxOps /\ late \in Nat

\* However many promoters judged the same deploy ready to be replaced, one
\* promotion at most takes its place (AutoPromoter.safePromote: lock, then
\* read the environ again).
ReplacedOnce ==
  \A t, u \in Mine : row[t].by = "promote" /\ row[u].by = "promote" /\ row[t].old = row[u].old
                       => t = u

\* Between two edits of the promote configuration, at most one promotion, the
\* one already past its second look, is committed after auto promotion was
\* switched off (DeployHandler.disableAutoPromote against AutoPromoter).
LateByOne == late <= 1

\* As long as one promoter is not caught in the search for a deploy to roll
\* back to, an accepted newer deploy of the pred stage is not left aside for
\* ever while the environment is ready for it.
Starving ==
  /\ envState = "NORMAL" /\ promoteType = "AUTO"
  /\ Retirable(envDeploy) /\ ~Failed(envDeploy)
  /\ ~SourceGone(envDeploy) /\ Candidates(envDeploy) # {}
  /\ clock < MaxDate
  /\ \E p \in Promoters : thread[p].pc # "search"
Promotes == []<>~Starving

\* Unless fail_policy is CONTINUE, a deploy that failed for good is not left in
\* place with auto promotion on, as long as a deploy among the newest PageSize
\* has SUCCEEDED: however promoters, users and a crash interleave, it is rolled
\* back or auto promotion is disabled (AutoPromoter.handleFailedPromote).
FailureUnhandled ==
  /\ envState = "NORMAL" /\ promoteType = "AUTO"
  /\ Retirable(envDeploy) /\ Failed(envDeploy)
  /\ Succeeded # {}
  /\ clock < MaxDate
FailureHandled == "CONTINUE" \notin FailPolicies => []<>~FailureUnhandled
=============================================================================
