---------------------------- MODULE DeployStates ----------------------------
(***************************************************************************)
(* The constant part of the deploy state machine: the enums DeployState    *)
(* and AcceptanceStatus, the tables of StateMachines.java and the pure     *)
(* decision CommonHandler.transition() takes about a running deploy.       *)
(***************************************************************************)
EXTENDS Integers

ActiveStates == {"RUNNING", "FAILING", "SUCCEEDING"}
FinalStates  == {"SUCCEEDED", "ABORTED"}
DeployState  == ActiveStates \cup FinalStates

AcceptanceStatus ==
  {"PENDING_DEPLOY", "OUTSTANDING", "PENDING_ACCEPT",
   "ACCEPTED", "REJECTED", "TERMINATED"}
FinalAcceptance == {"ACCEPTED", "REJECTED", "TERMINATED"}

\* Mutants of FinalState: an entry is missing; an entry is wrong.
FinalStateNoFailing(s) ==
  CASE s \in {"SUCCEEDING", "SUCCEEDED"} -> "SUCCEEDED"
    [] s = "FAILING" -> "NULL"
    [] OTHER -> "ABORTED"
FinalStateRunning(s) ==
  IF s \in {"RUNNING", "SUCCEEDING", "SUCCEEDED"} THEN "SUCCEEDED" ELSE "ABORTED"

\* FINAL_STATE_TRANSITION_MAP
FinalState(s) == IF s \in {"SUCCEEDING", "SUCCEEDED"} THEN "SUCCEEDED" ELSE "ABORTED"

\* Thresholds are kept in 1/10000 of the capacity.
Precision == 10000

EnoughSucceeded(succeeded, total, sucTh) == succeeded * Precision >= sucTh * total
TooManyStuck(stuck, total, sucTh) == stuck * Precision > (Precision - sucTh) * total

(***************************************************************************)
(* The state transition() proposes. The tests are made in this order:      *)
(*   enough    the success threshold is reached                            *)
(*   tooMany   too many agents are PAUSED_BY_SYSTEM                        *)
(*   stalled   no new agent succeeded and stuck_th seconds went by since   *)
(*             last_update                                                 *)
(***************************************************************************)
ProposedState(old, enough, tooMany, stalled) ==
  CASE enough                                             -> "SUCCEEDING"
    [] ~enough /\ tooMany                                 -> "FAILING"
    [] ~enough /\ ~tooMany /\ stalled /\ old = "SUCCEEDING" -> "RUNNING"
    [] ~enough /\ ~tooMany /\ stalled /\ old # "SUCCEEDING" -> "FAILING"
    [] ~enough /\ ~tooMany /\ ~stalled                    -> "RUNNING"
=============================================================================
