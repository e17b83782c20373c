--------------------------- MODULE DeployContract ---------------------------
(***************************************************************************)
(* What the deploy tables promise of one environment: it has one current   *)
(* deploy, a new deploy takes its place in one step, and a deploy that was *)
(* replaced is over for good.                                              *)
(***************************************************************************)
CONSTANTS Deploys, NoDeploy

VARIABLES current, over

Init == current = NoDeploy /\ over = {}

Replace(d) ==
  /\ d \notin over \cup {current}
  /\ current' = d
  /\ over' = over \cup ({current} \ {NoDeploy})

Next == \E d \in Deploys : Replace(d)

Spec == Init /\ [][Next]_<<current, over>>
=============================================================================
