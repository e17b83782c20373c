------------------------------ MODULE MCStaging ------------------------------
(* Small instances of Staging for TLC. *)
EXTENDS Staging, TLC

CONSTANTS e1, e2, b1, b2, b3

OwnBuilds == e1 :> {b1, b2} @@ e2 :> {b3}
OneBuild  == e1 :> {b1} @@ e2 :> {b1}
=============================================================================
