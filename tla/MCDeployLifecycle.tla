-------------------------- MODULE MCDeployLifecycle --------------------------
(* Small instances of DeployLifecycle for TLC. *)
EXTENDS DeployLifecycleProofs, TLC

Symmetry == Permutations(Deployers) \cup Permutations(Workers) \cup Permutations(Deploys)
=============================================================================
