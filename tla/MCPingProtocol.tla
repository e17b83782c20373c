--------------------------- MODULE MCPingProtocol ---------------------------
(* Small instances of PingProtocol for TLC. *)
EXTENDS PingProtocol, TLC

\* One stage without a script of its own, one with, and the last.
ShortStages == <<"PRE_DOWNLOAD", "RESTARTING", "SERVING_BUILD">>

Symmetry == Permutations(Hosts \ Serving) \cup Permutations(Serving)
=============================================================================
