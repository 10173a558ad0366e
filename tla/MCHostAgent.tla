----------------------------- MODULE MCHostAgent -----------------------------
(* The agent alone, against an environment that hands out what it likes. *)
EXTENDS HostAgent
=============================================================================
