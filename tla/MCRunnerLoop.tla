---------------------------- MODULE MCRunnerLoop ----------------------------
(* Three results of the query and two incidents to restore after. *)
EXTENDS RunnerLoop
=============================================================================
