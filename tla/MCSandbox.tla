----------------------------- MODULE MCSandbox -----------------------------
(* The sandbox and its coordinator, from run to run. *)
EXTENDS Sandbox
=============================================================================
