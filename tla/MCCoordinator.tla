---------------------------- MODULE MCCoordinator ----------------------------
(* One run against one coordinator that crashes and restarts at any time. *)
EXTENDS Coordinator

\* Whether the demo is enabled is read by RequestRun alone: an accepted run
\* does not notice that it is disabled again, which would only double its
\* states.
EnabledNext == CoordinatorNext /\ (control.enabled => control'.enabled)

EnabledFairSpec == CoordinatorInit /\ [][EnabledNext]_allVars /\ FairCloud
=============================================================================
