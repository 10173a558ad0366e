------------------------- MODULE MCConnectedRecovery -------------------------
(* Server and agent together. *)
EXTENDS ConnectedRecovery

\* Evidence that goes stale only forbids the owner to request and to approve,
\* who need not do so anyway.  Without it the state space is small enough for
\* two commands.
FreshNext == ConnectedNext /\ \A r \in Runner : fresh[r] \subseteq fresh'[r]

FreshSpec == ConnectedInit /\ [][FreshNext]_connectedVars

FairFreshSpec == FreshSpec /\ WF_connectedVars(CronStep)
=============================================================================
