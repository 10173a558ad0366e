--------------------------- MODULE StagedRecovery ---------------------------
(***************************************************************************)
(* What the staged demo promises, without tables, versions, leases or      *)
(* clocks: one disposable environment is lent to one run at a time, the    *)
(* fixed restart is permitted once, by the policy alone or by the visitor, *)
(* and an environment that a run did not repair is restored before it is   *)
(* lent again.                                                             *)
(***************************************************************************)
CONSTANTS Run

VARIABLES
  mode,         \* how each run is permitted
  stage,        \* how far each run has come
  environment   \* "ready", "in_use" by the one running run, or "dirty"

Mode == {"autonomous", "approval_required"}
BeforeRestart == {"diagnosing", "waiting", "approved"}
Restarted == {"restarting", "verifying"}
Finished == {"resolved", "abandoned", "failed"}
Stage == BeforeRestart \union Restarted \union Finished \union {"new"}

Init ==
  /\ mode = [r \in Run |-> "autonomous"]
  /\ stage = [r \in Run |-> "new"]
  /\ environment = "ready"

Move(r, to) == stage' = [stage EXCEPT ![r] = to] /\ UNCHANGED mode

Start(r, m) ==
  /\ stage[r] = "new" /\ environment = "ready"
  /\ stage' = [stage EXCEPT ![r] = "diagnosing"]
  /\ mode' = [mode EXCEPT ![r] = m]
  /\ environment' = "in_use"

AskVisitor(r) ==
  /\ stage[r] = "diagnosing" /\ mode[r] = "approval_required"
  /\ Move(r, "waiting")
  /\ UNCHANGED environment

Permit(r) ==
  stage[r] = "waiting" /\ Move(r, "approved") /\ UNCHANGED environment

Restart(r) ==
  /\ stage[r] = IF mode[r] = "autonomous" THEN "diagnosing" ELSE "approved"
  /\ Move(r, "restarting")
  /\ UNCHANGED environment

Verify(r) ==
  stage[r] = "restarting" /\ Move(r, "verifying") /\ UNCHANGED environment

Resolve(r) ==
  /\ stage[r] = "verifying"
  /\ Move(r, "resolved")
  /\ environment' = "ready"

\* The run ends unresolved.  It counts as a failed recovery only once the
\* restart was permitted to start.
GiveUp(r) ==
  /\ \/ stage[r] \in BeforeRestart /\ Move(r, "abandoned")
     \/ stage[r] \in Restarted /\ Move(r, "failed")
  /\ environment' = "dirty"

Restore ==
  environment = "dirty" /\ environment' = "ready" /\ UNCHANGED <<mode, stage>>

Next ==
  \/ \E r \in Run :
       \/ \E m \in Mode : Start(r, m)
       \/ AskVisitor(r) \/ Permit(r) \/ Restart(r) \/ Verify(r)
       \/ Resolve(r) \/ GiveUp(r)
  \/ Restore

Spec == Init /\ [][Next]_<<mode, stage, environment>>
=============================================================================
