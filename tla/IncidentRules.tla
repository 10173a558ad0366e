---------------------------- MODULE IncidentRules ----------------------------
(***************************************************************************)
(* The two pure judges in src/lib: attemptIncidentTransition of            *)
(* incident-state.ts and evaluateRecoveryPolicy of policy.ts.  Nothing in  *)
(* the running program calls them: the server and the coordinator have     *)
(* rules of their own, spread over their handlers.  They are the one place *)
(* where the rules stand together, and Coordinator compares the two.       *)
(*                                                                         *)
(* The fixed identifiers (workload, action, runner) are right, for the     *)
(* program has no others.  "before" is the number of executions in         *)
(* previousExecutionIds.                                                   *)
(***************************************************************************)
EXTENDS Integers

Ended == {"resolved", "needs_human", "failed_recovery", "investigation_failed"}

\* ALLOWED_NEXT_STATES.
Allowed ==
  {<<"failed_detected", "investigating">>,
   <<"investigating", "manager_review">>, <<"investigating", "needs_human">>,
   <<"investigating", "investigation_failed">>,
   <<"manager_review", "policy_check">>, <<"manager_review", "needs_human">>,
   <<"policy_check", "awaiting_approval">>, <<"policy_check", "executing">>,
   <<"policy_check", "needs_human">>,
   <<"awaiting_approval", "executing">>, <<"awaiting_approval", "needs_human">>,
   <<"executing", "verifying">>, <<"executing", "failed_recovery">>,
   <<"verifying", "resolved">>, <<"verifying", "failed_recovery">>}

\* The context of a transition.  "verified" is whether a health check passed
\* after the execution with its id.
Context(mode, approval, requested, before, executed, verified) ==
  [mode |-> mode, approval |-> approval, requested |-> requested,
   before |-> before, executed |-> executed, verified |-> verified]

ApprovalAllowsTransition(current, next, c) ==
  LET approving == c.mode = "approval_required" IN
  CASE current = "policy_check" /\ next = "awaiting_approval" ->
         approving /\ c.approval = "pending"
    [] current = "policy_check" /\ next = "executing" ->
         c.mode = "autonomous"
    [] current = "awaiting_approval" /\ next = "executing" ->
         approving /\ c.approval = "approved"
    [] current = "awaiting_approval" /\ next = "needs_human" ->
         approving /\ c.approval \in {"rejected", "expired"}
    [] OTHER -> TRUE

ExecutionMayStart(c) == c.requested /\ c.before = 0

ResolutionHolds(c) == c.executed /\ c.verified /\ c.before = 0

AttemptIncidentTransition(current, next, c) ==
  /\ current \notin Ended
  /\ <<current, next>> \in Allowed
  /\ ApprovalAllowsTransition(current, next, c)
  /\ next = "executing" => ExecutionMayStart(c)
  /\ next = "resolved" => ResolutionHolds(c)

\* A request for the incident "asked" while "active" is the active one.
EvaluateRecoveryPolicy(asked, active, state, confident, before) ==
  /\ asked = active /\ state = "policy_check"
  /\ confident
  /\ before = 0
=============================================================================
