----------------------------- MODULE Coordinator -----------------------------
(***************************************************************************)
(* The runner process on the operator's machine, composed with the control *)
(* plane it calls: the loop of runner/index.ts, orchestrator.run, and the  *)
(* environment restorer.                                                   *)
(*                                                                         *)
(* Each await is a point where everybody else may move, so one server call *)
(* is one action: the mutation of ControlPlane and the assignment of its   *)
(* reply.  A crash right after such an action is a reply that was lost.    *)
(* orchestrator.run works on copies, "local", of a snapshot that may be    *)
(* stale when it is taken; most calls may throw at any time, and then the  *)
(* run returns "state_conflict" and waits for another snapshot.            *)
(*                                                                         *)
(* The sandbox is left open: its service may be found in any state, a call *)
(* may fail before or after it was performed, and its ledger of executions *)
(* is not relied upon, for it is lost when the sandbox restarts.  A call   *)
(* that was given up, or whose caller died, still stands in the agent's    *)
(* queue and may be performed at any later time; how late that can be is   *)
(* the subject of Sandbox.  There is one coordinator at a time.            *)
(***************************************************************************)
EXTENDS ControlPlane

VARIABLES
  proc,      \* the process: "down", "starting" or "ready"
  pending,   \* pendingCommand: the last snapshot delivered and not yet taken
  step,      \* the await at which orchestrator.run stands, or "idle"
  local,     \* the copies orchestrator.run works on
  flags,     \* what it remembers beside them
  restorer,  \* where restoreEnvironment stands, and for which incident
  restarts,  \* how often the sandbox performed the restart of each run
  late       \* runs whose restart stands in the agent's queue, unawaited

mine == <<proc, pending, step, local, flags, restorer, restarts, late>>
allVars == <<vars, mine>>

-----------------------------------------------------------------------------
(* Snapshots. *)

\* What getActiveDemoCommand returns.  "asked" is whether the nonce of the
\* approval_requested step is in stepNonces.
Snapshot(r) ==
  [run |-> r, mode |-> command[r].mode,
   status |-> command[r].status, cv |-> command[r].version,
   phase |-> incident[r].phase, iv |-> incident[r].version,
   diagnosis |-> incident[r].diagnosis,
   recovery |-> recovery[r].status, rv |-> recovery[r].version,
   approval |-> recovery[r].approval, asked |-> request[r] # "none"]

NoSnapshot == [run |-> NoRun]

\* Whether the signal is aborted, a renewal of the lease failed, failedHealth
\* is known, and the terminal state about to be written.
NoFlags == [aborted |-> FALSE, leaseLost |-> FALSE, sawFailure |-> FALSE,
            outcome |-> "none"]

NoRestoration == [at |-> "none", run |-> NoRun, iv |-> 0]

CoordinatorInit ==
  /\ Init
  /\ proc = "down"
  /\ pending = NoSnapshot
  /\ step = "idle" /\ local = NoSnapshot /\ flags = NoFlags
  /\ restorer = NoRestoration
  /\ restarts = [r \in Run |-> 0] /\ late = {}

-----------------------------------------------------------------------------
(* Moves of orchestrator.run. *)

\* Everything but the program counter and the copies.
outside == <<proc, pending, restorer, restarts, late>>

Goto(next) == step' = next /\ UNCHANGED <<local, flags, outside>>

GotoWith(next, copies) ==
  step' = next /\ local' = copies /\ UNCHANGED <<flags, outside>>

Finish(outcome) ==
  /\ step' = "finish" /\ flags' = [flags EXCEPT !.outcome = outcome]
  /\ UNCHANGED <<local, outside>>

Return ==
  /\ step' = "idle" /\ local' = NoSnapshot /\ flags' = NoFlags
  /\ UNCHANGED outside

\* A mutation that finds its own earlier effect replies without a write.
Replayed(status) ==
  /\ command[local.run].status = status
  /\ command[local.run].version = local.cv + 1
  /\ ~LeaseExpired(local.run)
  /\ UNCHANGED vars

\* appendStep with the copies' versions.
Report ==
  \E age \in 0..StepDeadline :
    AppendStep(local.run, local.cv,
               IF local.phase = "none" THEN NoVersion ELSE local.iv, age)

\* Where a run continues, given the phase in its copies.  A step that the
\* snapshot already lists is not appended again.
PhaseSteps(phase) ==
  CASE phase = "none"              -> {"open_incident"}
    [] phase = "failed_detected"   -> {"investigate"}
    [] phase = "investigating"     -> {"recheck"}
    [] phase = "manager_review"    -> {"review", "close_review"}
    [] phase = "policy_check"      -> {"policy", "permit"}
    [] phase = "awaiting_approval" -> {"resume"}
    [] phase = "executing"         -> {"ambiguous"}
    [] phase = "verifying"         -> {"report_executed", "verify"}

StatusSteps(status, phase) ==
  CASE status = "queued"            -> {"claim"}
    [] status = "claimed"           -> {"reset"}
    [] status = "reset_applied"     -> {"repeat_reset", "check_failure"}
    [] status = "failure_confirmed" -> {"report_failure"} \union PhaseSteps(phase)

\* The lease is renewed at the start, and on a timer once the failure is
\* reported.
Begin ==
  /\ step = "start"
  /\ IF local.status = "queued" THEN UNCHANGED vars
                                ELSE RenewLease(local.run, local.cv)
  /\ \E next \in StatusSteps(local.status, local.phase) : Goto(next)

BeforeTimer == {"idle", "start", "claim", "reset", "stopping", "mark_reset",
                "report_reset", "fail_early", "repeat_reset", "check_failure",
                "mark_failure", "report_failure"}

RenewOnTimer ==
  /\ step \notin BeforeTimer /\ ~flags.leaseLost
  /\ \/ RenewLease(local.run, local.cv) /\ UNCHANGED mine
     \/ /\ flags' = [flags EXCEPT !.leaseLost = TRUE]
        /\ UNCHANGED <<vars, step, local, outside>>

Claim ==
  /\ step = "claim"
  /\ \/ /\ ClaimDemoCommand(local.run, local.cv) \/ Replayed("claimed")
        /\ GotoWith("reset", [local EXCEPT !.status = "claimed", !.cv = @ + 1])
     \/ ClaimExpiredCommand(local.run, local.cv) /\ Return

-----------------------------------------------------------------------------
(* Until the incident: break the service and see it fail. *)

\* The service is stopped unless it already was.
InspectForReset ==
  /\ step = "reset" /\ ~flags.aborted
  /\ \E next \in {"stopping", "mark_reset", "fail_early"} : Goto(next)
  /\ UNCHANGED vars

ServiceStopped == step = "stopping" /\ Goto("mark_reset") /\ UNCHANGED vars

ResetMarked ==
  /\ step = "mark_reset"
  /\ MarkResetApplied(local.run, local.cv) \/ Replayed("reset_applied")
  /\ GotoWith("report_reset",
              [local EXCEPT !.status = "reset_applied", !.cv = @ + 1])

ResetReported ==
  step \in {"report_reset", "repeat_reset"} /\ Report /\ Goto("check_failure")

\* Anything that fails while the service is being reset fails the command.
InReset == {"reset", "stopping", "mark_reset", "report_reset"}

ResetThrows ==
  /\ step \in InReset /\ ~flags.aborted
  /\ Goto("fail_early")
  /\ UNCHANGED vars

FailEarly ==
  step = "fail_early" /\ FailDemoCommand(local.run, local.cv) /\ Return

FailureChecked ==
  /\ step = "check_failure"
  /\ \/ Goto("fail_early")
     \/ /\ step' = "mark_failure"
        /\ flags' = [flags EXCEPT !.sawFailure = TRUE]
        /\ UNCHANGED <<local, outside>>
  /\ UNCHANGED vars

FailureMarked ==
  /\ step = "mark_failure"
  /\ MarkFailureConfirmed(local.run, local.cv) \/ Replayed("failure_confirmed")
  /\ GotoWith("report_failure",
              [local EXCEPT !.status = "failure_confirmed", !.cv = @ + 1])

FailureReported ==
  /\ step = "report_failure"
  /\ Report
  /\ step' \in PhaseSteps(local.phase)
  /\ flags' = [flags EXCEPT !.sawFailure = TRUE]
  /\ UNCHANGED <<local, outside>>

\* An incident that already exists is returned with its current version.
IncidentOpened ==
  LET r == local.run IN
  /\ step = "open_incident"
  /\ \/ CreateIncident(r, local.cv)
     \/ /\ RequireClaimed(r, local.cv, {"failure_confirmed"})
        /\ incident[r].phase # "none"
        /\ UNCHANGED vars
  /\ GotoWith("investigate",
              [local EXCEPT !.phase = "failed_detected",
                            !.iv = incident'[r].version])

-----------------------------------------------------------------------------
(* Diagnosis and permission. *)

\* updateIncidentPhase to a phase that no recovery is needed for.
Advance(from, to, diagnosis) ==
  UpdateIncidentPhase(local.run, local.cv, local.iv, from, to, diagnosis)

Investigate ==
  /\ step = "investigate"
  /\ Advance("failed_detected", "investigating", local.diagnosis)
  /\ GotoWith("recheck", [local EXCEPT !.phase = "investigating", !.iv = @ + 1])

\* A resumed investigation looks whether the failure is still there.
Recheck ==
  /\ step = "recheck"
  /\ \/ Goto("collect")
     \/ ~flags.sawFailure /\ Finish("needs_human")
  /\ UNCHANGED vars

EvidenceCollected ==
  \/ step = "collect" /\ Report /\ Goto("collect_logs")
  \/ step = "collect_logs" /\ Report /\ Goto("diagnose")

EvidenceFails ==
  \/ /\ step \in {"collect", "collect_logs"}
     /\ Goto("report_no_evidence")
     /\ UNCHANGED vars
  \/ step = "report_no_evidence" /\ Report /\ Finish("investigation_failed")

\* The investigator returns a diagnosis, or none.
Diagnosed ==
  /\ step = "diagnose" /\ ~flags.aborted /\ ~flags.leaseLost
  /\ \/ Goto("report_no_diagnosis")
     \/ \E diagnosis \in Diagnosis \ {"none"} :
          GotoWith("report_diagnosis", [local EXCEPT !.diagnosis = diagnosis])
  /\ UNCHANGED vars

DiagnosisReported ==
  \/ step = "report_no_diagnosis" /\ Report /\ Finish("investigation_failed")
  \/ step = "report_diagnosis" /\ Report /\ Goto("close_investigation")

ReviewOpened ==
  /\ step = "close_investigation"
  /\ Advance("investigating", "manager_review", local.diagnosis)
  /\ GotoWith("review", [local EXCEPT !.phase = "manager_review", !.iv = @ + 1])

Reviewed == step = "review" /\ Report /\ Goto("close_review")

ReviewClosed ==
  /\ step = "close_review"
  /\ Advance("manager_review", "policy_check", local.diagnosis)
  /\ GotoWith("policy", [local EXCEPT !.phase = "policy_check", !.iv = @ + 1])

PolicyReported == step = "policy" /\ Report /\ Goto("permit")

\* The policy allows an actionable diagnosis only.
Permit ==
  /\ step = "permit"
  /\ IF local.diagnosis # "actionable" THEN Finish("needs_human")
     ELSE IF local.recovery = "none" THEN Goto("propose")
     ELSE IF local.mode = "autonomous"
       THEN IF local.recovery = "allowed" THEN Goto("enter")
                                          ELSE Finish("needs_human")
     ELSE IF local.recovery = "proposed" /\ local.approval = "pending"
       THEN Goto("ask") ELSE Finish("needs_human")
  /\ UNCHANGED vars

\* Of a recovery command that already exists only the version is read.
Proposed ==
  LET r == local.run
      visitor == local.mode = "approval_required" IN
  /\ step = "propose"
  /\ \/ CreateRecoveryCommand(r, local.cv, local.iv)
     \/ /\ RequireIncidentWrite(r, local.cv, local.iv, "policy_check")
        /\ recovery[r].status # "none"
        /\ UNCHANGED vars
  /\ GotoWith("permit",
              [local EXCEPT !.recovery = IF visitor THEN "proposed" ELSE "allowed",
                            !.approval = IF visitor THEN "pending" ELSE "none",
                            !.rv = recovery'[r].version])

\* Mutant of Asked: the run waits for a decision it never asked for.
NotAsked == step = "ask" /\ Goto("await") /\ UNCHANGED vars

Asked ==
  /\ step = "ask"
  /\ IF local.asked THEN UNCHANGED vars
     ELSE AppendApprovalRequest(local.run, local.cv, local.iv)
  /\ Goto("await")

\* The run returns; the decision will come with another snapshot.
Awaiting ==
  /\ step = "await"
  /\ AwaitApproval(local.run, local.cv, local.iv, local.rv)
  /\ Return

Resume ==
  /\ step = "resume" /\ local.mode = "approval_required"
  /\ \/ local.approval = "pending" /\ Return
     \/ /\ local.approval = "approved" /\ local.recovery = "proposed"
        /\ IF local.diagnosis = "actionable" THEN Goto("enter")
                                             ELSE Finish("needs_human")
  /\ UNCHANGED vars

-----------------------------------------------------------------------------
(* Execution and verification. *)

\* Mutant of Entered: the server's answer is not awaited.
EnteredUnasked ==
  /\ step = "enter"
  /\ GotoWith("execute", [local EXCEPT !.phase = "executing"])
  /\ UNCHANGED vars

Entered ==
  /\ step = "enter"
  /\ EnterExecuting(local.run, local.cv, local.iv, local.rv, local.phase)
  /\ GotoWith("execute", [local EXCEPT !.phase = "executing", !.iv = @ + 1,
                                       !.recovery = "executing", !.rv = @ + 1])

\* A run that finds itself executing does not know whether the restart was
\* performed.  Its mutant performs it again.
AmbiguousRetried == step = "ambiguous" /\ Goto("execute") /\ UNCHANGED vars

Ambiguous == step = "ambiguous" /\ Finish("failed_recovery") /\ UNCHANGED vars

RestartSent ==
  /\ step = "execute" /\ ~flags.aborted /\ ~flags.leaseLost
  /\ Goto("restarting")
  /\ UNCHANGED vars

Perform(r) == restarts' = [restarts EXCEPT ![r] = @ + 1]

\* What becomes of a restart whose answer is not read: it was performed, it
\* never will be, or the agent has yet to come to it.
Unanswered ==
  \/ Perform(local.run) /\ UNCHANGED late
  \/ UNCHANGED <<restarts, late>>
  \/ late' = late \union {local.run} /\ UNCHANGED restarts

\* The sandbox performed the restart and said so; or the call failed, or was
\* given up after REQUEST_TIMEOUT_MS.
RestartReturns ==
  /\ step = "restarting"
  /\ \/ step' = "close_execution" /\ Perform(local.run) /\ UNCHANGED late
     \/ step' = "report_no_restart" /\ Unanswered
  /\ UNCHANGED <<vars, proc, pending, local, flags, restorer>>

\* The agent comes to a restart that nobody waits for.  It may also refuse it,
\* or end before: nothing makes it come to it.
LateRestart ==
  \E r \in late :
    /\ Perform(r) /\ late' = late \ {r}
    /\ UNCHANGED <<vars, proc, pending, step, local, flags, restorer>>

RestartFailureReported ==
  step = "report_no_restart" /\ Report /\ Finish("failed_recovery")

ExecutionClosed ==
  /\ step = "close_execution"
  /\ EnterVerifying(local.run, local.cv, local.iv, local.rv)
  /\ GotoWith("report_executed",
              [local EXCEPT !.phase = "verifying", !.iv = @ + 1,
                            !.recovery = "executed", !.rv = @ + 1])

ExecutionReported == step = "report_executed" /\ Report /\ Goto("verify")

Verified ==
  /\ step = "verify" /\ ~flags.aborted /\ ~flags.leaseLost
  /\ \E next \in {"report_healthy", "report_unhealthy"} : Goto(next)
  /\ UNCHANGED vars

VerificationReported ==
  \/ step = "report_healthy" /\ Report /\ Finish("resolved")
  \/ step = "report_unhealthy" /\ Report /\ Finish("failed_recovery")

Completed ==
  /\ step = "finish" /\ ~flags.leaseLost
  /\ CompleteIncident(local.run, local.cv, local.iv, local.rv, local.phase,
                      flags.outcome)
  /\ Return

\* Any other failure ends the run: a rejected call, an abort, a lost lease, or
\* copies that do not fit together.
Throws ==
  /\ step \notin {"idle", "collect", "collect_logs", "restarting"}
  /\ step \in InReset => flags.aborted
  /\ Return
  /\ UNCHANGED vars

RunStep ==
  \/ Begin \/ Claim \/ InspectForReset \/ ServiceStopped \/ ResetMarked
  \/ ResetReported \/ ResetThrows \/ FailEarly \/ FailureChecked
  \/ FailureMarked \/ FailureReported \/ IncidentOpened \/ Investigate
  \/ Recheck \/ EvidenceCollected \/ EvidenceFails \/ Diagnosed
  \/ DiagnosisReported \/ ReviewOpened \/ Reviewed \/ ReviewClosed
  \/ PolicyReported \/ Permit \/ Proposed \/ Asked \/ Awaiting \/ Resume
  \/ Entered \/ Ambiguous \/ RestartSent \/ RestartReturns
  \/ RestartFailureReported \/ ExecutionClosed \/ ExecutionReported
  \/ Verified \/ VerificationReported \/ Completed \/ Throws

-----------------------------------------------------------------------------
(* The loop of runner/index.ts. *)

Start ==
  /\ proc = "down"
  /\ proc' = "starting"
  /\ UNCHANGED <<vars, pending, step, local, flags, restorer, restarts, late>>

\* The process dies anywhere.  A restart that was on its way is the agent's.
Crash ==
  /\ proc # "down"
  /\ proc' = "down" /\ pending' = NoSnapshot
  /\ step' = "idle" /\ local' = NoSnapshot /\ flags' = NoFlags
  /\ restorer' = NoRestoration
  /\ IF step = "restarting" THEN Unanswered ELSE UNCHANGED <<restarts, late>>
  /\ UNCHANGED vars

\* The live feed delivers the active command, or none.
Deliver ==
  /\ proc = "ready"
  /\ pending' = IF control.active = NoRun THEN NoSnapshot
                                          ELSE Snapshot(control.active)
  /\ UNCHANGED <<vars, proc, step, local, flags, restorer, restarts, late>>

\* drainCommands takes the pending snapshot when no run and no restoration is
\* under way.
Take ==
  /\ proc = "ready" /\ step = "idle" /\ restorer.at = "none"
  /\ pending # NoSnapshot
  /\ pending' = NoSnapshot
  /\ step' = "start" /\ local' = pending
  /\ UNCHANGED <<vars, proc, flags, restorer, restarts, late>>

\* A heartbeat that reports nothing to restore.  verifyStartupReady, which
\* follows the first one of a process, may end it.
BeatQuiet ==
  /\ proc # "down" /\ restorer.at = "none"
  /\ Heartbeat
  /\ ~EnvironmentPending'
  /\ proc' \in IF proc = "starting" THEN {"ready", "down"} ELSE {proc}
  /\ UNCHANGED <<pending, step, local, flags, restorer, restarts, late>>

Aborts == step # "idle"

\* A heartbeat that reports a dirty environment: the run under way is aborted,
\* the pending snapshot is dropped, and the restoration awaits the drain.  No
\* other heartbeat is sent until it returns.
BeatDirty ==
  /\ proc # "down" /\ restorer.at = "none"
  /\ Heartbeat
  /\ EnvironmentPending'
  /\ restorer' = [at |-> "draining", run |-> control'.restoring,
                  iv |-> incident'[control'.restoring].version]
  /\ pending' = NoSnapshot
  /\ flags' = [flags EXCEPT !.aborted = Aborts]
  /\ UNCHANGED <<proc, step, local, restarts, late>>

-----------------------------------------------------------------------------
(* Restoration of the environment, inside the heartbeat that reported it. *)

besides == <<pending, step, local, flags, restarts, late>>

RestoreGoto(at, iv) ==
  /\ restorer' = [restorer EXCEPT !.at = at, !.iv = iv]
  /\ UNCHANGED <<proc, besides>>

\* A process that is starting goes on when its restoration was recorded, as
\* restored (then verifyStartupReady decides) or as failed, and ends when
\* recording it threw.
RestoreEnds(starting) ==
  /\ restorer' = NoRestoration
  /\ proc' \in IF proc = "starting" THEN starting ELSE {proc}
  /\ UNCHANGED besides

\* Mutant of Drained: the run under way is not awaited.
NotDrained ==
  /\ restorer.at = "draining"
  /\ RestoreGoto("claim", restorer.iv)
  /\ UNCHANGED vars

Drained ==
  /\ restorer.at = "draining" /\ step = "idle"
  /\ RestoreGoto("claim", restorer.iv)
  /\ UNCHANGED vars

\* Mutant of RestorationClaimed: one that was claimed before is given up.
FreshRestorationClaimed ==
  /\ restorer.at = "claim"
  /\ ClaimEnvironmentRecovery(restorer.run, restorer.iv)
  /\ RestoreGoto("ensure", incident'[restorer.run].version)

\* A restoration that was claimed before is claimed again.
RestorationClaimed ==
  LET r == restorer.run
      iv == restorer.iv IN
  /\ restorer.at = "claim"
  /\ \/ ClaimEnvironmentRecovery(r, iv)
     \/ /\ control.restoring = r /\ incident[r].environment = "restoring"
        /\ incident[r].version \in {iv, iv + 1}
        /\ UNCHANGED vars
  /\ RestoreGoto("ensure", incident'[r].version)

\* ensureDemoService, then verifyFreshHealth.
Ensured ==
  restorer.at = "ensure" /\ RestoreGoto("complete", restorer.iv) /\ UNCHANGED vars

Restored ==
  /\ restorer.at = "complete"
  /\ CompleteEnvironmentRecovery(restorer.run, restorer.iv)
  /\ RestoreEnds({"ready", "down"})

NotRestored ==
  \/ /\ restorer.at \in {"ensure", "complete"}
     /\ RestoreGoto("fail", restorer.iv)
     /\ UNCHANGED vars
  \/ /\ restorer.at = "fail"
     /\ FailEnvironmentRecovery(restorer.run, restorer.iv)
     /\ RestoreEnds({"ready"})

RestoreThrows ==
  /\ restorer.at \in {"claim", "fail"}
  /\ RestoreEnds({"down"})
  /\ UNCHANGED vars

RestorerStep ==
  Drained \/ RestorationClaimed \/ Ensured \/ Restored \/ NotRestored
  \/ RestoreThrows

-----------------------------------------------------------------------------
\* The visitor, the operator, the cron and the clock know nothing of the runner.
Others == (Visitor \/ Cron \/ Tick) /\ UNCHANGED mine

CoordinatorNext ==
  \/ Others
  \/ Start \/ Crash \/ Deliver \/ Take \/ BeatQuiet \/ BeatDirty
  \/ RunStep \/ RenewOnTimer \/ RestorerStep \/ LateRestart

CoordinatorSpec == CoordinatorInit /\ [][CoordinatorNext]_allVars

\* Time passes, and the cron is run by the cloud whatever the runner does.
FairCloud ==
  WF_allVars(Tick /\ UNCHANGED mine) /\ WF_allVars(Cron /\ UNCHANGED mine)

\* The operator restarts the process, every await returns or throws, and
\* neither crashes nor failures of the sandbox and the network come for ever
\* between the same two steps.
FairRunner ==
  /\ WF_allVars(Start \/ RunStep \/ RestorerStep)
  /\ SF_allVars(BeatDirty) /\ SF_allVars(Drained)
  /\ SF_allVars(RestorationClaimed) /\ SF_allVars(Ensured)
  /\ SF_allVars(Restored)

-----------------------------------------------------------------------------
(* Properties. *)

\* The restart of a run is performed at most once, through stale snapshots,
\* repeated snapshots, lost replies, crashes and restarts of the process; and
\* it is performed exactly once when the run is resolved.
RestartedOnce ==
  \A r \in Run :
    /\ restarts[r] <= 1
    /\ incident[r].phase \in {"verifying", "resolved"} => restarts[r] = 1

\* A run that was ended before the restart was permitted is never restarted,
\* not even by a coordinator that has not heard of it, and in approval mode
\* only an approved run is: "Rejection and expiry execute no recovery action".
RestartNeedsPermission ==
  \A r \in Run : restarts[r] > 0 =>
    /\ incident[r].phase \in {"executing", "verifying", "resolved", "failed_recovery"}
    /\ command[r].mode = "approval_required" => recovery[r].approval = "approved"

\* The coordinator never has a run's call and a call of the restorer under way
\* at the same time.
OneHandOnTheSandbox ==
  ~(step \in {"stopping", "restarting"} /\ restorer.at \in {"ensure", "complete"})

\* A run can be closed at any time, and a decision that is waited for be taken:
\* heartbeat, cron and visitor all throw when the step that asked for an open
\* decision is missing, unless the run is still on its way to ask.
WaitingCanBeClosed ==
  \A r \in Run : control.active = r /\ recovery[r].approval = "pending" =>
    \/ request[r] = "pending"
    \/ request[r] = "none" /\ incident[r].phase = "policy_check"

\* A finished run leaves no decision open, though completeIncident never looks
\* at the decision.
NoOpenDecision ==
  \A r \in Run : incident[r].phase \in Terminal =>
    recovery[r].approval # "pending" /\ request[r] # "pending"

\* The drain before the claim closes the account of a run: once its environment
\* is being restored, no restart of it is sent, and none that was sent before is
\* still awaited.  If the agent performs one then, it is one that was given up,
\* or left by a crash, before the claim; Sandbox says how long that may take.
RestartsSentBeforeRestoration ==
  [][\A r \in Run : incident[r].environment \notin {"none", "pending"} =>
       /\ step' = "restarting" => step = "restarting" \/ local'.run # r
       /\ r \in late' => r \in late
       /\ restarts'[r] # restarts[r] => r \in late]_allVars

Rules == INSTANCE IncidentRules

\* The context of a change of phase, from the rows it leaves behind.  Only the
\* execution of this recovery command may be among the earlier ones.
ContextOf(r) ==
  Rules!Context(command[r].mode, recovery'[r].approval,
                recovery'[r].status # "none",
                restarts[r] - (IF recovery'[r].status = "executed" THEN 1 ELSE 0),
                recovery'[r].status = "executed", TRUE)

\* The run failed by the server, which no rule foresees.
FailedByServer(r) ==
  /\ command'[r].status = "failed"
  /\ incident'[r].phase \in {"failed_recovery", "investigation_failed"}

\* The handlers of server and coordinator together keep the rules that
\* incident-state.ts and policy.ts state in one place, with the decision and
\* the executions that are really there: every change of phase is one the
\* transition checker allows, and every recovery command was one the policy
\* allows.
RulesKept ==
  [][\A r \in Run :
       /\ incident[r].phase \notin {"none", incident'[r].phase} =>
            \/ FailedByServer(r)
            \/ Rules!AttemptIncidentTransition(
                 incident[r].phase, incident'[r].phase, ContextOf(r))
       /\ recovery[r].status = "none" /\ recovery'[r].status # "none" =>
            Rules!EvaluateRecoveryPolicy(
              r, control.incident, incident[r].phase,
              incident[r].diagnosis = "actionable", restarts[r])]_allVars

\* "Every accepted demo run reaches a persisted terminal result", even when the
\* runner never comes back.
EveryRunEnds ==
  \A r \in Run : command[r].status = "queued" ~>
                  command[r].status \in {"complete", "failed"}

\* A dirty environment is restored in the end, so that another run can start.
EnvironmentComesBack ==
  FairRunner => (control.restoring # NoRun ~> control.restoring = NoRun)
=============================================================================
