---------------------------- MODULE ControlPlane ----------------------------
(***************************************************************************)
(* The Convex control plane of the staged demo: the tables demoControl,    *)
(* demoCommands, incidents, recoveryCommands and the approval_requested    *)
(* step, and every mutation of convex/runner.ts and convex/demo.ts that    *)
(* changes them.  Convex runs a mutation as one serializable transaction   *)
(* and rolls it back when the handler throws, so each mutation is one      *)
(* action and each rejectWithCode is a missing step.                       *)
(*                                                                         *)
(* The callers are left open: any mutation may arrive at any time, in any  *)
(* order, as long as it carries a valid token.  Coordinator.tla restricts  *)
(* them to what the runner process really sends.                           *)
(*                                                                         *)
(* A run is one demoCommand; its incident and its recovery command are     *)
(* created at most once, so the three tables are functions on Run and a    *)
(* row that does not exist yet has status or phase "none".  The approval   *)
(* capability digest of a run is never accepted twice and never given to   *)
(* another run, so it is the run itself.                                   *)
(*                                                                         *)
(* Time: a stored timestamp is kept as its age in ticks, capped at Limit,  *)
(* the age from which no guard can tell it from an older one.  So          *)
(* "now - t >= D" is age >= D and "now > t + D" is age > D.                *)
(***************************************************************************)
EXTENDS Integers, FiniteSets

CONSTANTS
  Run,                 \* demo commands that may be requested
  NoRun,               \* an undefined id in demoControl
  HeartbeatLoss,       \* RUNNER_FRESHNESS_MS = RUNNER_HEARTBEAT_LOSS_MS
  StepDeadline,        \* ACTIVE_STEP_DEADLINE_MS
  ClaimLease,          \* CLAIM_LEASE_MS
  RunDeadline,         \* ACTIVE_RUN_DEADLINE_MS
  RequestCooldown,     \* REQUEST_COOLDOWN_MS
  CommandExpiry,       \* COMMAND_EXPIRY_MS
  ApprovalWindow,      \* APPROVAL_WINDOW_MS
  DailyCap,            \* DAILY_REQUEST_CAP
  MaxIncidentVersion   \* bound: restorations that fail stop being retried here

ASSUME NoRunIsNotARun == NoRun \notin Run

ASSUME DeadlinesArePositive ==
  {HeartbeatLoss, StepDeadline, ClaimLease, RunDeadline, RequestCooldown,
   CommandExpiry, ApprovalWindow, DailyCap, MaxIncidentVersion} \subseteq Nat \ {0}

ASSUME DeadlineOrder ==
  StepDeadline <= RunDeadline /\ RunDeadline <= CommandExpiry

VARIABLES
  control,       \* the demoControl singleton
  command,       \* demoCommands
  incident,      \* incidents
  recovery,      \* recoveryCommands
  request,       \* the approval_requested step of each run
  since,         \* ages of the timestamps of each run
  heartbeatAge,  \* age of control.runnerHeartbeatAt
  requestAge     \* age of control.lastRequestedAt

tables == <<control, command, incident, recovery, request>>
ages == <<since, heartbeatAge, requestAge>>
vars == <<control, command, incident, recovery, request,
          since, heartbeatAge, requestAge>>

-----------------------------------------------------------------------------
Mode == {"autonomous", "approval_required"}
Claimed == {"claimed", "reset_applied", "failure_confirmed"}
Live == Claimed \union {"queued"}
CommandStatus == Live \union {"none", "complete", "failed"}

LivePhase == {"failed_detected", "investigating", "manager_review",
              "policy_check", "awaiting_approval", "executing", "verifying"}
Terminal == {"resolved", "needs_human", "failed_recovery",
             "investigation_failed"}
Phase == LivePhase \union Terminal \union {"none"}

RecoveryStatus == {"none", "proposed", "allowed", "executing", "executed",
                   "blocked", "failed"}
Approval == {"none", "pending", "approved", "rejected", "expired"}

\* What the policy reads of a diagnosis: "actionable" is complete, confident,
\* asks for no human and proposes the fixed restart; "unsafe" is any other.
Diagnosis == {"none", "actionable", "unsafe"}
Environment == {"none", "pending", "restoring", "restored"}
RequestStep == {"none", "pending", "succeeded", "blocked"}

\* "started" is what the run and step deadlines are counted from: the approval
\* once there is one, else claimedAt, else createdAt.  Each is later than the
\* ones it replaces, and the expiry of a queued command is read from createdAt
\* only before the others exist, so one stamp serves for the three.
Stamp == {"started", "lease", "progress", "requested"}

LimitOf(s) ==
  CASE s = "started"   -> CommandExpiry + 1
    [] s = "lease"     -> ClaimLease + 1
    [] s = "progress"  -> StepDeadline
    [] s = "requested" -> ApprovalWindow

Limit == [s \in Stamp |-> LimitOf(s)]

NextPhases(p) ==
  CASE p = "failed_detected"   -> {"investigating"}
    [] p = "investigating"     -> {"manager_review", "needs_human",
                                   "investigation_failed"}
    [] p = "manager_review"    -> {"policy_check", "needs_human"}
    [] p = "policy_check"      -> {"awaiting_approval", "executing",
                                   "needs_human"}
    [] p = "awaiting_approval" -> {"executing", "needs_human"}
    [] p = "executing"         -> {"verifying", "failed_recovery"}
    [] p = "verifying"         -> {"resolved", "failed_recovery"}
    [] OTHER                   -> {}

NoCommand == [status |-> "none", mode |-> "autonomous", version |-> 0,
              createdToday |-> FALSE]
NoIncident == [phase |-> "none", version |-> 0, diagnosis |-> "none",
               environment |-> "none"]
NoRecovery == [status |-> "none", version |-> 0, approval |-> "none"]

\* An empty database.  An absent demoControl row acts as one that is disabled
\* and has never had a heartbeat.
Init ==
  /\ control = [enabled |-> FALSE, active |-> NoRun, incident |-> NoRun,
                restoring |-> NoRun, today |-> FALSE, dayCount |-> 0]
  /\ command = [r \in Run |-> NoCommand]
  /\ incident = [r \in Run |-> NoIncident]
  /\ recovery = [r \in Run |-> NoRecovery]
  /\ request = [r \in Run |-> "none"]
  /\ since = [r \in Run |-> Limit]
  /\ heartbeatAge = HeartbeatLoss
  /\ requestAge = RequestCooldown

-----------------------------------------------------------------------------
(* Timestamps. *)

Older(age, limit) == IF age < limit THEN age + 1 ELSE age

\* The timestamps S of run r are set to now.
Restamp(r, S) ==
  since' = [since EXCEPT ![r] =
              [s \in Stamp |-> IF s \in S THEN 0 ELSE since[r][s]]]

\* No guard reads a timestamp of a finished run; its lease is undefined.
Forget(r) == since' = [since EXCEPT ![r] = Limit]

LeaseExpired(r) == since[r]["lease"] > ClaimLease
RunnerLost == heartbeatAge >= HeartbeatLoss

CommandExpired(r) == since[r]["started"] > CommandExpiry
RunDeadlineReached(r) == since[r]["started"] >= RunDeadline
\* Counted from the later of the last step and the start.
StepDeadlineReached(r) ==
  since[r]["progress"] >= StepDeadline /\ since[r]["started"] >= StepDeadline
ApprovalExpired(r) == since[r]["requested"] >= ApprovalWindow

\* Time passes for everyone.
Tick ==
  /\ since' = [r \in Run |->
                 [s \in Stamp |-> Older(since[r][s], Limit[s])]]
  /\ heartbeatAge' = Older(heartbeatAge, HeartbeatLoss)
  /\ requestAge' = Older(requestAge, RequestCooldown)
  /\ UNCHANGED tables

\* The UTC day changes: dayKey is no longer today's.
NewDay ==
  /\ control' = [control EXCEPT !.today = FALSE]
  /\ command' = [r \in Run |-> [command[r] EXCEPT !.createdToday = FALSE]]
  /\ UNCHANGED <<incident, recovery, request, ages>>

-----------------------------------------------------------------------------
(* Guards shared by the mutations. *)

RequireClaimed(r, version, statuses) ==
  /\ command[r].status \in statuses
  /\ command[r].version = version
  /\ ~LeaseExpired(r)

RequireActiveIncident(r, version) ==
  /\ control.active = r
  /\ control.incident = r
  /\ incident[r].version = version

PendingApproval(r) ==
  /\ control.incident = r
  /\ command[r].mode = "approval_required"
  /\ incident[r].phase = "awaiting_approval"
  /\ recovery[r].status = "proposed"
  /\ recovery[r].approval = "pending"

\* Mutant of EnvironmentPending: a restoration that has started is forgotten.
EnvironmentQueued ==
  /\ control.restoring # NoRun
  /\ incident[control.restoring].environment = "pending"

EnvironmentPending ==
  /\ control.restoring # NoRun
  /\ incident[control.restoring].environment \in {"pending", "restoring"}

-----------------------------------------------------------------------------
(* Terminal writes shared by several mutations. *)

\* Mutants of ReleaseToRestoration: a pointer of the lock is not cleared.
ReleaseKeepingIncident(r) ==
  control' = [control EXCEPT !.active = NoRun, !.restoring = r]
ReleaseKeepingCommand(r) ==
  control' = [control EXCEPT !.incident = NoRun, !.restoring = r]

ReleaseToRestoration(r) ==
  control' = [control EXCEPT !.active = NoRun, !.incident = NoRun,
                             !.restoring = r]

SetCommandStatus(r, status) ==
  command' = [command EXCEPT ![r].status = status, ![r].version = @ + 1]

EndIncident(r, phase, environment) ==
  incident' = [incident EXCEPT ![r].phase = phase,
                               ![r].environment = environment,
                               ![r].version = @ + 1]

\* Mutant of ExpireApproval: the recovery stays proposed.
ExpireDecisionOnly(r) ==
  /\ request[r] = "pending"
  /\ request' = [request EXCEPT ![r] = "blocked"]
  /\ recovery' = [recovery EXCEPT ![r].approval = "expired",
                                  ![r].version = @ + 1]
  /\ EndIncident(r, "needs_human", "pending")
  /\ SetCommandStatus(r, "complete")
  /\ ReleaseToRestoration(r)
  /\ Forget(r)

\* expirePendingApproval
ExpireApproval(r) ==
  /\ request[r] = "pending"
  /\ request' = [request EXCEPT ![r] = "blocked"]
  /\ recovery' = [recovery EXCEPT ![r] =
                    [status |-> "blocked", approval |-> "expired",
                     version |-> recovery[r].version + 1]]
  /\ EndIncident(r, "needs_human", "pending")
  /\ SetCommandStatus(r, "complete")
  /\ ReleaseToRestoration(r)
  /\ Forget(r)

\* failActiveRunFromWatchdog: the run ends as failed, with an incident made up
\* for it when none exists, and a pending decision is closed as expired.  It
\* throws when the decision's request step cannot be closed.
FailedPhase(r) ==
  IF control.incident = r /\ incident[r].phase \in {"executing", "verifying"}
    THEN "failed_recovery" ELSE "investigation_failed"

FailedVersion(r) ==
  IF control.incident = NoRun THEN 0 ELSE incident[r].version + 1

\* Mutants of ClosedApproval: a pending decision stays open; a decision already
\* taken is overwritten.
ClosedNoApproval(r) == recovery[r].approval
ClosedAnyApproval(r) ==
  IF recovery[r].approval = "none" THEN "none" ELSE "expired"

ClosedApproval(r) ==
  IF recovery[r].approval = "pending" THEN "expired" ELSE recovery[r].approval

FailRun(r) ==
  LET pending == recovery[r].approval = "pending"
      open == recovery[r].status \notin {"none", "failed", "blocked"}
  IN
  /\ pending => \/ request[r] = "pending"
                \/ request[r] = "none" /\ incident[r].phase = "policy_check"
  /\ request' = IF pending /\ request[r] = "pending"
                  THEN [request EXCEPT ![r] = "blocked"] ELSE request
  /\ recovery' = IF open
       THEN [recovery EXCEPT ![r] =
               [status |-> "failed",
                approval |-> ClosedApproval(r),
                version |-> recovery[r].version + 1]]
       ELSE recovery
  /\ incident' = [incident EXCEPT ![r].phase = FailedPhase(r),
                                  ![r].environment = "pending",
                                  ![r].version = FailedVersion(r)]
  /\ SetCommandStatus(r, "failed")
  /\ ReleaseToRestoration(r)
  /\ Forget(r)

-----------------------------------------------------------------------------
(* convex/demo.ts: the visitor and the operator. *)

SetEnabled(enabled) ==
  /\ control' = [control EXCEPT !.enabled = enabled]
  /\ UNCHANGED <<command, incident, recovery, request, ages>>

RunsToday == IF control.today THEN control.dayCount ELSE 0

RequestRun(r, mode) ==
  /\ command[r].status = "none"
  /\ control.enabled
  /\ ~RunnerLost
  /\ ~EnvironmentPending
  /\ control.active = NoRun /\ control.incident = NoRun
  /\ requestAge >= RequestCooldown
  /\ RunsToday < DailyCap
  /\ command' = [command EXCEPT ![r] =
                   [status |-> "queued", mode |-> mode, version |-> 0,
                    createdToday |-> TRUE]]
  /\ control' = [control EXCEPT !.active = r, !.incident = NoRun,
                                !.restoring = NoRun, !.today = TRUE,
                                !.dayCount = RunsToday + 1]
  /\ Restamp(r, {"started"})
  /\ requestAge' = 0
  /\ UNCHANGED <<incident, recovery, request, heartbeatAge>>

CanDecide(r) ==
  /\ control.active = r
  /\ PendingApproval(r)
  /\ ~ApprovalExpired(r)
  /\ request[r] = "pending"

Approve(r) ==
  /\ CanDecide(r)
  /\ ~RunnerLost
  /\ request' = [request EXCEPT ![r] = "succeeded"]
  /\ recovery' = [recovery EXCEPT ![r].approval = "approved",
                                  ![r].version = @ + 1]
  /\ Restamp(r, {"started", "progress", "lease"})
  /\ UNCHANGED <<control, command, incident, heartbeatAge, requestAge>>

Reject(r) ==
  /\ CanDecide(r)
  /\ request' = [request EXCEPT ![r] = "blocked"]
  /\ recovery' = [recovery EXCEPT ![r] =
                    [status |-> "blocked", approval |-> "rejected",
                     version |-> recovery[r].version + 1]]
  /\ EndIncident(r, "needs_human", "pending")
  /\ SetCommandStatus(r, "complete")
  /\ ReleaseToRestoration(r)
  /\ Forget(r)
  /\ UNCHANGED <<heartbeatAge, requestAge>>

-----------------------------------------------------------------------------
(* The two-second cron. *)

\* Mutant of Overdue: a runner that beats may take for ever.
OverdueWithoutRunner(r) == RunnerLost

Overdue(r) == RunnerLost \/ RunDeadlineReached(r) \/ StepDeadlineReached(r)

\* watchActiveRun.  Its branches for an active command that is missing or
\* already finished are dead: see RunLock.
WatchActiveRun(r) ==
  /\ control.active = r
  /\ \/ PendingApproval(r) /\ RunnerLost /\ FailRun(r)
     \/ /\ PendingApproval(r) /\ ~RunnerLost
        /\ ApprovalExpired(r)
        /\ ExpireApproval(r)
     \/ ~PendingApproval(r) /\ Overdue(r) /\ FailRun(r)
  /\ UNCHANGED <<heartbeatAge, requestAge>>

-----------------------------------------------------------------------------
(* convex/runner.ts: the runner. *)

\* cleanExpiredActiveRun has something to close.
NeedsCleaning(r) ==
  IF PendingApproval(r)
    THEN ApprovalExpired(r)
    ELSE \/ command[r].status = "queued" /\ CommandExpired(r)
         \/ command[r].status \in Claimed /\ LeaseExpired(r)

\* heartbeat: closes an expired run first, keeps the lease of a run that waits
\* for a decision, and only then records the beat.
HeartbeatIdle ==
  /\ \A r \in Run : control.active = r =>
       ~NeedsCleaning(r) /\ ~PendingApproval(r)
  /\ heartbeatAge' = 0
  /\ UNCHANGED <<tables, since, requestAge>>

HeartbeatWaiting(r) ==
  /\ control.active = r
  /\ PendingApproval(r) /\ ~NeedsCleaning(r)
  /\ Restamp(r, {"lease"})
  /\ heartbeatAge' = 0
  /\ UNCHANGED <<tables, requestAge>>

HeartbeatCleaning(r) ==
  /\ control.active = r
  /\ NeedsCleaning(r)
  /\ \/ PendingApproval(r) /\ ExpireApproval(r)
     \/ ~PendingApproval(r) /\ FailRun(r)
  /\ heartbeatAge' = 0
  /\ UNCHANGED requestAge

RenewLease(r, cv) ==
  /\ RequireClaimed(r, cv, Claimed)
  /\ Restamp(r, {"lease"})
  /\ UNCHANGED <<tables, heartbeatAge, requestAge>>

FailDemoCommand(r, cv) ==
  /\ RequireClaimed(r, cv, Claimed)
  /\ control.active = r /\ control.incident = NoRun
  /\ FailRun(r)
  /\ UNCHANGED <<heartbeatAge, requestAge>>

CanClaim(r, cv) ==
  /\ command[r].status = "queued" /\ command[r].version = cv
  /\ control.active = r /\ control.incident = NoRun

ClaimDemoCommand(r, cv) ==
  /\ CanClaim(r, cv)
  /\ ~CommandExpired(r)
  /\ SetCommandStatus(r, "claimed")
  /\ Restamp(r, {"started", "lease"})
  /\ UNCHANGED <<control, incident, recovery, request, heartbeatAge, requestAge>>

ClaimExpiredCommand(r, cv) ==
  /\ CanClaim(r, cv)
  /\ CommandExpired(r)
  /\ FailRun(r)
  /\ UNCHANGED <<heartbeatAge, requestAge>>

\* markResetApplied and markFailureConfirmed
MarkProgress(r, cv, from, to) ==
  /\ RequireClaimed(r, cv, {from})
  /\ SetCommandStatus(r, to)
  /\ Restamp(r, {"lease"})
  /\ UNCHANGED <<control, incident, recovery, request, heartbeatAge, requestAge>>

MarkResetApplied(r, cv) == MarkProgress(r, cv, "claimed", "reset_applied")
MarkFailureConfirmed(r, cv) ==
  MarkProgress(r, cv, "reset_applied", "failure_confirmed")

CreateIncident(r, cv) ==
  /\ RequireClaimed(r, cv, {"failure_confirmed"})
  /\ incident[r].phase = "none"
  /\ control.active = r /\ control.incident = NoRun
  /\ incident' = [incident EXCEPT ![r] =
                    [phase |-> "failed_detected", version |-> 0,
                     diagnosis |-> "none", environment |-> "none"]]
  /\ control' = [control EXCEPT !.incident = r]
  /\ UNCHANGED <<command, recovery, request, ages>>

\* A step sent without an incident carries this instead of its version.
NoVersion == -1

RequireStepTarget(r, cv, iv) ==
  /\ RequireClaimed(r, cv, Claimed)
  /\ iv = NoVersion \/ RequireActiveIncident(r, iv)

\* A step that finished "age" ticks ago by the runner's clock, which nothing
\* compares with the server's.  A replayed nonce changes nothing.
AppendStep(r, cv, iv, age) ==
  /\ RequireStepTarget(r, cv, iv)
  /\ since' = [since EXCEPT ![r]["progress"] = age]
  /\ UNCHANGED <<tables, heartbeatAge, requestAge>>

\* The approval_requested step.  Its nonce does not depend on time, so a second
\* one is a replay with other timestamps: STEP_REPLAY_MISMATCH.
AppendApprovalRequest(r, cv, iv) ==
  /\ RequireStepTarget(r, cv, iv) /\ iv # NoVersion
  /\ request[r] = "none"
  /\ request' = [request EXCEPT ![r] = "pending"]
  /\ Restamp(r, {"progress"})
  /\ UNCHANGED <<control, command, incident, recovery, heartbeatAge, requestAge>>

RequireIncidentWrite(r, cv, iv, phase) ==
  /\ RequireClaimed(r, cv, {"failure_confirmed"})
  /\ RequireActiveIncident(r, iv)
  /\ incident[r].phase = phase

CreateRecoveryCommand(r, cv, iv) ==
  LET approval == command[r].mode = "approval_required" IN
  /\ RequireIncidentWrite(r, cv, iv, "policy_check")
  /\ incident[r].diagnosis = "actionable"
  /\ recovery[r].status = "none"
  /\ recovery' = [recovery EXCEPT ![r] =
                    [status |-> IF approval THEN "proposed" ELSE "allowed",
                     approval |-> IF approval THEN "pending" ELSE "none",
                     version |-> 0]]
  /\ Restamp(r, IF approval THEN {"lease", "requested"} ELSE {"lease"})
  /\ UNCHANGED <<control, command, incident, request, heartbeatAge, requestAge>>

\* The incident write of updateIncidentPhase, for one allowed phase change.
MovePhase(r, cv, iv, from, to, diagnosis) ==
  /\ RequireIncidentWrite(r, cv, iv, from)
  /\ to \in NextPhases(from) \ Terminal
  /\ incident' = [incident EXCEPT ![r].phase = to,
                                  ![r].diagnosis = diagnosis,
                                  ![r].version = @ + 1]
  /\ Restamp(r, {"lease"})
  /\ UNCHANGED <<control, command, request, heartbeatAge, requestAge>>

\* The diagnosis may be written until policy_check and never after it.
UpdateIncidentPhase(r, cv, iv, from, to, diagnosis) ==
  /\ to \notin {"awaiting_approval", "executing", "verifying"}
  /\ diagnosis # incident[r].diagnosis =>
       /\ diagnosis # "none"
       /\ from \in {"failed_detected", "investigating", "manager_review"}
  /\ MovePhase(r, cv, iv, from, to, diagnosis)
  /\ UNCHANGED recovery

AwaitApproval(r, cv, iv, rv) ==
  /\ recovery[r].version = rv
  /\ command[r].mode = "approval_required"
  /\ recovery[r].status = "proposed" /\ recovery[r].approval = "pending"
  /\ ~ApprovalExpired(r)
  /\ MovePhase(r, cv, iv, "policy_check", "awaiting_approval",
               incident[r].diagnosis)
  /\ UNCHANGED recovery

\* Mutants of MayExecute: the approval is not read again; and the mode is not
\* read, so that the policy alone lets a run skip the visitor.
MayExecuteUnapproved(r, from) ==
  IF from = "awaiting_approval"
    THEN command[r].mode = "approval_required" /\ recovery[r].status = "proposed"
    ELSE command[r].mode = "autonomous" /\ recovery[r].status = "allowed"
MayExecuteByPolicy(r, from) ==
  IF from = "awaiting_approval"
    THEN recovery[r].status = "proposed" /\ recovery[r].approval = "approved"
    ELSE recovery[r].status \in {"allowed", "proposed"}

\* The recovery leaves "proposed" only by the recorded approval, which
\* Approve accepts only before the window ends.
MayExecute(r, from) ==
  IF from = "awaiting_approval"
    THEN /\ command[r].mode = "approval_required"
         /\ recovery[r].status = "proposed"
         /\ recovery[r].approval = "approved"
    ELSE command[r].mode = "autonomous" /\ recovery[r].status = "allowed"

EnterExecuting(r, cv, iv, rv, from) ==
  /\ recovery[r].version = rv
  /\ MayExecute(r, from)
  /\ MovePhase(r, cv, iv, from, "executing", incident[r].diagnosis)
  /\ recovery' = [recovery EXCEPT ![r].status = "executing",
                                  ![r].version = @ + 1]

EnterVerifying(r, cv, iv, rv) ==
  /\ recovery[r].version = rv
  /\ recovery[r].status = "executing"
  /\ MovePhase(r, cv, iv, "executing", "verifying", incident[r].diagnosis)
  /\ recovery' = [recovery EXCEPT ![r].status = "executed",
                                  ![r].version = @ + 1]

\* completeIncident.  It leaves approvalStatus and the request step alone.
CompleteIncident(r, cv, iv, rv, from, terminal) ==
  /\ RequireIncidentWrite(r, cv, iv, from)
  /\ terminal \in NextPhases(from) \intersect Terminal
  /\ recovery[r].status # "none" => recovery[r].version = rv
  /\ from \in {"executing", "verifying"} => recovery[r].status # "none"
  /\ terminal = "resolved" => recovery[r].status = "executed"
  /\ EndIncident(r, terminal,
                 IF terminal = "resolved" THEN "none" ELSE "pending")
  /\ SetCommandStatus(r, IF terminal \in {"resolved", "needs_human"}
                           THEN "complete" ELSE "failed")
  /\ recovery' = IF recovery[r].status = "none" \/ terminal = "resolved"
       THEN recovery
       ELSE [recovery EXCEPT ![r].status = IF terminal = "needs_human"
                                             THEN "blocked" ELSE "failed",
                             ![r].version = @ + 1]
  /\ control' = [control EXCEPT !.active = NoRun, !.incident = NoRun,
                   !.restoring = IF terminal = "resolved" THEN NoRun ELSE r]
  /\ Forget(r)
  /\ UNCHANGED <<request, heartbeatAge, requestAge>>

-----------------------------------------------------------------------------
(* Restoration of the disposable environment after an unresolved run. *)

MoveEnvironment(r, from, to) ==
  /\ control.restoring = r
  /\ incident[r].environment = from
  /\ incident' = [incident EXCEPT ![r].environment = to,
                                  ![r].version = @ + 1]
  /\ UNCHANGED <<command, recovery, request, ages>>

ClaimEnvironmentRecovery(r, iv) ==
  /\ incident[r].version = iv
  /\ MoveEnvironment(r, "pending", "restoring")
  /\ UNCHANGED control

CompleteEnvironmentRecovery(r, iv) ==
  /\ incident[r].version = iv
  /\ MoveEnvironment(r, "restoring", "restored")
  /\ control' = [control EXCEPT !.restoring = NoRun]

FailEnvironmentRecovery(r, iv) ==
  /\ incident[r].version = iv
  /\ incident[r].version < MaxIncidentVersion
  /\ MoveEnvironment(r, "restoring", "pending")
  /\ UNCHANGED control

-----------------------------------------------------------------------------
(* Every mutation, from a caller that knows the current phase and versions: a *)
(* call with any other is rejected.                                           *)

Visitor ==
  \/ \E enabled \in BOOLEAN : SetEnabled(enabled)
  \/ \E r \in Run, mode \in Mode : RequestRun(r, mode)
  \/ \E r \in Run : Approve(r) \/ Reject(r)

Cron == \E r \in Run : WatchActiveRun(r)

Heartbeat ==
  \/ HeartbeatIdle
  \/ \E r \in Run : HeartbeatWaiting(r) \/ HeartbeatCleaning(r)

CommandMutation(r, cv) ==
  \/ RenewLease(r, cv)
  \/ FailDemoCommand(r, cv)
  \/ ClaimDemoCommand(r, cv)
  \/ ClaimExpiredCommand(r, cv)
  \/ MarkResetApplied(r, cv)
  \/ MarkFailureConfirmed(r, cv)
  \/ CreateIncident(r, cv)
  \/ \E iv \in {NoVersion, incident[r].version}, age \in 0..StepDeadline :
       AppendStep(r, cv, iv, age)

IncidentMutation(r, cv, iv, rv) ==
  \/ AppendApprovalRequest(r, cv, iv)
  \/ CreateRecoveryCommand(r, cv, iv)
  \/ \E to \in NextPhases(incident[r].phase), diagnosis \in Diagnosis :
       UpdateIncidentPhase(r, cv, iv, incident[r].phase, to, diagnosis)
  \/ AwaitApproval(r, cv, iv, rv)
  \/ EnterExecuting(r, cv, iv, rv, incident[r].phase)
  \/ EnterVerifying(r, cv, iv, rv)
  \/ \E terminal \in Terminal :
       CompleteIncident(r, cv, iv, rv, incident[r].phase, terminal)
  \/ ClaimEnvironmentRecovery(r, iv)
  \/ CompleteEnvironmentRecovery(r, iv)
  \/ FailEnvironmentRecovery(r, iv)

RunnerMutation ==
  \E r \in Run :
    \/ CommandMutation(r, command[r].version)
    \/ IncidentMutation(r, command[r].version, incident[r].version,
                        recovery[r].version)

-----------------------------------------------------------------------------
(* Properties. *)

TablesOK ==
  /\ control \in [enabled : BOOLEAN, active : Run \union {NoRun},
                  incident : Run \union {NoRun},
                  restoring : Run \union {NoRun},
                  today : BOOLEAN, dayCount : Nat]
  /\ command \in [Run -> [status : CommandStatus, mode : Mode, version : Nat,
                          createdToday : BOOLEAN]]
  /\ incident \in [Run -> [phase : Phase, version : Nat,
                           diagnosis : Diagnosis, environment : Environment]]
  /\ recovery \in [Run -> [status : RecoveryStatus, version : Nat,
                           approval : Approval]]
  /\ request \in [Run -> RequestStep]

AgesOK ==
  /\ since \in [Run -> [Stamp -> Nat]]
  /\ heartbeatAge \in 0..HeartbeatLoss
  /\ requestAge \in 0..RequestCooldown

\* Every row holds what schema.ts lets it hold, and no age passes its cap.
TypeOK == TablesOK /\ AgesOK

\* The lock of demoControl and the rows it points to agree: at most one run is
\* live, it is the active one, and its incident is live exactly while the lock
\* points to it.  Every terminal write of runner.ts and demo.ts patches three
\* tables; one that forgets a table leaves a run that can never be requested
\* again or two runs that drive the same service.
RunLock ==
  \A r \in Run :
    /\ command[r].status \in Live <=> control.active = r
    /\ command[r].status \in {"complete", "failed"}
         <=> incident[r].phase \in Terminal
    /\ incident[r].phase \in LivePhase <=> control.incident = r
    /\ control.incident = r => control.active = r

\* "A new run is denied until ... environment restoration is verified": an
\* unresolved run holds the restoration slot until its restoration is verified,
\* no other run holds it, and no run is live meanwhile.
RestorationGate ==
  /\ \A r \in Run :
       /\ incident[r].environment \in {"pending", "restoring"}
            <=> control.restoring = r
       /\ incident[r].environment # "none"
            <=> incident[r].phase \in Terminal \ {"resolved"}
  /\ control.restoring # NoRun => control.active = NoRun

\* The recovery command and the incident tell the same story in every phase,
\* whichever of the runner, the visitor, the cron and the heartbeat ended the
\* run.
RecoveryMatchesPhase ==
  \A r \in Run :
    LET phase == incident[r].phase
        status == recovery[r].status IN
    /\ status = "executing" <=> phase = "executing"
    /\ status = "executed" <=> phase \in {"verifying", "resolved"}
    /\ status \in {"proposed", "allowed"}
         => phase \in {"policy_check", "awaiting_approval"}
    /\ status = "blocked" => phase = "needs_human"
    /\ status = "failed" => phase \in {"failed_recovery", "investigation_failed"}
    /\ phase = "failed_recovery" => status = "failed"
    /\ phase = "awaiting_approval" => status = "proposed"

\* Nothing that may have executed did so without its authority: an actionable
\* diagnosis and, in approval mode, the visitor's approval.  "failed_recovery"
\* is the outcome of a run that had entered executing.
ExecutionAuthorised ==
  \A r \in Run :
    /\ recovery[r].status # "none" => incident[r].diagnosis = "actionable"
    /\ recovery[r].approval # "none" =>
         recovery[r].status # "none" /\ command[r].mode = "approval_required"
    /\ /\ command[r].mode = "approval_required"
       /\ incident[r].phase \in {"executing", "verifying", "resolved",
                                 "failed_recovery"}
       => recovery[r].approval = "approved"

\* A UTC day never accepts more runs than its cap, though the count is reset
\* only by the first request of the next day.
DailyCapHolds ==
  Cardinality({r \in Run : command[r].createdToday}) <= DailyCap

KeepsOutcome(r) ==
  /\ incident[r].phase \in Terminal =>
       incident'[r].phase = incident[r].phase /\ recovery'[r] = recovery[r]
  /\ command[r].status \in {"complete", "failed"} =>
       command'[r].status = command[r].status

\* A finished run is immutable: late runner calls, the cron and the visitor
\* change neither its outcome nor its command, and restoration is recorded
\* beside the outcome ("a failed incident remains failed").
OutcomeIsFinal == [][\A r \in Run : KeepsOutcome(r)]_vars

KeepsDecision(r) ==
  recovery[r].approval \in {"approved", "rejected", "expired"} =>
    recovery'[r].approval = recovery[r].approval

\* First write wins: a decision, once taken by the visitor, the cron or the
\* heartbeat, is never replaced.
DecisionIsFinal == [][\A r \in Run : KeepsDecision(r)]_vars

\* docs/superpowers/plans/2026-08-31-run-watchdog.md:70 says that the helper
\* that closes an overdue run "expires the cooldown".
ClosingExpiresCooldown ==
  [][\A r \in Run :
       command[r].status \in Live /\ command'[r].status = "failed" =>
         requestAge' = RequestCooldown]_vars

-----------------------------------------------------------------------------
(* The tables seen as the promise of StagedRecovery. *)

StageOf(r) ==
  CASE command[r].status = "none"                    -> "new"
    [] command[r].status = "queued"                  -> "diagnosing"
    [] incident[r].phase = "awaiting_approval"       ->
         IF recovery[r].approval = "approved" THEN "approved" ELSE "waiting"
    [] incident[r].phase = "executing"               -> "restarting"
    [] incident[r].phase = "verifying"               -> "verifying"
    [] incident[r].phase = "resolved"                -> "resolved"
    [] incident[r].phase = "failed_recovery"         -> "failed"
    [] incident[r].phase \in {"needs_human", "investigation_failed"}
                                                     -> "abandoned"
    [] OTHER                                         -> "diagnosing"

Promise == INSTANCE StagedRecovery WITH
  mode <- [r \in Run |-> command[r].mode],
  stage <- [r \in Run |-> StageOf(r)],
  environment <- IF control.active # NoRun THEN "in_use"
                 ELSE IF control.restoring # NoRun THEN "dirty" ELSE "ready"

\* Every mutation, cron tick and heartbeat is a step of the promise or changes
\* nothing it speaks of.
ImplementsPromise == Promise!Spec

-----------------------------------------------------------------------------
Next == Tick \/ NewDay \/ Visitor \/ Cron \/ Heartbeat \/ RunnerMutation

Spec == Init /\ [][Next]_vars
=============================================================================
