------------------------- MODULE CoordinatorProofs -------------------------
(***************************************************************************)
(* What TLAPS proves of the coordinator and the control plane together,    *)
(* for every number of runs, every deadline and any number of crashes:     *)
(* the coordinator only makes moves the control plane allows, the restart  *)
(* of a run is performed at most once and never without permission, no     *)
(* call of a run is awaited beside one of the restoration and no restart   *)
(* sent behind it, a run that waits for the visitor can be closed, a       *)
(* finished run leaves no decision open, and the handlers together keep    *)
(* the rules of the two pure judges.                                       *)
(*                                                                         *)
(* Nothing follows from a fresh snapshot, for none is fresh.  The restart  *)
(* rests on one phase: a program that stands before the restart has itself *)
(* moved the incident to "executing", nobody moves an incident out of that *)
(* phase and back, and a program that merely finds it there never restarts.*)
(*                                                                         *)
(* The decision does not hold of the control plane alone, which lets a     *)
(* runner wait for a decision it never asked for and complete a run whose  *)
(* decision is pending.  It rests on the order of the coordinator's calls, *)
(* and on what never comes undone: a request that was made, a recovery     *)
(* that was proposed, an approval and, from policy_check on, the diagnosis *)
(* all stay as they are, so that a stale copy is still true, if incomplete.*)
(***************************************************************************)
EXTENDS Coordinator, ControlPlaneProofs

\* What a snapshot and its copies hold.
Copies ==
  [run : Run, mode : Mode, status : Live, cv : Nat,
   phase : LivePhase \union {"none"}, iv : Nat, diagnosis : Diagnosis,
   recovery : RecoveryStatus, rv : Nat, approval : Approval, asked : BOOLEAN]

RestorerStage == {"none", "draining", "claim", "ensure", "complete", "fail"}

ProgramOK ==
  /\ pending = NoSnapshot \/ pending \in Copies
  /\ step # "idle" => local \in Copies
  /\ restorer \in [at : RestorerStage, run : Run \union {NoRun}, iv : Nat]
  /\ restorer.at # "none" => restorer.run \in Run

\* Where the restart has been performed, and where it is about to be.  One that
\* was left behind has not been performed yet, and its run never goes on.
RestartRecorded ==
  /\ restarts \in [Run -> {0, 1}]
  /\ \A r \in Run :
       /\ restarts[r] = 1 => incident[r].phase \in
            {"executing", "verifying", "resolved", "failed_recovery"}
       /\ incident[r].phase \in {"verifying", "resolved"} => restarts[r] = 1
  /\ late \subseteq Run
  /\ \A r \in late : /\ restarts[r] = 0
                     /\ incident[r].phase \in {"executing", "failed_recovery"}

BeforeRestart == {"execute", "restarting"}

RestartPending ==
  /\ step \in BeforeRestart =>
       /\ restarts[local.run] = 0 /\ local.run \notin late
       /\ incident[local.run].phase \in {"executing", "failed_recovery"}
       /\ incident[local.run].environment \in {"none", "pending"}
  /\ step = "close_execution" => restarts[local.run] = 1

\* Past the drain, no run is under way.
DrainedFirst == restorer.at \notin {"none", "draining"} => step = "idle"

\* The inductive invariant.
Sound ==
  Consistent /\ ProgramOK /\ RestartRecorded /\ RestartPending /\ DrainedFirst

\* How the tables move in a step that neither records an execution nor claims
\* or completes a restoration.
PhaseFlow(r) ==
  LET from == incident[r].phase
      to == incident'[r].phase IN
  \/ to = from
  \/ from \notin Terminal \union {"executing", "verifying"}
     /\ to \notin {"verifying", "resolved"}
  \/ from = "executing" /\ to = "failed_recovery"
  \/ from = "verifying" /\ to \in {"resolved", "failed_recovery"}

EnvironmentFlow(r) ==
  \/ incident'[r].environment = incident[r].environment
  \/ incident'[r].environment \in {"none", "pending"}

Flow == \A r \in Run : PhaseFlow(r) /\ EnvironmentFlow(r)

USE NoRunIsNotARun DEF NoRunIsNotARun

-----------------------------------------------------------------------------
(* How the tables move. *)

\* A step that leaves the incidents alone.
LEMMA FlowKept == ASSUME UNCHANGED incident PROVE Flow
  BY DEF Flow, PhaseFlow, EnvironmentFlow

\* A run closed by the control plane: FailRun, ExpireApproval, Reject.
LEMMA FlowClosed ==
  ASSUME Consistent, NEW r \in Run, control.active = r,
         \/ PendingApproval(r) /\ ExpireApproval(r)
         \/ Reject(r)
         \/ FailRun(r)
  PROVE  Flow
  <1>1. incident \in [Run -> [phase : Phase, version : Nat,
                             diagnosis : Diagnosis, environment : Environment]]
    BY DEF Consistent, TablesOK
  <1>2. incident[r].phase \notin Terminal
    BY DEF Consistent, Relations, RunLock, Live, Claimed, CommandStatus
  <1>3. ASSUME NEW phase \in Terminal \ {"resolved"}, NEW version,
               incident' = [incident EXCEPT ![r].phase = phase,
                                            ![r].environment = "pending",
                                            ![r].version = version],
               incident[r].phase \in {"executing", "verifying"}
                 => phase = "failed_recovery"
        PROVE  Flow
    BY <1>1, <1>2, <1>3 DEF Flow, PhaseFlow, EnvironmentFlow, Terminal
  <1>4. CASE FailRun(r)
    <2>1. FailedPhase(r) \in Terminal \ {"resolved"}
      BY DEF FailedPhase, Terminal
    <2>2. incident[r].phase \in {"executing", "verifying"}
            => FailedPhase(r) = "failed_recovery"
      BY DEF FailedPhase, Consistent, Relations, RunLock, LivePhase
    <2>. QED  BY <1>3, <1>4, <2>1, <2>2 DEF FailRun
  <1>5. CASE Reject(r)
    <2>1. incident[r].phase = "awaiting_approval"
      BY <1>5 DEF Reject, CanDecide, PendingApproval
    <2>. QED  BY <1>3, <1>5, <2>1 DEF Reject, EndIncident, Terminal
  <1>6. CASE PendingApproval(r) /\ ExpireApproval(r)
    BY <1>3, <1>6 DEF PendingApproval, ExpireApproval, EndIncident, Terminal
  <1>. QED  BY <1>4, <1>5, <1>6

\* The visitor, the cron, the clock and the heartbeat.
LEMMA FlowOfOthers ==
  ASSUME Consistent, Visitor \/ Cron \/ Tick \/ Heartbeat PROVE Flow
  <1>1. ASSUME NEW enabled \in BOOLEAN, SetEnabled(enabled) PROVE Flow
    BY <1>1, FlowKept DEF SetEnabled
  <1>2. ASSUME NEW r \in Run, NEW mode \in Mode, RequestRun(r, mode)
        PROVE  Flow
    BY <1>2, FlowKept DEF RequestRun
  <1>3. ASSUME NEW r \in Run, Approve(r) PROVE Flow
    BY <1>3, FlowKept DEF Approve
  <1>4. ASSUME NEW r \in Run, Reject(r) PROVE Flow
    BY <1>4, FlowClosed DEF Reject, CanDecide
  <1>5. ASSUME NEW r \in Run, WatchActiveRun(r) PROVE Flow
    BY <1>5, FlowClosed DEF WatchActiveRun
  <1>6. CASE Tick
    BY <1>6, FlowKept DEF Tick, tables
  <1>7. CASE HeartbeatIdle
    BY <1>7, FlowKept DEF HeartbeatIdle, tables
  <1>8. ASSUME NEW r \in Run, HeartbeatWaiting(r) PROVE Flow
    BY <1>8, FlowKept DEF HeartbeatWaiting, tables
  <1>9. ASSUME NEW r \in Run, HeartbeatCleaning(r) PROVE Flow
    BY <1>9, FlowClosed DEF HeartbeatCleaning
  <1>. QED
    BY <1>1, <1>2, <1>3, <1>4, <1>5, <1>6, <1>7, <1>8, <1>9
    DEF Visitor, Cron, Heartbeat

\* A mutation of the runner that leaves the incidents alone.
IncidentFree(r, cv, iv) ==
  \/ RenewLease(r, cv) \/ ClaimDemoCommand(r, cv)
  \/ MarkResetApplied(r, cv) \/ MarkFailureConfirmed(r, cv)
  \/ \E age \in 0..StepDeadline : AppendStep(r, cv, iv, age)
  \/ AppendApprovalRequest(r, cv, iv)
  \/ CreateRecoveryCommand(r, cv, iv)

\* It is a mutation of the control plane, and no incident moves.
LEMMA CallsWithoutIncident ==
  ASSUME NEW r \in Run, NEW cv, NEW iv, IncidentFree(r, cv, iv)
  PROVE  RunnerMutation /\ Flow
  <1>1. RunnerMutation
    BY DEF IncidentFree, RunnerMutation, CommandMutation, IncidentMutation,
       RenewLease, ClaimDemoCommand, CanClaim, MarkResetApplied,
       MarkFailureConfirmed, MarkProgress, RequireClaimed, AppendStep,
       AppendApprovalRequest, RequireStepTarget, RequireActiveIncident,
       CreateRecoveryCommand, RequireIncidentWrite
  <1>2. UNCHANGED incident
    BY DEF IncidentFree, RenewLease, ClaimDemoCommand, MarkResetApplied,
       MarkFailureConfirmed, MarkProgress, AppendStep, AppendApprovalRequest,
       CreateRecoveryCommand, tables
  <1>. QED  BY <1>1, <1>2, FlowKept

\* A mutation of the runner that closes a run before its incident.
LEMMA CallsThatFail ==
  ASSUME Consistent, NEW r \in Run, NEW cv,
         FailDemoCommand(r, cv) \/ ClaimExpiredCommand(r, cv)
  PROVE  RunnerMutation /\ Flow
  <1>1. RunnerMutation
    BY DEF RunnerMutation, CommandMutation, FailDemoCommand,
       ClaimExpiredCommand, CanClaim, RequireClaimed
  <1>2. Flow
    BY FlowClosed DEF FailDemoCommand, ClaimExpiredCommand, CanClaim
  <1>. QED  BY <1>1, <1>2

\* A phase change of the runner.
LEMMA FlowOfMove ==
  ASSUME Consistent, NEW r \in Run, NEW cv, NEW iv, NEW from, NEW to,
         NEW diagnosis \in Diagnosis, MovePhase(r, cv, iv, from, to, diagnosis)
  PROVE  /\ from = incident[r].phase /\ to \in NextPhases(from)
         /\ incident'[r].phase = to
         /\ incident'[r].environment = incident[r].environment
         /\ \A q \in Run \ {r} : incident'[q] = incident[q]
         /\ to # "verifying" => Flow
  <1>1. /\ incident[r].phase = from /\ to \in NextPhases(from)
        /\ to \in LivePhase /\ incident'[r].phase = to
        /\ \A q \in Run \ {r} : incident'[q] = incident[q]
    BY PhaseMoves
  <1>2. incident'[r].environment = incident[r].environment
    BY DEF MovePhase, Consistent, TablesOK
  <1>3. ASSUME to # "verifying" PROVE Flow
    <2>1. from \notin Terminal \union {"executing", "verifying"}
      BY <1>1, <1>3 DEF NextPhases, LivePhase, Terminal
    <2>. QED
      BY <1>1, <1>2, <1>3, <2>1
      DEF Flow, PhaseFlow, EnvironmentFlow, LivePhase
  <1>. QED  BY <1>1, <1>2, <1>3

\* The phase changes the run asks for, but the recording of the execution.
LEMMA CallsOfPhase ==
  ASSUME Consistent, NEW r \in Run, NEW cv, NEW iv, NEW rv, NEW from, NEW to,
         NEW diagnosis \in Diagnosis,
         \/ UpdateIncidentPhase(r, cv, iv, from, to, diagnosis)
         \/ AwaitApproval(r, cv, iv, rv)
         \/ EnterExecuting(r, cv, iv, rv, from)
  PROVE  RunnerMutation /\ Flow
  <1>1. incident[r].diagnosis \in Diagnosis
    BY DEF Consistent, TablesOK
  <1>2. CASE UpdateIncidentPhase(r, cv, iv, from, to, diagnosis)
    <2>1. MovePhase(r, cv, iv, from, to, diagnosis) /\ to # "verifying"
      BY <1>2 DEF UpdateIncidentPhase
    <2>2. RunnerMutation
      BY <1>2, <2>1, FlowOfMove
      DEF RunnerMutation, IncidentMutation, UpdateIncidentPhase, MovePhase,
          RequireIncidentWrite, RequireClaimed, RequireActiveIncident
    <2>. QED  BY <2>1, <2>2, FlowOfMove
  <1>3. CASE AwaitApproval(r, cv, iv, rv)
    <2>1. MovePhase(r, cv, iv, "policy_check", "awaiting_approval",
                    incident[r].diagnosis)
      BY <1>3 DEF AwaitApproval
    <2>2. RunnerMutation
      BY <1>3
      DEF RunnerMutation, IncidentMutation, AwaitApproval, MovePhase,
          RequireIncidentWrite, RequireClaimed, RequireActiveIncident
    <2>. QED  BY <1>1, <2>1, <2>2, FlowOfMove
  <1>4. CASE EnterExecuting(r, cv, iv, rv, from)
    <2>1. MovePhase(r, cv, iv, from, "executing", incident[r].diagnosis)
      BY <1>4 DEF EnterExecuting
    <2>2. RunnerMutation
      BY <1>4
      DEF RunnerMutation, IncidentMutation, EnterExecuting, MovePhase,
          RequireIncidentWrite, RequireClaimed, RequireActiveIncident
    <2>. QED  BY <1>1, <2>1, <2>2, FlowOfMove
  <1>. QED  BY <1>2, <1>3, <1>4

\* The incident is opened.
LEMMA CallThatOpens ==
  ASSUME Consistent, NEW r \in Run, NEW cv, CreateIncident(r, cv)
  PROVE  RunnerMutation /\ Flow
  <1>1. RunnerMutation
    BY DEF RunnerMutation, CommandMutation, CreateIncident, RequireClaimed
  <1>2. /\ incident'[r].phase = "failed_detected"
        /\ incident'[r].environment = "none"
        /\ \A q \in Run \ {r} : incident'[q] = incident[q]
    BY DEF CreateIncident, Consistent, TablesOK
  <1>3. incident[r].phase = "none"
    BY DEF CreateIncident
  <1>. QED
    BY <1>1, <1>2, <1>3 DEF Flow, PhaseFlow, EnvironmentFlow, Terminal

\* The run is completed.
LEMMA CallThatCompletes ==
  ASSUME Consistent, NEW r \in Run, NEW cv, NEW iv, NEW rv, NEW from,
         NEW terminal, CompleteIncident(r, cv, iv, rv, from, terminal)
  PROVE  RunnerMutation /\ Flow
  <1>1. /\ incident[r].phase = from /\ command[r].version = cv
        /\ incident[r].version = iv
        /\ terminal \in NextPhases(from) \intersect Terminal
    BY DEF CompleteIncident, RequireIncidentWrite, RequireClaimed,
       RequireActiveIncident
  <1>2. RunnerMutation
    <2>1. CASE recovery[r].version = rv
      BY <1>1, <2>1 DEF RunnerMutation, IncidentMutation
    <2>2. CASE recovery[r].status = "none"
      <3>1. CompleteIncident(r, cv, iv, recovery[r].version, from, terminal)
        BY <2>2 DEF CompleteIncident
      <3>. QED  BY <1>1, <3>1 DEF RunnerMutation, IncidentMutation
    <2>. QED  BY <2>1, <2>2 DEF CompleteIncident
  <1>3. /\ incident'[r].phase = terminal
        /\ incident'[r].environment \in {"none", "pending"}
        /\ \A q \in Run \ {r} : incident'[q] = incident[q]
    BY DEF CompleteIncident, EndIncident, Consistent, TablesOK
  <1>4. PhaseFlow(r)
    BY <1>1, <1>3 DEF PhaseFlow, NextPhases, Terminal
  <1>. QED  BY <1>2, <1>3, <1>4 DEF Flow, PhaseFlow, EnvironmentFlow

\* The restoration moves no phase.
LEMMA CallsOfRestoration ==
  ASSUME Consistent, NEW r \in Run, NEW iv,
         \/ ClaimEnvironmentRecovery(r, iv)
         \/ CompleteEnvironmentRecovery(r, iv)
         \/ FailEnvironmentRecovery(r, iv)
  PROVE  RunnerMutation /\ \A q \in Run : PhaseFlow(q)
  <1>1. RunnerMutation
    BY DEF RunnerMutation, IncidentMutation, ClaimEnvironmentRecovery,
       CompleteEnvironmentRecovery, FailEnvironmentRecovery
  <1>2. \A q \in Run : incident'[q].phase = incident[q].phase
    BY DEF ClaimEnvironmentRecovery, CompleteEnvironmentRecovery,
       FailEnvironmentRecovery, MoveEnvironment, Consistent, TablesOK
  <1>. QED  BY <1>1, <1>2 DEF PhaseFlow

-----------------------------------------------------------------------------
(* The moves of orchestrator.run that neither enter nor leave the restart. *)

AtTheRestart == {"execute", "restarting", "close_execution"}

\* A move after which nothing about the restart has changed.
Ordinary ==
  /\ [Next]_vars /\ Flow
  /\ UNCHANGED <<restarts, late>>
  /\ step' \notin AtTheRestart \/ (step' = step /\ local' = local)

\* Such a move keeps what is recorded and what is pending of the restart.
LEMMA OrdinaryMove ==
  ASSUME Sound, Ordinary PROVE RestartRecorded' /\ RestartPending'
  <1>1. RestartRecorded'
    BY DEF Sound, RestartRecorded, Ordinary, Flow, PhaseFlow, Terminal
  <1>2. CASE step' \notin AtTheRestart
    BY <1>1, <1>2 DEF RestartPending, AtTheRestart, BeforeRestart
  <1>3. CASE step' \in AtTheRestart /\ step' = step /\ local' = local
    <2>1. local.run \in Run
      BY <1>3 DEF Sound, ProgramOK, Copies, AtTheRestart
    <2>2. PhaseFlow(local.run) /\ EnvironmentFlow(local.run)
      BY <2>1 DEF Ordinary, Flow
    <2>. QED
      BY <1>1, <1>3, <2>1, <2>2
      DEF Sound, RestartPending, BeforeRestart, Ordinary, PhaseFlow,
          EnvironmentFlow, Terminal
  <1>. QED  BY <1>1, <1>2, <1>3 DEF Ordinary

\* A move of the run: it keeps the copies well formed.
RunMove == Ordinary /\ (step' # "idle" => local' \in Copies)

\* A step without a server call does not move the tables.
LEMMA Silent == ASSUME UNCHANGED vars PROVE [Next]_vars /\ Flow
  BY FlowKept DEF vars

\* Neither does a replayed call.
LEMMA Called == ASSUME RunnerMutation PROVE [Next]_vars
  BY DEF Next

\* Where a run resumes, it is not at the restart.
LEMMA ResumesBeforeRestart ==
  ASSUME NEW status \in Live, NEW phase \in LivePhase \union {"none"}
  PROVE  /\ PhaseSteps(phase) \intersect (AtTheRestart \union {"idle"}) = {}
         /\ StatusSteps(status, phase)
              \intersect (AtTheRestart \union {"idle"}) = {}
  <1>1. PhaseSteps(phase) \intersect (AtTheRestart \union {"idle"}) = {}
    BY DEF PhaseSteps, LivePhase, AtTheRestart
  <1>. QED  BY <1>1 DEF StatusSteps, Live, Claimed, AtTheRestart

\* The copies of a run that is under way.
LEMMA CopiesAtHand ==
  ASSUME Sound, step # "idle"
  PROVE  /\ local \in Copies /\ local.run \in Run
         /\ local.cv + 1 \in Nat /\ local.iv + 1 \in Nat /\ local.rv + 1 \in Nat
         /\ local.status \in Live /\ local.diagnosis \in Diagnosis
         /\ local.phase \in LivePhase \union {"none"}
  BY DEF Sound, ProgramOK, Copies

\* Steps that only look at the sandbox, or at the copies.
LookingSteps ==
  InspectForReset \/ ServiceStopped \/ ResetThrows \/ FailureChecked
  \/ Recheck \/ Diagnosed \/ Permit \/ Resume \/ Ambiguous \/ Verified
  \/ Throws

\* They are ordinary, and keep the copies well formed.
LEMMA Looking == ASSUME Sound, LookingSteps PROVE RunMove
  <1>1. step # "idle" /\ UNCHANGED vars /\ UNCHANGED <<restarts, late>>
    BY DEF LookingSteps, InspectForReset, ServiceStopped, ResetThrows,
       FailureChecked, Recheck, Diagnosed, Permit, Resume, Ambiguous,
       Verified, Throws,
       Goto, GotoWith, Finish, Return, outside, InReset
  <1>2. /\ step' \notin AtTheRestart
        /\ \/ step' = "idle" \/ local' = local
           \/ \E diagnosis \in Diagnosis :
                local' = [local EXCEPT !.diagnosis = diagnosis]
    BY DEF LookingSteps, InspectForReset, ServiceStopped, ResetThrows,
       FailureChecked, Recheck, Diagnosed, Permit, Resume, Ambiguous,
       Verified, Throws,
       Goto, GotoWith, Finish, Return, outside, InReset, AtTheRestart
  <1>3. step' # "idle" => local' \in Copies
    BY <1>1, <1>2, CopiesAtHand DEF Copies
  <1>. QED  BY <1>1, <1>2, <1>3, Silent DEF RunMove, Ordinary

\* Steps that call the control plane and may find their own earlier effect.
MarkingSteps == Begin \/ Claim \/ ResetMarked \/ FailureMarked

\* They are ordinary, and the copies follow the new status.
LEMMA Marking == ASSUME Sound, MarkingSteps PROVE RunMove
  <1>. DEFINE r == local.run
  <1>1. step # "idle" /\ UNCHANGED <<restarts, late>>
    BY DEF MarkingSteps, Begin, Claim, ResetMarked, FailureMarked, Goto,
       GotoWith, Return, outside
  <1>2. r \in Run
    BY <1>1, CopiesAtHand
  <1>3. \/ UNCHANGED vars
        \/ \E cv : IncidentFree(r, cv, NoVersion)
        \/ \E cv : FailDemoCommand(r, cv) \/ ClaimExpiredCommand(r, cv)
    BY DEF MarkingSteps, Begin, Claim, ResetMarked, FailureMarked, Replayed,
       IncidentFree
  <1>4. [Next]_vars /\ Flow
    BY <1>2, <1>3, Silent, Called, CallsWithoutIncident, CallsThatFail
    DEF Sound
  <1>5. CASE Begin
    <2>1. PICK next \in StatusSteps(local.status, local.phase) : Goto(next)
      BY <1>5 DEF Begin
    <2>2. next \notin AtTheRestart
      BY <1>1, CopiesAtHand, ResumesBeforeRestart
    <2>. QED
      BY <1>1, <1>4, <2>1, <2>2, CopiesAtHand DEF RunMove, Ordinary, Goto
  <1>6. CASE Claim \/ ResetMarked \/ FailureMarked
    <2>. DEFINE cv == local.cv + 1
    <2>1. /\ step' \notin AtTheRestart
          /\ \/ step' = "idle"
             \/ \E status \in Live :
                  local' = [local EXCEPT !.status = status, !.cv = cv]
      BY <1>6 DEF Claim, ResetMarked, FailureMarked, GotoWith, Return,
         AtTheRestart, Live, Claimed
    <2>2. cv \in Nat
      BY <1>1, CopiesAtHand
    <2>. HIDE DEF cv
    <2>3. step' # "idle" => local' \in Copies
      BY <1>1, <2>1, <2>2, CopiesAtHand DEF Copies
    <2>. QED  BY <1>1, <1>4, <2>1, <2>3 DEF RunMove, Ordinary
  <1>. QED  BY <1>5, <1>6 DEF MarkingSteps

\* Steps that report to the timeline.
ReportingSteps ==
  ResetReported \/ FailureReported \/ EvidenceCollected \/ EvidenceFails
  \/ DiagnosisReported \/ Reviewed \/ PolicyReported \/ Asked
  \/ RestartFailureReported \/ ExecutionReported \/ VerificationReported

\* They are ordinary: the timeline decides nothing.
LEMMA Reporting == ASSUME Sound, ReportingSteps PROVE RunMove
  <1>. DEFINE r == local.run
  <1>1. /\ step # "idle" /\ UNCHANGED <<restarts, late>> /\ local' = local
        /\ \/ step' \in PhaseSteps(local.phase)
           \/ step' \notin AtTheRestart
    BY DEF ReportingSteps, ResetReported, FailureReported, EvidenceCollected,
       EvidenceFails, DiagnosisReported, Reviewed, PolicyReported, Asked,
       RestartFailureReported, ExecutionReported, VerificationReported, Goto,
       Finish, outside, AtTheRestart
  <1>2. UNCHANGED vars \/ \E cv, iv : IncidentFree(r, cv, iv)
    BY DEF ReportingSteps, ResetReported, FailureReported, EvidenceCollected,
       EvidenceFails, DiagnosisReported, Reviewed, PolicyReported, Asked,
       RestartFailureReported, ExecutionReported, VerificationReported,
       Report, IncidentFree
  <1>3. [Next]_vars /\ Flow
    BY <1>1, <1>2, CopiesAtHand, Silent, Called, CallsWithoutIncident
  <1>4. step' \notin AtTheRestart
    BY <1>1, CopiesAtHand, ResumesBeforeRestart
  <1>. QED  BY <1>1, <1>3, <1>4, CopiesAtHand DEF RunMove, Ordinary

\* Steps that end the run, or return while it waits.
EndingSteps == FailEarly \/ Completed \/ Awaiting

\* They are ordinary, and leave no copies behind.
LEMMA Ending == ASSUME Sound, EndingSteps PROVE RunMove
  <1>. DEFINE r == local.run
  <1>1. step # "idle" /\ UNCHANGED <<restarts, late>> /\ step' = "idle"
    BY DEF EndingSteps, FailEarly, Completed, Awaiting, Return, outside
  <1>2. r \in Run
    BY <1>1, CopiesAtHand
  <1>3. ASSUME FailEarly PROVE RunnerMutation /\ Flow
    BY <1>2, <1>3, CallsThatFail DEF FailEarly, Sound
  <1>4. ASSUME Completed PROVE RunnerMutation /\ Flow
    BY <1>2, <1>4, CallThatCompletes DEF Completed, Sound
  <1>5. ASSUME Awaiting PROVE RunnerMutation /\ Flow
    <2>1. local.diagnosis \in Diagnosis
      BY <1>1, CopiesAtHand
    <2>. QED  BY <1>2, <1>5, <2>1, CallsOfPhase DEF Awaiting, Sound
  <1>. QED
    BY <1>1, <1>3, <1>4, <1>5, Called DEF EndingSteps, RunMove, Ordinary,
       AtTheRestart

\* Steps that move the incident on, short of the restart.
PhaseSteppers == Investigate \/ ReviewOpened \/ ReviewClosed

\* They are ordinary, and the copies follow the new phase.
LEMMA Advancing == ASSUME Sound, PhaseSteppers PROVE RunMove
  <1>. DEFINE r == local.run
              iv == local.iv + 1
  <1>1. step # "idle" /\ UNCHANGED <<restarts, late>>
    BY DEF PhaseSteppers, Investigate, ReviewOpened, ReviewClosed, GotoWith,
       outside
  <1>2. \E from, to : Advance(from, to, local.diagnosis)
    BY DEF PhaseSteppers, Investigate, ReviewOpened, ReviewClosed
  <1>3. RunnerMutation /\ Flow
    BY <1>1, <1>2, CopiesAtHand, CallsOfPhase DEF Advance, Sound
  <1>4. /\ step' \notin AtTheRestart
        /\ \E phase \in LivePhase :
             local' = [local EXCEPT !.phase = phase, !.iv = iv]
    BY DEF PhaseSteppers, Investigate, ReviewOpened, ReviewClosed, GotoWith,
       AtTheRestart, LivePhase
  <1>5. iv \in Nat
    BY <1>1, CopiesAtHand
  <1>. HIDE DEF iv
  <1>6. local' \in Copies
    BY <1>1, <1>4, <1>5, CopiesAtHand DEF Copies
  <1>. QED  BY <1>1, <1>3, <1>4, <1>6, Called DEF RunMove, Ordinary

\* The incident is opened, or found; so is the recovery command.
OpeningSteps == IncidentOpened \/ Proposed

\* They are ordinary, and the copies take over the row that was found.
LEMMA Opening == ASSUME Sound, OpeningSteps PROVE RunMove
  <1>. DEFINE r == local.run
  <1>1. /\ step # "idle" /\ UNCHANGED <<restarts, late>>
        /\ step' \notin AtTheRestart
    BY DEF OpeningSteps, IncidentOpened, Proposed, GotoWith, outside,
       AtTheRestart
  <1>2. \/ UNCHANGED vars
        \/ \E cv : CreateIncident(r, cv)
        \/ \E cv, iv : IncidentFree(r, cv, iv)
    BY DEF OpeningSteps, IncidentOpened, Proposed, IncidentFree
  <1>3. [Next]_vars /\ Flow
    BY <1>1, <1>2, CopiesAtHand, Silent, Called, CallThatOpens,
       CallsWithoutIncident
    DEF Sound
  <1>4. Consistent'
    BY <1>3, EveryStep DEF Sound, GoodStep
  <1>. DEFINE iv == incident'[r].version
              rv == recovery'[r].version
  <1>5. iv \in Nat /\ rv \in Nat
    BY <1>1, <1>4, CopiesAtHand DEF Consistent, TablesOK
  <1>6. \/ local' = [local EXCEPT !.phase = "failed_detected", !.iv = iv]
        \/ \E status \in RecoveryStatus, approval \in Approval :
             local' = [local EXCEPT !.recovery = status,
                                    !.approval = approval, !.rv = rv]
    BY DEF OpeningSteps, IncidentOpened, Proposed, GotoWith, RecoveryStatus,
       Approval
  <1>. HIDE DEF iv, rv
  <1>7. local' \in Copies
    BY <1>1, <1>5, <1>6, CopiesAtHand DEF Copies, LivePhase
  <1>. QED  BY <1>1, <1>3, <1>7 DEF RunMove, Ordinary

-----------------------------------------------------------------------------
(* The restart. *)

\* No restart of a run whose environment is being restored, but for one that was
\* left behind before.
SentBefore ==
  \A r \in Run : incident[r].environment \notin {"none", "pending"} =>
    /\ step' = "restarting" => step = "restarting" \/ local'.run # r
    /\ r \in late' => r \in late
    /\ restarts'[r] # restarts[r] => r \in late

\* What a move of the run does.
SoundMove ==
  /\ [Next]_vars
  /\ RestartRecorded' /\ RestartPending' /\ SentBefore
  /\ step' # "idle" => local' \in Copies

LEMMA OrdinaryIsSound == ASSUME Sound, RunMove PROVE SoundMove
  BY OrdinaryMove DEF RunMove, SoundMove, Ordinary, SentBefore, AtTheRestart

\* The incident enters "executing" by this program's own call, and only an
\* incident that was never restarted can.
LEMMA EnteringExecution == ASSUME Sound, Entered PROVE SoundMove
  <1>. DEFINE r == local.run
              iv == local.iv + 1
              rv == local.rv + 1
  <1>1. /\ step # "idle" /\ step' = "execute" /\ UNCHANGED <<restarts, late>>
        /\ EnterExecuting(r, local.cv, local.iv, local.rv, local.phase)
        /\ local' = [local EXCEPT !.phase = "executing", !.iv = iv,
                                  !.recovery = "executing", !.rv = rv]
    BY DEF Entered, GotoWith, outside
  <1>2. /\ local \in Copies /\ r \in Run /\ iv \in Nat /\ rv \in Nat
        /\ incident[r].diagnosis \in Diagnosis
    BY <1>1, CopiesAtHand DEF Sound, Consistent, TablesOK
  <1>3. RunnerMutation /\ Flow
    BY <1>1, <1>2, CallsOfPhase DEF Sound
  <1>4. MovePhase(r, local.cv, local.iv, local.phase, "executing",
                  incident[r].diagnosis)
    BY <1>1 DEF EnterExecuting
  <1>5. /\ incident[r].phase = local.phase
        /\ "executing" \in NextPhases(local.phase)
        /\ incident'[r].phase = "executing"
        /\ incident'[r].environment = incident[r].environment
    BY <1>2, <1>4, FlowOfMove DEF Sound
  <1>. HIDE DEF iv, rv
  <1>6. local' \in Copies /\ local'.run = r
    BY <1>1, <1>2 DEF Copies, LivePhase, RecoveryStatus
  <1>7. incident[r].phase \in {"policy_check", "awaiting_approval"}
    BY <1>5 DEF NextPhases
  <1>8. restarts[r] = 0 /\ incident[r].environment = "none"
    <2>1. restarts[r] = 0
      BY <1>2, <1>7 DEF Sound, RestartRecorded
    <2>2. incident[r].environment = "none"
      BY <1>2, <1>7 DEF Sound, Consistent, Relations, RestorationGate, Terminal
    <2>. QED  BY <2>1, <2>2
  <1>9. RestartRecorded'
    BY <1>1, <1>3 DEF Sound, RestartRecorded, Flow, PhaseFlow, Terminal
  <1>10. RestartPending'
    <2>1. r \notin late
      BY <1>7 DEF Sound, RestartRecorded
    <2>. QED  BY <1>1, <1>5, <1>6, <1>8, <2>1 DEF RestartPending, BeforeRestart
  <1>. QED
    BY <1>1, <1>3, <1>6, <1>9, <1>10, Called DEF SoundMove, SentBefore

\* The request leaves for the sandbox.
LEMMA SendingRestart == ASSUME Sound, RestartSent PROVE SoundMove
  <1>1. /\ step = "execute" /\ step' = "restarting" /\ local' = local
        /\ UNCHANGED <<restarts, late>> /\ UNCHANGED vars
    BY DEF RestartSent, Goto, outside
  <1>2. UNCHANGED incident
    BY <1>1 DEF vars
  <1>3. RestartRecorded'
    BY <1>1, <1>2 DEF Sound, RestartRecorded
  <1>4. RestartPending'
    BY <1>1, <1>2 DEF Sound, RestartPending, BeforeRestart
  <1>5. SentBefore
    BY <1>1 DEF Sound, RestartPending, BeforeRestart, SentBefore
  <1>. QED  BY <1>1, <1>3, <1>4, <1>5, CopiesAtHand DEF SoundMove

\* What becomes of the restart under way: it is the first of its run, which is
\* still executing or was ended by the control plane meanwhile.
LEMMA LeavingRestart ==
  ASSUME Sound, step = "restarting", step' # "restarting", UNCHANGED vars,
         \/ Perform(local.run) /\ UNCHANGED late
         \/ Unanswered
  PROVE  /\ RestartRecorded' /\ SentBefore
         /\ Perform(local.run) => restarts'[local.run] = 1
  <1>1. local.run \in Run
    BY CopiesAtHand
  <1>2. /\ restarts[local.run] = 0 /\ local.run \notin late
        /\ incident[local.run].phase \in {"executing", "failed_recovery"}
        /\ incident[local.run].environment \in {"none", "pending"}
    BY DEF Sound, RestartPending, BeforeRestart
  <1>3. UNCHANGED incident
    BY DEF vars
  <1>4. CASE Perform(local.run) /\ UNCHANGED late
    <2>1. restarts' = [restarts EXCEPT ![local.run] = 1]
      BY <1>2, <1>4 DEF Perform
    <2>. QED
      BY <1>1, <1>2, <1>3, <1>4, <2>1 DEF Sound, RestartRecorded, SentBefore
  <1>5. CASE UNCHANGED <<restarts, late>>
    BY <1>1, <1>2, <1>3, <1>5 DEF Sound, RestartRecorded, SentBefore, Perform
  <1>6. CASE late' = late \union {local.run} /\ UNCHANGED restarts
    BY <1>1, <1>2, <1>3, <1>6 DEF Sound, RestartRecorded, SentBefore, Perform
  <1>. QED  BY <1>4, <1>5, <1>6 DEF Unanswered

\* The sandbox answers, or the call fails or is given up.
LEMMA ReturningRestart == ASSUME Sound, RestartReturns PROVE SoundMove
  <1>1. /\ step = "restarting" /\ local' = local /\ UNCHANGED vars
        /\ \/ step' = "close_execution" /\ Perform(local.run) /\ UNCHANGED late
           \/ step' = "report_no_restart" /\ Unanswered
    BY DEF RestartReturns
  <1>2. /\ RestartRecorded' /\ SentBefore
        /\ Perform(local.run) => restarts'[local.run] = 1
    BY <1>1, LeavingRestart
  <1>3. RestartPending'
    BY <1>1, <1>2 DEF RestartPending, BeforeRestart
  <1>. QED  BY <1>1, <1>2, <1>3, CopiesAtHand DEF SoundMove

\* The execution is recorded after it was performed.
LEMMA ClosingExecution == ASSUME Sound, ExecutionClosed PROVE SoundMove
  <1>. DEFINE r == local.run
              iv == local.iv + 1
              rv == local.rv + 1
  <1>1. /\ step = "close_execution" /\ step' = "report_executed"
        /\ UNCHANGED <<restarts, late>>
        /\ EnterVerifying(r, local.cv, local.iv, local.rv)
        /\ local' = [local EXCEPT !.phase = "verifying", !.iv = iv,
                                  !.recovery = "executed", !.rv = rv]
    BY DEF ExecutionClosed, GotoWith, outside
  <1>2. /\ local \in Copies /\ r \in Run /\ iv \in Nat /\ rv \in Nat
        /\ incident[r].diagnosis \in Diagnosis /\ restarts[r] = 1
    BY <1>1, CopiesAtHand DEF Sound, Consistent, TablesOK, RestartPending
  <1>3. RunnerMutation
    BY <1>1, <1>2
    DEF RunnerMutation, IncidentMutation, EnterVerifying, MovePhase,
        RequireIncidentWrite, RequireClaimed, RequireActiveIncident
  <1>4. MovePhase(r, local.cv, local.iv, "executing", "verifying",
                  incident[r].diagnosis)
    BY <1>1 DEF EnterVerifying
  <1>5. /\ incident'[r].phase = "verifying"
        /\ \A q \in Run \ {r} : incident'[q] = incident[q]
    BY <1>2, <1>4, FlowOfMove DEF Sound
  <1>. HIDE DEF iv, rv
  <1>6. local' \in Copies
    BY <1>1, <1>2 DEF Copies, LivePhase, RecoveryStatus
  <1>7. RestartRecorded'
    BY <1>1, <1>2, <1>5 DEF Sound, RestartRecorded
  <1>8. RestartPending'
    BY <1>1 DEF RestartPending, BeforeRestart
  <1>. QED
    BY <1>1, <1>3, <1>6, <1>7, <1>8, Called DEF SoundMove, SentBefore

\* Every move of orchestrator.run.
LEMMA RunIsSound ==
  ASSUME Sound, RunStep
  PROVE  SoundMove /\ step # "idle" /\ UNCHANGED <<pending, restorer>>
  <1>1. SoundMove
    <2>1. CASE Entered \/ RestartSent \/ RestartReturns \/ ExecutionClosed
      BY <2>1, EnteringExecution, SendingRestart, ReturningRestart,
         ClosingExecution
    <2>2. CASE LookingSteps \/ MarkingSteps \/ ReportingSteps
      BY <2>2, Looking, Marking, Reporting, OrdinaryIsSound
    <2>3. CASE EndingSteps \/ PhaseSteppers \/ OpeningSteps
      BY <2>3, Ending, Advancing, Opening, OrdinaryIsSound
    <2>. QED
      BY <2>1, <2>2, <2>3
      DEF RunStep, LookingSteps, MarkingSteps, ReportingSteps, EndingSteps,
          PhaseSteppers, OpeningSteps
  <1>2. step # "idle" /\ UNCHANGED <<pending, restorer>>
    BY DEF RunStep, Begin, Claim, InspectForReset, ServiceStopped, ResetMarked,
       ResetReported, ResetThrows, FailEarly, FailureChecked, FailureMarked,
       FailureReported, IncidentOpened, Investigate, Recheck,
       EvidenceCollected, EvidenceFails, Diagnosed, DiagnosisReported,
       ReviewOpened, Reviewed, ReviewClosed, PolicyReported, Permit, Proposed,
       Asked, Awaiting, Resume, Entered, Ambiguous, RestartSent,
       RestartReturns, RestartFailureReported, ExecutionClosed,
       ExecutionReported, Verified, VerificationReported, Completed, Throws,
       Goto, GotoWith, Finish, Return, outside, InReset
  <1>. QED  BY <1>1, <1>2

-----------------------------------------------------------------------------
(* The loop, the restorer and everybody else. *)

\* A step of anybody but the run keeps the copies or drops them.
BesideTheRun ==
  \/ UNCHANGED <<step, local>>
  \/ step' = "idle"

\* A snapshot is well formed, whenever it was taken.
LEMMA SnapshotsAreCopies ==
  ASSUME Consistent, NEW r \in Run, control.active = r
  PROVE  Snapshot(r) \in Copies
  <1>1. /\ command[r].status \in Live
        /\ incident[r].phase \in LivePhase \union {"none"}
    BY DEF Consistent, TablesOK, Relations, RunLock, Phase, Live, Claimed
  <1>. QED
    BY <1>1 DEF Snapshot, Copies, Consistent, TablesOK

\* What every step does.
SoundStep ==
  /\ [Next]_vars /\ Sound' /\ SentBefore

\* The run moves; the rest of the invariant looks at what it does not touch.
LEMMA RunStepIsSound == ASSUME Sound, RunStep PROVE SoundStep
  <1>1. SoundMove /\ step # "idle" /\ UNCHANGED <<pending, restorer>>
    BY RunIsSound
  <1>2. Consistent'
    BY <1>1, EveryStep DEF SoundMove, Sound, GoodStep
  <1>3. ProgramOK' /\ DrainedFirst'
    BY <1>1 DEF SoundMove, Sound, ProgramOK, DrainedFirst
  <1>. QED  BY <1>1, <1>2, <1>3 DEF SoundMove, SoundStep, Sound

\* A step beside the run that neither restarts nor restores.
LEMMA BesideIsSound ==
  ASSUME Sound, [Next]_vars, Flow, BesideTheRun, UNCHANGED <<restarts, late>>,
         ProgramOK', DrainedFirst'
  PROVE  SoundStep
  <1>1. Consistent'
    BY EveryStep DEF Sound, GoodStep
  <1>2. Ordinary
    BY DEF Ordinary, BesideTheRun, AtTheRestart
  <1>. QED
    BY <1>1, <1>2, OrdinaryMove
    DEF SoundStep, Sound, SentBefore, Ordinary, AtTheRestart

\* Visitor, cron and clock; the lease timer; the start of the process.
LEMMA OthersAreSound ==
  ASSUME Sound, Others \/ Start \/ RenewOnTimer PROVE SoundStep
  <1>1. /\ BesideTheRun /\ UNCHANGED <<restarts, late, pending, step, local, restorer>>
    BY DEF Others, Start, RenewOnTimer, mine, BesideTheRun, outside
  <1>2. ProgramOK' /\ DrainedFirst'
    BY <1>1 DEF Sound, ProgramOK, DrainedFirst
  <1>3. [Next]_vars /\ Flow
    <2>1. CASE Others
      BY <2>1, FlowOfOthers DEF Others, Next, Sound
    <2>2. CASE Start
      BY <2>2, Silent DEF Start
    <2>3. CASE RenewOnTimer
      <3>1. CASE UNCHANGED vars
        BY <3>1, Silent
      <3>2. CASE RenewLease(local.run, local.cv)
        <4>1. local.run \in Run
          BY <2>3, CopiesAtHand DEF RenewOnTimer, BeforeTimer
        <4>. QED
          BY <3>2, <4>1, CallsWithoutIncident, Called DEF IncidentFree
      <3>. QED  BY <2>3, <3>1, <3>2 DEF RenewOnTimer
    <2>. QED  BY <2>1, <2>2, <2>3
  <1>. QED  BY <1>1, <1>2, <1>3, BesideIsSound

\* The process dies, perhaps with a restart on its way.
LEMMA CrashIsSound == ASSUME Sound, Crash PROVE SoundStep
  <1>1. /\ pending' = NoSnapshot /\ step' = "idle" /\ UNCHANGED vars
        /\ restorer' = NoRestoration
        /\ \/ UNCHANGED <<restarts, late>>
           \/ step = "restarting" /\ Unanswered
    BY DEF Crash
  <1>2. ProgramOK' /\ DrainedFirst'
    BY <1>1 DEF ProgramOK, RestorerStage, DrainedFirst, NoRestoration
  <1>3. CASE UNCHANGED <<restarts, late>>
    BY <1>1, <1>2, <1>3, Silent, BesideIsSound DEF BesideTheRun
  <1>4. CASE step = "restarting" /\ Unanswered
    <2>1. RestartRecorded' /\ SentBefore
      BY <1>1, <1>4, LeavingRestart
    <2>2. RestartPending'
      BY <1>1 DEF RestartPending, BeforeRestart
    <2>3. Consistent'
      BY <1>1, Silent, EveryStep DEF Sound, GoodStep
    <2>. QED
      BY <1>1, <1>2, <2>1, <2>2, <2>3, Silent DEF SoundStep, Sound
  <1>. QED  BY <1>1, <1>3, <1>4

\* The agent comes to a restart that was left behind: the first of a run that
\* no program is about to restart.
LEMMA LateRestartIsSound == ASSUME Sound, LateRestart PROVE SoundStep
  <1>1. PICK r \in late :
          /\ Perform(r) /\ late' = late \ {r} /\ UNCHANGED vars
          /\ UNCHANGED <<pending, step, local, restorer>>
    BY DEF LateRestart
  <1>2. /\ r \in Run /\ restarts[r] = 0
        /\ incident[r].phase \in {"executing", "failed_recovery"}
    BY DEF Sound, RestartRecorded
  <1>3. restarts' = [restarts EXCEPT ![r] = 1] /\ UNCHANGED incident
    BY <1>1, <1>2 DEF Perform, vars
  <1>4. Consistent' /\ [Next]_vars
    BY <1>1, Silent, EveryStep DEF Sound, GoodStep
  <1>5. ProgramOK' /\ DrainedFirst'
    BY <1>1 DEF Sound, ProgramOK, DrainedFirst
  <1>6. RestartRecorded'
    BY <1>1, <1>2, <1>3 DEF Sound, RestartRecorded
  <1>7. RestartPending'
    <2>1. CASE step \in BeforeRestart
      <3>1. local.run \in Run /\ local.run # r
        BY <2>1, CopiesAtHand DEF Sound, RestartPending, BeforeRestart
      <3>. QED
        BY <1>1, <1>3, <2>1, <3>1
        DEF Sound, RestartPending, BeforeRestart, RestartRecorded
    <2>2. CASE step = "close_execution"
      <3>1. local.run # r
        BY <1>2, <2>2 DEF Sound, RestartPending
      <3>. QED
        BY <1>1, <1>3, <2>2, <3>1, CopiesAtHand
        DEF Sound, RestartPending, BeforeRestart, RestartRecorded
    <2>. QED  BY <1>1, <2>1, <2>2 DEF RestartPending
  <1>8. SentBefore
    BY <1>1, <1>2, <1>3 DEF Sound, RestartRecorded, SentBefore
  <1>. QED  BY <1>4, <1>5, <1>6, <1>7, <1>8 DEF SoundStep, Sound

\* A snapshot is delivered, and a run starts with it.
LEMMA FeedIsSound == ASSUME Sound, Deliver \/ Take PROVE SoundStep
  <1>1. CASE Deliver
    <2>1. /\ UNCHANGED <<step, local, restorer, restarts, late>> /\ UNCHANGED vars
          /\ \/ pending' = NoSnapshot
             \/ control.active # NoRun /\ pending' = Snapshot(control.active)
      BY <1>1 DEF Deliver
    <2>2. pending' = NoSnapshot \/ pending' \in Copies
      <3>1. CASE control.active # NoRun
        <4>1. control.active \in Run
          BY <3>1 DEF Sound, Consistent, TablesOK
        <4>. QED  BY <2>1, <4>1, SnapshotsAreCopies DEF Sound
      <3>. QED  BY <2>1, <3>1
    <2>3. ProgramOK' /\ DrainedFirst'
      BY <2>1, <2>2 DEF Sound, ProgramOK, DrainedFirst
    <2>. QED  BY <2>1, <2>3, Silent, BesideIsSound DEF BesideTheRun
  <1>2. CASE Take
    <2>1. /\ step' = "start" /\ local' = pending /\ pending \in Copies
          /\ pending' = NoSnapshot /\ restorer.at = "none"
          /\ UNCHANGED <<restorer, restarts, late>> /\ UNCHANGED vars
      BY <1>2 DEF Take, Sound, ProgramOK
    <2>2. ProgramOK' /\ DrainedFirst'
      BY <2>1 DEF Sound, ProgramOK, DrainedFirst
    <2>3. RunMove
      BY <2>1, Silent DEF RunMove, Ordinary, AtTheRestart
    <2>4. Consistent' /\ SoundMove
      BY <2>1, <2>3, Silent, EveryStep, OrdinaryIsSound DEF Sound, GoodStep
    <2>. QED  BY <2>2, <2>4 DEF SoundMove, SoundStep, Sound
  <1>. QED  BY <1>1, <1>2

\* A heartbeat, whether or not it reports a dirty environment.
LEMMA BeatIsSound == ASSUME Sound, BeatQuiet \/ BeatDirty PROVE SoundStep
  <1>1. /\ Heartbeat /\ restorer.at = "none"
        /\ UNCHANGED <<step, local, restarts, late>>
    BY DEF BeatQuiet, BeatDirty
  <1>2. [Next]_vars /\ Flow
    BY <1>1, FlowOfOthers DEF Next, Sound
  <1>3. Consistent'
    BY <1>2, EveryStep DEF Sound, GoodStep
  <1>4. CASE BeatQuiet
    <2>1. UNCHANGED <<pending, restorer>>
      BY <1>4 DEF BeatQuiet
    <2>2. ProgramOK' /\ DrainedFirst'
      BY <1>1, <2>1 DEF Sound, ProgramOK, DrainedFirst
    <2>. QED  BY <1>1, <1>2, <2>2, BesideIsSound DEF BesideTheRun
  <1>5. CASE BeatDirty
    <2>. DEFINE q == control'.restoring
    <2>1. /\ pending' = NoSnapshot
          /\ restorer' = [at |-> "draining", run |-> q,
                          iv |-> incident'[q].version]
          /\ q # NoRun
      BY <1>5 DEF BeatDirty, EnvironmentPending
    <2>2. q \in Run /\ incident'[q].version \in Nat
      BY <1>3, <2>1 DEF Consistent, TablesOK
    <2>3. ProgramOK' /\ DrainedFirst'
      BY <1>1, <2>1, <2>2 DEF Sound, ProgramOK, RestorerStage, DrainedFirst
    <2>. QED  BY <1>1, <1>2, <2>3, BesideIsSound DEF BesideTheRun
  <1>. QED  BY <1>4, <1>5

\* The restoration: what comes after the drain finds no run under way, so it
\* may claim and complete the environment.
LEMMA RestorerIsSound == ASSUME Sound, RestorerStep PROVE SoundStep
  <1>. DEFINE r == restorer.run
  <1>1. /\ restorer.at # "none" /\ UNCHANGED <<pending, step, local, restarts, late>>
        /\ restorer.at # "draining" \/ step = "idle"
    BY DEF RestorerStep, Drained, RestorationClaimed, Ensured, Restored,
       NotRestored, RestoreThrows, RestoreGoto, RestoreEnds, besides
  <1>2. r \in Run /\ step = "idle"
    BY <1>1 DEF Sound, ProgramOK, DrainedFirst
  <1>3. \/ UNCHANGED vars
        \/ \E iv : ClaimEnvironmentRecovery(r, iv)
        \/ \E iv : CompleteEnvironmentRecovery(r, iv)
        \/ \E iv : FailEnvironmentRecovery(r, iv)
    BY DEF RestorerStep, Drained, RestorationClaimed, Ensured, Restored,
       NotRestored, RestoreThrows
  <1>4. [Next]_vars /\ \A q \in Run : PhaseFlow(q)
    BY <1>2, <1>3, Silent, Called, CallsOfRestoration DEF Flow, Sound
  <1>5. Consistent'
    BY <1>4, EveryStep DEF Sound, GoodStep
  <1>6. \/ restorer' = NoRestoration
        \/ \E at \in RestorerStage, iv \in {restorer.iv, incident'[r].version} :
             restorer' = [restorer EXCEPT !.at = at, !.iv = iv]
    BY DEF RestorerStep, Drained, RestorationClaimed, Ensured, Restored,
       NotRestored, RestoreThrows, RestoreGoto, RestoreEnds, RestorerStage
  <1>7. restorer.iv \in Nat /\ incident'[r].version \in Nat
    BY <1>2, <1>5 DEF Sound, ProgramOK, Consistent, TablesOK
  <1>8. /\ restorer' \in [at : RestorerStage, run : Run \union {NoRun}, iv : Nat]
        /\ restorer'.at # "none" => restorer'.run \in Run
    <2>1. CASE restorer' = NoRestoration
      BY <2>1 DEF NoRestoration, RestorerStage
    <2>2. ASSUME NEW at \in RestorerStage, NEW iv \in Nat,
                 restorer' = [restorer EXCEPT !.at = at, !.iv = iv]
          PROVE  /\ restorer' \in [at : RestorerStage,
                                   run : Run \union {NoRun}, iv : Nat]
                 /\ restorer'.run = r
      BY <2>2 DEF Sound, ProgramOK
    <2>. QED  BY <1>2, <1>6, <1>7, <2>1, <2>2
  <1>9. ProgramOK' /\ DrainedFirst'
    BY <1>1, <1>2, <1>8 DEF Sound, ProgramOK, DrainedFirst
  <1>10. RestartRecorded' /\ RestartPending'
    BY <1>1, <1>2, <1>4
    DEF Sound, RestartRecorded, RestartPending, BeforeRestart, PhaseFlow,
        Terminal
  <1>. QED
    BY <1>1, <1>4, <1>5, <1>9, <1>10 DEF SoundStep, Sound, SentBefore

\* Every step of the composition.
LEMMA EveryCoordinatorStep ==
  Sound /\ [CoordinatorNext]_allVars => SoundStep
  <1> SUFFICES ASSUME Sound, [CoordinatorNext]_allVars PROVE SoundStep
    OBVIOUS
  <1>1. CASE UNCHANGED allVars
    <2>1. UNCHANGED vars /\ UNCHANGED <<pending, step, local, restorer, restarts, late>>
      BY <1>1 DEF allVars, mine
    <2>2. ProgramOK' /\ DrainedFirst'
      BY <2>1 DEF Sound, ProgramOK, DrainedFirst
    <2>. QED  BY <2>1, <2>2, Silent, BesideIsSound DEF BesideTheRun
  <1>. QED
    BY <1>1, RunStepIsSound, OthersAreSound, CrashIsSound, FeedIsSound,
       BeatIsSound, RestorerIsSound, LateRestartIsSound
    DEF CoordinatorNext

-----------------------------------------------------------------------------
(* The theorems of the restart. *)

\* The coordinator, the visitor, the cron and the clock make only moves that
\* the control plane allows, so that whatever holds of ControlPlane holds here.
THEOREM CoordinatorIsAControlPlaneUser == CoordinatorSpec => Spec
  <1>1. CoordinatorInit => Init /\ Sound
    BY EmptyTables
    DEF CoordinatorInit, Sound, ProgramOK, RestorerStage, RestartRecorded,
        RestartPending, BeforeRestart, DrainedFirst, NoRestoration, Init,
        NoIncident
  <1>2. Sound /\ [CoordinatorNext]_allVars => Sound' /\ [Next]_vars
    BY EveryCoordinatorStep DEF SoundStep
  <1>. QED  BY <1>1, <1>2, PTL DEF CoordinatorSpec, Spec

\* So every run keeps the promise that its visitor is given, with the runner
\* that there really is.
THEOREM CoordinatorKeepsPromise == CoordinatorSpec => ImplementsPromise
  BY CoordinatorIsAControlPlaneUser, TablesImplementPromise, PTL

\* The inductive invariant of the two together.
THEOREM CoordinatorSound == CoordinatorSpec => []Sound
  <1>1. CoordinatorInit => Sound
    BY EmptyTables
    DEF CoordinatorInit, Sound, ProgramOK, RestorerStage, RestartRecorded,
        RestartPending, BeforeRestart, DrainedFirst, NoRestoration, Init,
        NoIncident
  <1>2. Sound /\ [CoordinatorNext]_allVars => Sound'
    BY EveryCoordinatorStep DEF SoundStep
  <1>. QED  BY <1>1, <1>2, PTL DEF CoordinatorSpec

\* The restart of a run is performed at most once, whatever is lost, stale,
\* repeated or crashed, and was performed when the run is resolved.
THEOREM AtMostOneRestart == CoordinatorSpec => []RestartedOnce
  <1>1. Sound => RestartedOnce
    BY DEF Sound, RestartRecorded, RestartedOnce
  <1>. QED  BY <1>1, CoordinatorSound, PTL

\* No run is restarted that was ended before its restart was permitted, and in
\* approval mode none that the visitor did not approve.
THEOREM RestartsArePermitted == CoordinatorSpec => []RestartNeedsPermission
  <1>1. Sound => RestartNeedsPermission
    BY DEF Sound, RestartRecorded, RestartNeedsPermission, Consistent,
       Relations, ExecutionAuthorised
  <1>. QED  BY <1>1, CoordinatorSound, PTL

\* index.ts, restoreEnvironment: the coordinator never awaits a call of a run
\* and one of the restoration at the same time.
THEOREM OneHand == CoordinatorSpec => []OneHandOnTheSandbox
  <1>1. Sound => OneHandOnTheSandbox
    BY DEF Sound, DrainedFirst, OneHandOnTheSandbox
  <1>. QED  BY <1>1, CoordinatorSound, PTL

\* Once the environment of a run is claimed for restoration, the coordinator has
\* done with its restart: what the agent may still perform was left behind.
THEOREM NoRestartSentAfterClaim ==
  CoordinatorSpec => RestartsSentBeforeRestoration
  <1>1. Sound /\ [CoordinatorNext]_allVars
          => [\A r \in Run : incident[r].environment \notin {"none", "pending"} =>
                /\ step' = "restarting" => step = "restarting" \/ local'.run # r
                /\ r \in late' => r \in late
                /\ restarts'[r] # restarts[r] => r \in late]_allVars
    BY EveryCoordinatorStep DEF SoundStep, SentBefore
  <1>. QED
    BY <1>1, CoordinatorSound, PTL
    DEF CoordinatorSpec, RestartsSentBeforeRestoration

-----------------------------------------------------------------------------
(* The rows of a decision. *)

Late == {"policy_check", "awaiting_approval", "executing", "verifying"}

\* The request step and the decision of a run agree; a recovery that was
\* proposed to the visitor is undecided until the run waits for him.
RowOK(r) ==
  /\ request[r] = "succeeded" <=> recovery[r].approval = "approved"
  /\ request[r] = "blocked" => incident[r].phase \in Terminal
  /\ recovery[r].approval \in {"rejected", "expired"} =>
       incident[r].phase \in Terminal
  /\ /\ incident[r].phase = "policy_check"
     /\ command[r].mode = "approval_required"
     /\ recovery[r].status # "none"
     => recovery[r].status = "proposed" /\ recovery[r].approval = "pending"

RowsOK == \A r \in Run : RowOK(r)

\* What never comes undone in the rows of a run that was requested.
RowFlow(r) ==
  command[r].status # "none" =>
    /\ command'[r].status # "none" /\ command'[r].mode = command[r].mode
    /\ request[r] # "none" => request'[r] # "none"
    /\ recovery[r].status # "none" => recovery'[r].status # "none"
    /\ recovery[r].approval # "none" => recovery'[r].approval # "none"
    /\ recovery[r].approval = "approved" => recovery'[r].approval = "approved"
    /\ incident[r].phase \in Late \union Terminal =>
         /\ incident'[r].phase \in Late \union Terminal
         /\ incident'[r].diagnosis = incident[r].diagnosis

\* A step that asks the visitor for nothing and closes what it ends.
Calm(r) ==
  /\ recovery'[r].approval = "pending" => recovery[r].approval = "pending"
  /\ request'[r] = "pending" => request[r] = "pending"
  /\ request'[r] # "none" => request[r] # "none"
  /\ incident'[r].phase = "awaiting_approval" =>
       incident[r].phase = "awaiting_approval"
  /\ incident'[r].phase \in Terminal =>
       \/ incident[r].phase \in Terminal
       \/ recovery'[r].approval # "pending" /\ request'[r] # "pending"

\* In a composed state a run asked before it waits, and was proposed before it
\* asked.
Asking(r) ==
  /\ incident[r].phase = "awaiting_approval" => request[r] # "none"
  /\ request[r] # "none" => recovery[r].approval # "none"

AllAsking == \A r \in Run : Asking(r)

RowsFlow == RowsOK' /\ \A r \in Run : RowFlow(r)
AllCalm == \A r \in Run : Calm(r)

\* The rows of a run as a step leaves them alone.
RowSame(q) ==
  /\ command'[q].mode = command[q].mode
  /\ command'[q].status = "none" <=> command[q].status = "none"
  /\ incident'[q].phase = incident[q].phase
  /\ incident'[q].diagnosis = incident[q].diagnosis
  /\ recovery'[q] = recovery[q]
  /\ request'[q] = request[q]

LEMMA SameRow ==
  ASSUME NEW q \in Run, RowOK(q), RowSame(q)
  PROVE  RowOK(q)' /\ RowFlow(q) /\ Calm(q)
  BY DEF RowOK, RowSame, RowFlow, Calm

\* A step that leaves all these rows alone.
LEMMA RowsSame ==
  ASSUME RowsOK, \A q \in Run : RowSame(q) PROVE RowsFlow /\ AllCalm
  BY SameRow DEF RowsOK, RowsFlow, AllCalm

\* A step that moves the rows of one run.
LEMMA OneRowMoves ==
  ASSUME RowsOK, NEW r \in Run, RowOK(r)', RowFlow(r),
         \A q \in Run \ {r} : RowSame(q)
  PROVE  RowsFlow /\ (Calm(r) => AllCalm)
  BY SameRow DEF RowsOK, RowsFlow, AllCalm

\* The writes that end a run on behalf of the server or of the visitor.
LEMMA ClosingRows ==
  ASSUME Consistent, RowsOK, NEW r \in Run, control.active = r,
         \/ PendingApproval(r) /\ ExpireApproval(r)
         \/ Reject(r)
         \/ FailRun(r)
  PROVE  RowsFlow /\ (AllAsking => AllCalm)
  <1>1. /\ command[r].status \in Live /\ incident[r].phase \notin Terminal
        /\ RowOK(r)
    BY DEF Consistent, Relations, RunLock, Live, Claimed, RowsOK
  <1>2. /\ command'[r].status \in {"complete", "failed"}
        /\ command'[r].mode = command[r].mode
        /\ \A q \in Run \ {r} : command'[q] = command[q]
    BY DEF Consistent, TablesOK, ExpireApproval, Reject, FailRun,
       SetCommandStatus
  <1>3. /\ incident'[r].phase \in Terminal
        /\ incident'[r].diagnosis = incident[r].diagnosis
        /\ \A q \in Run \ {r} : incident'[q] = incident[q]
    <2>1. CASE (PendingApproval(r) /\ ExpireApproval(r)) \/ Reject(r)
      BY <2>1 DEF Consistent, TablesOK, ExpireApproval, Reject, EndIncident,
         Terminal
    <2>2. CASE FailRun(r)
      <3>1. FailedPhase(r) \in Terminal
        BY DEF FailedPhase, Terminal
      <3>. QED  BY <2>2, <3>1 DEF Consistent, TablesOK, FailRun
    <2>. QED  BY <2>1, <2>2
  <1>4. /\ \A q \in Run \ {r} : recovery'[q] = recovery[q]
        /\ \A q \in Run \ {r} : request'[q] = request[q]
    BY DEF Consistent, TablesOK, ExpireApproval, Reject, FailRun
  <1>5. \A q \in Run \ {r} : RowSame(q)
    BY <1>2, <1>3, <1>4 DEF RowSame
  <1>6. /\ recovery[r].status # "none" => recovery'[r].status # "none"
        /\ recovery[r].approval = "none" => recovery'[r].approval = "none"
        /\ recovery[r].approval = "pending" =>
             recovery'[r].approval \in {"expired", "rejected"}
        /\ recovery[r].approval = "approved" =>
             recovery'[r].approval = "approved"
        /\ request'[r] \in {request[r], "blocked"}
        /\ request'[r] = "blocked"
             <=> (request[r] = "pending" /\ recovery[r].approval = "pending")
    <2>1. CASE (PendingApproval(r) /\ ExpireApproval(r)) \/ Reject(r)
      BY <1>1, <2>1 DEF Consistent, TablesOK, ExpireApproval, Reject,
         CanDecide, PendingApproval
    <2>2. CASE FailRun(r)
      <3>1. /\ recovery[r].approval \in Approval
            /\ recovery[r].status \in RecoveryStatus
            /\ request[r] # "blocked"
            /\ recovery[r].approval = "pending" =>
                 recovery[r].status \notin {"none", "failed", "blocked"}
        BY <1>1 DEF Consistent, TablesOK, Relations, RecoveryMatchesPhase,
           ExecutionAuthorised, RowOK, Terminal
      <3>2. /\ \/ recovery'[r] = recovery[r]
               \/ /\ recovery'[r].status = "failed"
                  /\ recovery'[r].approval = ClosedApproval(r)
            /\ recovery[r].approval = "pending" =>
                 recovery'[r].approval = ClosedApproval(r)
        BY <2>2, <3>1 DEF Consistent, TablesOK, FailRun
      <3>3. request'[r] = IF recovery[r].approval = "pending"
                             /\ request[r] = "pending"
                          THEN "blocked" ELSE request[r]
        BY <2>2 DEF Consistent, TablesOK, FailRun
      <3>. QED  BY <3>1, <3>2, <3>3 DEF ClosedApproval
    <2>. QED  BY <2>1, <2>2
  <1>7. recovery[r].approval \in {"none", "pending", "approved"}
    BY <1>1 DEF RowOK, Consistent, TablesOK, Approval
  <1>8. RowOK(r)'
    BY <1>1, <1>3, <1>6, <1>7 DEF RowOK, Terminal
  <1>9. RowFlow(r)
    BY <1>1, <1>2, <1>3, <1>6, <1>7 DEF RowFlow
  <1>10. ASSUME Asking(r) PROVE Calm(r)
    BY <1>1, <1>3, <1>6, <1>7, <1>10 DEF Calm, Asking, RowOK, Terminal
  <1>. QED
    BY <1>5, <1>8, <1>9, <1>10, OneRowMoves DEF AllAsking

\* The visitor approves.
LEMMA ApprovingRows ==
  ASSUME Consistent, RowsOK, NEW r \in Run, Approve(r)
  PROVE  RowsFlow /\ AllCalm
  <1>1. /\ incident[r].phase = "awaiting_approval"
        /\ recovery[r].approval = "pending" /\ request[r] = "pending"
        /\ command[r].status \in Live
        /\ UNCHANGED <<command, incident>>
    BY DEF Approve, CanDecide, PendingApproval, Consistent, Relations, RunLock
  <1>2. /\ recovery'[r].approval = "approved"
        /\ recovery'[r].status = recovery[r].status
        /\ request'[r] = "succeeded"
        /\ \A q \in Run \ {r} : /\ recovery'[q] = recovery[q]
                                /\ request'[q] = request[q]
    BY DEF Approve, Consistent, TablesOK
  <1>3. RowOK(r)' /\ RowFlow(r) /\ Calm(r)
    BY <1>1, <1>2 DEF RowOK, RowFlow, Calm, Terminal, Late
  <1>. QED  BY <1>1, <1>2, <1>3, OneRowMoves DEF RowSame

\* A new run has none of these rows yet.
LEMMA StartingRows ==
  ASSUME Consistent, RowsOK, NEW r \in Run, NEW mode \in Mode,
         RequestRun(r, mode)
  PROVE  RowsFlow /\ AllCalm
  <1>1. /\ command[r].status = "none" /\ incident[r].phase = "none"
        /\ \A q \in Run \ {r} : command'[q] = command[q]
        /\ UNCHANGED <<incident, recovery, request>>
    <2>1. command[r].status = "none" /\ UNCHANGED <<incident, recovery, request>>
      BY DEF RequestRun
    <2>2. incident[r].phase = "none"
      BY <2>1 DEF Consistent, Relations, TablesOK, RunLock, Phase, Live,
         Claimed
    <2>. QED  BY <2>1, <2>2 DEF RequestRun, Consistent, TablesOK
  <1>2. RowOK(r)' /\ RowFlow(r) /\ Calm(r)
    BY <1>1 DEF RowsOK, RowOK, RowFlow, Calm
  <1>. QED  BY <1>1, <1>2, OneRowMoves DEF RowSame

\* The incident is opened.
LEMMA OpeningRows ==
  ASSUME Consistent, RowsOK, NEW r \in Run, NEW cv, CreateIncident(r, cv)
  PROVE  RowsFlow /\ AllCalm
  <1>1. /\ incident[r].phase = "none"
        /\ incident'[r].phase = "failed_detected"
        /\ \A q \in Run \ {r} : incident'[q] = incident[q]
        /\ UNCHANGED <<command, recovery, request>>
    BY DEF CreateIncident, Consistent, TablesOK
  <1>2. RowOK(r)' /\ RowFlow(r) /\ Calm(r)
    BY <1>1 DEF RowsOK, RowOK, RowFlow, Calm, Late, Terminal
  <1>. QED  BY <1>1, <1>2, OneRowMoves DEF RowSame

\* The recovery is proposed: whoever must be asked has not been.
LEMMA ProposingRows ==
  ASSUME Consistent, RowsOK, NEW r \in Run, NEW cv, NEW iv,
         CreateRecoveryCommand(r, cv, iv)
  PROVE  /\ RowsFlow
         /\ recovery'[r].status # "none"
         /\ \A q \in Run \ {r} : RowSame(q)
         /\ incident'[r].phase = "policy_check"
         /\ UNCHANGED <<command, request>>
  <1>1. /\ incident[r].phase = "policy_check"
        /\ recovery[r].status = "none" /\ recovery[r].approval = "none"
        /\ UNCHANGED <<command, incident, request>>
    BY DEF CreateRecoveryCommand, RequireIncidentWrite, Consistent,
       Relations, TablesOK, ExecutionAuthorised
  <1>2. /\ recovery'[r].status # "none"
        /\ recovery'[r].approval \in {"pending", "none"}
        /\ command[r].mode = "approval_required" =>
             recovery'[r].status = "proposed" /\ recovery'[r].approval = "pending"
        /\ \A q \in Run \ {r} : recovery'[q] = recovery[q]
    BY DEF CreateRecoveryCommand, Consistent, TablesOK
  <1>3. RowOK(r)' /\ RowFlow(r)
    BY <1>1, <1>2 DEF RowsOK, RowOK, RowFlow, Terminal, Late
  <1>. QED  BY <1>1, <1>2, <1>3, OneRowMoves DEF RowSame

\* The visitor is asked.
LEMMA AskingRows ==
  ASSUME Consistent, RowsOK, NEW r \in Run, NEW cv, NEW iv,
         AppendApprovalRequest(r, cv, iv)
  PROVE  /\ RowsFlow
         /\ request[r] = "none" /\ request'[r] = "pending"
         /\ command[r].status \in Live /\ control.active = r
         /\ \A q \in Run \ {r} : RowSame(q)
         /\ UNCHANGED <<command, incident, recovery>>
  <1>1. /\ request[r] = "none" /\ request'[r] = "pending"
        /\ command[r].status \in Live /\ control.active = r
        /\ \A q \in Run \ {r} : request'[q] = request[q]
        /\ UNCHANGED <<command, incident, recovery>>
    BY DEF AppendApprovalRequest, RequireStepTarget, RequireActiveIncident,
       RequireClaimed, Consistent, TablesOK, Live
  <1>2. RowOK(r)' /\ RowFlow(r)
    BY <1>1 DEF RowsOK, RowOK, RowFlow
  <1>. QED  BY <1>1, <1>2, OneRowMoves DEF RowSame

\* A phase change before there is a recovery.
LEMMA InvestigatingRows ==
  ASSUME Consistent, RowsOK, NEW r \in Run, NEW cv, NEW iv, NEW from, NEW to,
         NEW diagnosis, UpdateIncidentPhase(r, cv, iv, from, to, diagnosis)
  PROVE  RowsFlow /\ AllCalm /\ incident'[r].phase = to
         /\ incident'[r].diagnosis = diagnosis
         /\ command[r].status # "none"
  <1>1. /\ MovePhase(r, cv, iv, from, to, diagnosis)
        /\ UNCHANGED <<recovery, request>>
        /\ to \notin {"awaiting_approval", "executing", "verifying"}
    BY DEF UpdateIncidentPhase, MovePhase
  <1>2. /\ incident[r].phase = from /\ incident'[r].phase = to
        /\ command[r].status = "failure_confirmed"
        /\ to \in NextPhases(from) \ Terminal
        /\ \A q \in Run \ {r} : incident'[q] = incident[q]
        /\ UNCHANGED <<command, control>>
    BY <1>1, PhaseViews
  <1>3. incident'[r].diagnosis = diagnosis
    BY <1>1 DEF MovePhase, Consistent, TablesOK
  <1>4. /\ from \in {"failed_detected", "investigating", "manager_review"}
        /\ to \in {"investigating", "manager_review", "policy_check"}
    BY <1>1, <1>2 DEF NextPhases, Terminal
  <1>5. recovery[r].status = "none" /\ recovery[r].approval = "none"
    BY <1>2, <1>4 DEF Consistent, Relations, TablesOK, RecoveryMatchesPhase,
       ExecutionAuthorised, RecoveryStatus
  <1>6. RowOK(r)' /\ RowFlow(r) /\ Calm(r)
    BY <1>1, <1>2, <1>4, <1>5
    DEF RowsOK, RowOK, RowFlow, Calm, Late, Terminal
  <1>. QED  BY <1>1, <1>2, <1>3, <1>6, OneRowMoves DEF RowSame

\* The run starts to wait.
LEMMA AwaitingRows ==
  ASSUME Consistent, RowsOK, NEW r \in Run, NEW cv, NEW iv, NEW rv,
         AwaitApproval(r, cv, iv, rv)
  PROVE  /\ RowsFlow
         /\ incident'[r].phase = "awaiting_approval"
         /\ recovery'[r].approval = "pending"
         /\ \A q \in Run \ {r} : RowSame(q)
         /\ UNCHANGED <<command, recovery, request>>
  <1>1. /\ MovePhase(r, cv, iv, "policy_check", "awaiting_approval",
                     incident[r].diagnosis)
        /\ UNCHANGED <<recovery, request>>
        /\ recovery[r].approval = "pending"
    BY DEF AwaitApproval, MovePhase
  <1>2. /\ incident[r].phase = "policy_check"
        /\ incident'[r].phase = "awaiting_approval"
        /\ \A q \in Run \ {r} : incident'[q] = incident[q]
        /\ UNCHANGED command
    BY <1>1, PhaseViews
  <1>3. incident'[r].diagnosis = incident[r].diagnosis
    BY <1>1 DEF MovePhase, Consistent, TablesOK
  <1>4. RowOK(r)' /\ RowFlow(r)
    BY <1>1, <1>2, <1>3 DEF RowsOK, RowOK, RowFlow, Late, Terminal
  <1>. QED  BY <1>1, <1>2, <1>4, OneRowMoves DEF RowSame

\* The restart is entered, or recorded.
LEMMA ExecutingRows ==
  ASSUME Consistent, RowsOK, NEW r \in Run, NEW cv, NEW iv, NEW rv, NEW from,
         EnterExecuting(r, cv, iv, rv, from) \/ EnterVerifying(r, cv, iv, rv)
  PROVE  /\ RowsFlow /\ AllCalm
         /\ incident'[r].phase \in Late \ {"policy_check"}
         /\ incident'[r].diagnosis = incident[r].diagnosis
         /\ recovery'[r].status # "none"
         /\ command[r].status # "none"
  <1>1. PICK f \in {from, "executing"}, to \in {"executing", "verifying"} :
          MovePhase(r, cv, iv, f, to, incident[r].diagnosis)
    BY DEF EnterExecuting, EnterVerifying
  <1>2. /\ incident[r].phase = f /\ incident'[r].phase = to
        /\ to \in NextPhases(f)
        /\ command[r].status = "failure_confirmed"
        /\ \A q \in Run \ {r} : incident'[q] = incident[q]
        /\ UNCHANGED <<command, control>>
    BY <1>1, PhaseViews
  <1>3. /\ incident'[r].diagnosis = incident[r].diagnosis
        /\ UNCHANGED request
    BY <1>1 DEF MovePhase, Consistent, TablesOK
  <1>4. /\ recovery'[r].status \in {"executing", "executed"}
        /\ recovery'[r].approval = recovery[r].approval
        /\ \A q \in Run \ {r} : recovery'[q] = recovery[q]
    BY DEF EnterExecuting, EnterVerifying, Consistent, TablesOK
  <1>5. f \in Late /\ f \notin Terminal
    BY <1>2 DEF NextPhases, Late, Terminal
  <1>6. RowOK(r)' /\ RowFlow(r) /\ Calm(r)
    BY <1>2, <1>3, <1>4, <1>5
    DEF RowsOK, RowOK, RowFlow, Calm, Late, Terminal
  <1>. QED  BY <1>2, <1>3, <1>4, <1>6, OneRowMoves DEF RowSame, Late

\* The run is completed by the runner, who does not look at the decision.
LEMMA CompletingRows ==
  ASSUME Consistent, RowsOK, NEW r \in Run, NEW cv, NEW iv, NEW rv, NEW from,
         NEW terminal, CompleteIncident(r, cv, iv, rv, from, terminal)
  PROVE  /\ RowsFlow
         /\ incident[r].phase = from /\ terminal \in NextPhases(from)
         /\ incident'[r].phase = terminal /\ terminal \in Terminal
         /\ recovery'[r].approval = recovery[r].approval
         /\ UNCHANGED request
         /\ \A q \in Run \ {r} : RowSame(q)
  <1>1. /\ incident[r].phase = from /\ terminal \in NextPhases(from)
        /\ terminal \in Terminal
        /\ command[r].status = "failure_confirmed"
        /\ UNCHANGED request
    BY DEF CompleteIncident, RequireIncidentWrite, RequireClaimed
  <1>2. /\ incident'[r].phase = terminal
        /\ incident'[r].diagnosis = incident[r].diagnosis
        /\ \A q \in Run \ {r} : incident'[q] = incident[q]
    BY DEF CompleteIncident, EndIncident, Consistent, TablesOK
  <1>3. /\ command'[r].status \in {"complete", "failed"}
        /\ command'[r].mode = command[r].mode
        /\ \A q \in Run \ {r} : command'[q] = command[q]
    BY DEF CompleteIncident, SetCommandStatus, Consistent, TablesOK
  <1>4. /\ recovery[r].status # "none" => recovery'[r].status # "none"
        /\ recovery'[r].approval = recovery[r].approval
        /\ \A q \in Run \ {r} : recovery'[q] = recovery[q]
    BY DEF CompleteIncident, Consistent, TablesOK
  <1>5. RowOK(r)' /\ RowFlow(r)
    BY <1>1, <1>2, <1>3, <1>4 DEF RowsOK, RowOK, RowFlow, Late, Terminal
  <1>. QED  BY <1>1, <1>2, <1>3, <1>4, <1>5, OneRowMoves DEF RowSame

\* The restoration leaves these rows alone.
LEMMA RestoringRows ==
  ASSUME Consistent, RowsOK, NEW r \in Run, NEW iv,
         \/ ClaimEnvironmentRecovery(r, iv)
         \/ CompleteEnvironmentRecovery(r, iv)
         \/ FailEnvironmentRecovery(r, iv)
  PROVE  RowsFlow /\ AllCalm
  <1>1. PICK from, to : MoveEnvironment(r, from, to)
    BY DEF ClaimEnvironmentRecovery, CompleteEnvironmentRecovery,
       FailEnvironmentRecovery
  <1>2. /\ \A q \in Run : /\ incident'[q].phase = incident[q].phase
                          /\ incident'[q].diagnosis = incident[q].diagnosis
        /\ UNCHANGED <<command, recovery, request>>
    BY <1>1 DEF MoveEnvironment, Consistent, TablesOK
  <1>. QED  BY <1>2, RowsSame DEF RowSame

\* The calls of the runner that do not touch these rows.
LEMMA PlainCallRows ==
  ASSUME Consistent, RowsOK, NEW r \in Run, NEW cv, NEW iv,
         \/ RenewLease(r, cv) \/ ClaimDemoCommand(r, cv)
         \/ MarkResetApplied(r, cv) \/ MarkFailureConfirmed(r, cv)
         \/ \E age \in 0..StepDeadline : AppendStep(r, cv, iv, age)
  PROVE  RowsFlow /\ AllCalm
  <1>1. UNCHANGED <<incident, recovery, request>>
    BY DEF RenewLease, ClaimDemoCommand, MarkResetApplied,
       MarkFailureConfirmed, MarkProgress, AppendStep, tables
  <1>2. \A q \in Run : /\ command'[q].mode = command[q].mode
                       /\ command'[q].status = "none"
                            <=> command[q].status = "none"
    <2>1. CASE UNCHANGED command
      BY <2>1
    <2>2. ASSUME NEW status \in Claimed, SetCommandStatus(r, status),
                 command[r].status # "none"
          PROVE  \A q \in Run : /\ command'[q].mode = command[q].mode
                                /\ command'[q].status = "none"
                                     <=> command[q].status = "none"
      BY <2>2 DEF SetCommandStatus, Consistent, TablesOK, Claimed
    <2>. QED
      BY <2>1, <2>2
      DEF RenewLease, ClaimDemoCommand, CanClaim, MarkResetApplied,
          MarkFailureConfirmed, MarkProgress, RequireClaimed, AppendStep,
          tables, Claimed
  <1>3. \A q \in Run : RowSame(q)
    BY <1>1, <1>2 DEF RowSame
  <1>. QED  BY <1>3, RowsSame

\* A step without a call.
LEMMA SilentRows ==
  ASSUME RowsOK, UNCHANGED vars PROVE RowsFlow /\ AllCalm
  <1>1. UNCHANGED <<command, incident, recovery, request>>
    BY DEF vars
  <1>2. \A q \in Run : RowSame(q)
    BY <1>1 DEF RowSame
  <1>. QED  BY <1>2, RowsSame

\* A call that fails the run before it has an incident.
LEMMA FailingRows ==
  ASSUME Consistent, RowsOK, NEW r \in Run, NEW cv,
         FailDemoCommand(r, cv) \/ ClaimExpiredCommand(r, cv)
  PROVE  RowsFlow /\ (AllAsking => AllCalm)
  BY ClosingRows DEF FailDemoCommand, ClaimExpiredCommand, CanClaim

\* The visitor, the cron, the clock and the heartbeat.
LEMMA RowsOfOthers ==
  ASSUME Consistent, RowsOK, Visitor \/ Cron \/ Tick \/ Heartbeat
  PROVE  RowsFlow /\ (AllAsking => AllCalm)
  <1>1. ASSUME NEW on \in BOOLEAN, SetEnabled(on) PROVE RowsFlow /\ AllCalm
    BY <1>1, RowsSame DEF SetEnabled, RowSame
  <1>2. ASSUME NEW r \in Run, NEW mode \in Mode, RequestRun(r, mode)
        PROVE  RowsFlow /\ AllCalm
    BY <1>2, StartingRows
  <1>3. ASSUME NEW r \in Run, Approve(r) PROVE RowsFlow /\ AllCalm
    BY <1>3, ApprovingRows
  <1>4. ASSUME NEW r \in Run, Reject(r)
        PROVE  RowsFlow /\ (AllAsking => AllCalm)
    BY <1>4, ClosingRows DEF Reject, CanDecide
  <1>5. ASSUME NEW r \in Run, WatchActiveRun(r)
        PROVE  RowsFlow /\ (AllAsking => AllCalm)
    BY <1>5, ClosingRows DEF WatchActiveRun
  <1>6. CASE Tick \/ HeartbeatIdle \/ \E r \in Run : HeartbeatWaiting(r)
    BY <1>6, RowsSame
    DEF Tick, HeartbeatIdle, HeartbeatWaiting, tables, RowSame
  <1>7. ASSUME NEW r \in Run, HeartbeatCleaning(r)
        PROVE  RowsFlow /\ (AllAsking => AllCalm)
    BY <1>7, ClosingRows DEF HeartbeatCleaning
  <1>. QED
    BY <1>1, <1>2, <1>3, <1>4, <1>5, <1>6, <1>7 DEF Visitor, Cron, Heartbeat

-----------------------------------------------------------------------------
(* What the copies still say. *)

\* A copy of the rows that may be stale, and what remains true of it.
Faithful(copy) ==
  LET r == copy.run IN
  /\ command[r].status # "none" /\ copy.mode = command[r].mode
  /\ copy.asked => request[r] # "none"
  /\ copy.recovery # "none" => recovery[r].status # "none"
  /\ copy.approval = "approved" => recovery[r].approval = "approved"
  /\ copy.phase \in Late =>
       /\ copy.diagnosis = incident[r].diagnosis
       /\ incident[r].phase \in Late \union Terminal
  /\ copy.phase \notin Late => copy.recovery = "none"
  /\ copy.phase = "policy_check" /\ copy.mode = "approval_required" =>
       \/ copy.recovery = "none"
       \/ copy.recovery = "proposed" /\ copy.approval = "pending"

\* The steps of a run whose copies name a phase.
StepsOf(phase) ==
  CASE phase = "none"              -> {"open_incident"}
    [] phase = "failed_detected"   -> {"investigate"}
    [] phase = "investigating"     -> {"recheck", "collect", "collect_logs",
                                       "report_no_evidence", "diagnose",
                                       "report_no_diagnosis",
                                       "report_diagnosis",
                                       "close_investigation"}
    [] phase = "manager_review"    -> {"review", "close_review"}
    [] phase = "policy_check"      -> {"policy", "permit", "propose", "ask",
                                       "await", "enter"}
    [] phase = "awaiting_approval" -> {"resume", "enter"}
    [] phase = "executing"         -> {"ambiguous", "execute", "restarting",
                                       "close_execution", "report_no_restart"}
    [] phase = "verifying"         -> {"report_executed", "verify",
                                       "report_healthy", "report_unhealthy"}

\* Where a run stands in its copies' phase; it asks only for a recovery it
\* proposed, waits only when it asked, gives up a permission only when there is
\* no decision to wait for, and never gives up what the visitor approved.
Placed ==
  /\ step \in BeforeTimer \union {"finish"} \union StepsOf(local.phase)
  /\ step \in {"ask", "await"} =>
       local.mode = "approval_required" /\ local.recovery # "none"
  /\ step = "await" => request[local.run] # "none"
  /\ step = "finish" => local.phase # "awaiting_approval"
  /\ step = "finish" /\ local.phase = "policy_check" =>
       recovery[local.run].approval # "pending" /\ request[local.run] # "pending"

\* The inductive invariant of the decision.
Deciding ==
  /\ RowsOK /\ AllAsking /\ NoOpenDecision
  /\ pending # NoSnapshot => Faithful(pending)
  /\ step # "idle" => Faithful(local) /\ Placed

LEMMA PendingStaysFaithful ==
  ASSUME Sound, pending # NoSnapshot, Faithful(pending),
         \A r \in Run : RowFlow(r), pending' = pending
  PROVE  Faithful(pending)'
  <1>1. pending.run \in Run
    BY DEF Sound, ProgramOK, Copies
  <1>. QED  BY <1>1 DEF Faithful, RowFlow

LEMMA LocalStaysFaithful ==
  ASSUME Sound, step # "idle", Faithful(local),
         \A r \in Run : RowFlow(r), local' = local
  PROVE  Faithful(local)'
  <1>1. local.run \in Run
    BY CopiesAtHand
  <1>. QED  BY <1>1 DEF Faithful, RowFlow

\* A run with a recovery was requested.
LEMMA RecoveryOfRequested ==
  ASSUME Consistent, NEW r \in Run,
         recovery[r].status # "none" \/ recovery[r].approval # "none"
  PROVE  recovery[r].status # "none" /\ command[r].status # "none"
  <1>1. recovery[r].status # "none" /\ recovery[r].status \in RecoveryStatus
    BY DEF Consistent, Relations, TablesOK, ExecutionAuthorised
  <1>2. incident[r].phase \in LivePhase \union Terminal
    BY <1>1 DEF Consistent, Relations, RecoveryMatchesPhase, RecoveryStatus,
       LivePhase, Terminal
  <1>. QED  BY <1>1, <1>2 DEF Consistent, Relations, RunLock, Live, Claimed

\* A calm step keeps every run asked before it waits, and closed when it ends.
LEMMA CalmKeeps ==
  ASSUME Consistent, AllAsking, NoOpenDecision, RowsFlow, AllCalm
  PROVE  AllAsking' /\ NoOpenDecision'
  <1>1. ASSUME NEW r \in Run PROVE Asking(r)'
    BY RecoveryOfRequested
    DEF AllAsking, Asking, RowsFlow, AllCalm, RowFlow, Calm
  <1>2. ASSUME NEW r \in Run, incident'[r].phase \in Terminal
        PROVE  recovery'[r].approval # "pending" /\ request'[r] # "pending"
    BY <1>2 DEF AllCalm, Calm, NoOpenDecision
  <1>. QED  BY <1>1, <1>2 DEF AllAsking, NoOpenDecision

-----------------------------------------------------------------------------
(* Steps beside the run. *)

\* What is left to show of a step whose rows are known to flow.
LEMMA RunDecides ==
  ASSUME Sound, Deciding, RowsFlow, AllAsking', NoOpenDecision',
         pending' = pending \/ pending' = NoSnapshot,
         step' # "idle" => Faithful(local)' /\ Placed'
  PROVE  Deciding'
  <1>1. pending' # NoSnapshot => Faithful(pending)'
    BY PendingStaysFaithful DEF Deciding, RowsFlow
  <1>. QED  BY <1>1 DEF Deciding, RowsFlow

\* A calm step that leaves the run where it stands.
LEMMA StandingStill ==
  ASSUME Sound, Deciding, RowsFlow, AllCalm, step # "idle",
         UNCHANGED <<step, local>>
  PROVE  Faithful(local)' /\ Placed'
  <1>1. /\ Faithful(local) /\ Placed /\ local.run \in Run
        /\ command[local.run].status # "none"
    BY CopiesAtHand DEF Deciding, Faithful
  <1>2. Faithful(local)'
    BY <1>1, LocalStaysFaithful DEF RowsFlow
  <1>3. RowFlow(local.run) /\ Calm(local.run)
    BY <1>1 DEF RowsFlow, AllCalm
  <1>. QED  BY <1>1, <1>2, <1>3 DEF Placed, RowFlow, Calm

\* A calm step beside the run.
LEMMA BesideDecides ==
  ASSUME Sound, Deciding, RowsFlow, AllAsking => AllCalm, BesideTheRun,
         pending' = pending \/ pending' = NoSnapshot
  PROVE  Deciding'
  <1>1. AllCalm /\ AllAsking' /\ NoOpenDecision'
    BY CalmKeeps DEF Deciding, Sound
  <1>2. ASSUME step' # "idle" PROVE Faithful(local)' /\ Placed'
    BY <1>1, <1>2, StandingStill DEF BesideTheRun
  <1>. QED  BY <1>1, <1>2, RunDecides

\* Visitor, cron, clock and heartbeats; the lease timer; the process.
LEMMA OthersDecide ==
  ASSUME Sound, Deciding,
         \/ Others \/ Start \/ Crash \/ RenewOnTimer \/ BeatQuiet \/ BeatDirty
         \/ LateRestart
  PROVE  Deciding'
  <1>1. /\ BesideTheRun /\ (pending' = pending \/ pending' = NoSnapshot)
        /\ \/ UNCHANGED vars
           \/ Visitor \/ Cron \/ Tick \/ Heartbeat
           \/ RenewOnTimer /\ RenewLease(local.run, local.cv)
    BY DEF Others, Start, Crash, RenewOnTimer, BeatQuiet, BeatDirty,
       LateRestart, mine, BesideTheRun, outside
  <1>2. RowsFlow /\ (AllAsking => AllCalm)
    <2>1. CASE RenewOnTimer /\ RenewLease(local.run, local.cv)
      <3>1. local.run \in Run
        BY <2>1, CopiesAtHand DEF RenewOnTimer, BeforeTimer
      <3>. QED  BY <2>1, <3>1, PlainCallRows DEF Sound, Deciding
    <2>. QED
      BY <1>1, <2>1, SilentRows, RowsOfOthers DEF Sound, Deciding
  <1>. QED  BY <1>1, <1>2, BesideDecides

\* The restoration.
LEMMA RestorerDecides ==
  ASSUME Sound, Deciding, RestorerStep PROVE Deciding'
  <1>. DEFINE r == restorer.run
  <1>1. /\ restorer.at # "none" /\ UNCHANGED <<pending, step, local>>
        /\ \/ UNCHANGED vars
           \/ \E iv : \/ ClaimEnvironmentRecovery(r, iv)
                      \/ CompleteEnvironmentRecovery(r, iv)
                      \/ FailEnvironmentRecovery(r, iv)
    BY DEF RestorerStep, Drained, RestorationClaimed, Ensured, Restored,
       NotRestored, RestoreThrows, RestoreGoto, RestoreEnds, besides
  <1>2. r \in Run
    BY <1>1 DEF Sound, ProgramOK
  <1>3. RowsFlow /\ AllCalm
    BY <1>1, <1>2, SilentRows, RestoringRows DEF Sound, Deciding
  <1>. QED  BY <1>1, <1>3, BesideDecides DEF BesideTheRun

\* A snapshot is true when it is taken.
LEMMA SnapshotsAreFaithful ==
  ASSUME Consistent, RowsOK, NEW r \in Run, control.active = r
  PROVE  Faithful(Snapshot(r))
  <1>. DEFINE copy == Snapshot(r)
  <1>1. /\ copy.run = r /\ copy.mode = command[r].mode
        /\ copy.phase = incident[r].phase
        /\ copy.diagnosis = incident[r].diagnosis
        /\ copy.recovery = recovery[r].status
        /\ copy.approval = recovery[r].approval
        /\ copy.asked = (request[r] # "none")
    BY DEF Snapshot
  <1>2. /\ command[r].status # "none" /\ incident[r].phase \notin Terminal
        /\ incident[r].phase \in Phase
    BY DEF Consistent, Relations, RunLock, TablesOK, Live, Claimed
  <1>3. incident[r].phase \notin Late => recovery[r].status = "none"
    BY <1>2 DEF Consistent, Relations, TablesOK, RecoveryMatchesPhase, Late,
       RecoveryStatus, Terminal
  <1>. HIDE DEF copy
  <1>4. Faithful(copy)
    BY <1>1, <1>2, <1>3 DEF RowsOK, RowOK, Faithful
  <1>. QED  BY <1>4 DEF copy

\* A snapshot is delivered, and a run starts with it.
LEMMA FeedDecides ==
  ASSUME Sound, Deciding, Deliver \/ Take PROVE Deciding'
  <1>1. /\ UNCHANGED vars /\ RowsFlow /\ AllAsking' /\ NoOpenDecision'
        /\ AllCalm
    BY SilentRows, CalmKeeps DEF Sound, Deciding, Deliver, Take
  <1>2. CASE Deliver
    <2>1. /\ UNCHANGED <<step, local>>
          /\ \/ pending' = NoSnapshot
             \/ control.active # NoRun /\ pending' = Snapshot(control.active)
      BY <1>2 DEF Deliver
    <2>2. pending' # NoSnapshot => Faithful(pending)'
      <3>1. CASE control.active # NoRun /\ pending' = Snapshot(control.active)
        <4>1. control.active \in Run
          BY <3>1 DEF Sound, Consistent, TablesOK
        <4>2. Faithful(Snapshot(control.active))
          BY <4>1, SnapshotsAreFaithful DEF Sound, Deciding
        <4>3. UNCHANGED <<command, incident, recovery, request>>
          BY <1>1 DEF vars
        <4>. QED  BY <3>1, <4>2, <4>3 DEF Faithful
      <3>. QED  BY <2>1, <3>1
    <2>3. step' # "idle" => Faithful(local)' /\ Placed'
      BY <1>1, <2>1, StandingStill
    <2>. QED  BY <1>1, <2>2, <2>3 DEF Deciding, RowsFlow
  <1>3. CASE Take
    <2>1. /\ step' = "start" /\ local' = pending /\ pending' = NoSnapshot
          /\ Faithful(pending)
      BY <1>3 DEF Take, Deciding
    <2>2. UNCHANGED <<command, incident, recovery, request>>
      BY <1>1 DEF vars
    <2>3. Faithful(local)'
      BY <2>1, <2>2 DEF Faithful
    <2>4. Placed'
      BY <2>1 DEF Placed, BeforeTimer
    <2>. QED  BY <1>1, <2>1, <2>3, <2>4, RunDecides
  <1>. QED  BY <1>2, <1>3

-----------------------------------------------------------------------------
(* The moves of orchestrator.run. *)

\* What is left to show of a calm move of the run: where it stands.
LEMMA CalmMove ==
  ASSUME Sound, Deciding, RowsFlow, AllAsking => AllCalm, UNCHANGED pending,
         step' # "idle" => Faithful(local)' /\ Placed'
  PROVE  Deciding'
  <1>1. AllAsking' /\ NoOpenDecision'
    BY CalmKeeps DEF Deciding, Sound
  <1>. QED  BY <1>1, RunDecides

\* The phase of the copies of a run that stands at a given step.
LEMMA WhereItStands ==
  ASSUME Sound, Deciding, step # "idle"
  PROVE  /\ local \in Copies /\ local.run \in Run
         /\ Faithful(local) /\ Placed
         /\ local.phase \in LivePhase \union {"none"}
         /\ step = "open_incident" => local.phase = "none"
         /\ step = "investigate" => local.phase = "failed_detected"
         /\ step \in {"recheck", "collect", "collect_logs",
                     "report_no_evidence", "diagnose", "report_no_diagnosis",
                     "report_diagnosis", "close_investigation"}
              => local.phase = "investigating"
         /\ step \in {"review", "close_review"} => local.phase = "manager_review"
         /\ step \in {"policy", "permit", "propose", "ask", "await"}
              => local.phase = "policy_check"
         /\ step = "resume" => local.phase = "awaiting_approval"
         /\ step = "enter"
              => local.phase \in {"policy_check", "awaiting_approval"}
         /\ step \in {"ambiguous", "execute", "restarting", "close_execution",
                     "report_no_restart"} => local.phase = "executing"
         /\ step \in {"report_executed", "verify", "report_healthy",
                     "report_unhealthy"} => local.phase = "verifying"
  <1>1. /\ local \in Copies /\ local.run \in Run /\ Faithful(local) /\ Placed
        /\ local.phase \in LivePhase \union {"none"}
    BY CopiesAtHand DEF Deciding
  <1>2. step \in BeforeTimer \union {"finish"} \union StepsOf(local.phase)
    BY <1>1 DEF Placed
  <1>. QED  BY <1>1, <1>2 DEF StepsOf, LivePhase, BeforeTimer

\* The steps of one phase.
LEMMA StepsByPhase ==
  /\ StepsOf("none") = {"open_incident"}
  /\ StepsOf("failed_detected") = {"investigate"}
  /\ StepsOf("investigating") =
       {"recheck", "collect", "collect_logs", "report_no_evidence", "diagnose",
        "report_no_diagnosis", "report_diagnosis", "close_investigation"}
  /\ StepsOf("manager_review") = {"review", "close_review"}
  /\ StepsOf("policy_check") =
       {"policy", "permit", "propose", "ask", "await", "enter"}
  /\ StepsOf("awaiting_approval") = {"resume", "enter"}
  /\ StepsOf("executing") =
       {"ambiguous", "execute", "restarting", "close_execution",
        "report_no_restart"}
  /\ StepsOf("verifying") =
       {"report_executed", "verify", "report_healthy", "report_unhealthy"}
  BY DEF StepsOf

\* A run resumes at a step of its copies' phase, and not where it has asked.
LEMMA ResumingSteps ==
  ASSUME NEW phase \in LivePhase \union {"none"}
  PROVE  /\ PhaseSteps(phase) \subseteq StepsOf(phase)
         /\ PhaseSteps(phase) \intersect {"ask", "await", "finish"} = {}
  BY DEF PhaseSteps, StepsOf, LivePhase

\* The permission is given up only where there is no decision to wait for.
LEMMA PermitPlaces ==
  ASSUME Sound, Deciding, Permit PROVE Faithful(local)' /\ Placed'
  <1>. DEFINE r == local.run
  <1>1. /\ step = "permit" /\ local' = local /\ UNCHANGED vars
        /\ step' \in {"finish", "propose", "enter", "ask"}
    BY DEF Permit, Finish, Goto
  <1>2. r \in Run /\ local \in Copies /\ Faithful(local)
    BY <1>1, WhereItStands
  <1>3. UNCHANGED <<command, incident, recovery, request>>
    BY <1>1 DEF vars
  <1>4. local.phase = "policy_check" /\ local'.phase = "policy_check"
    BY <1>1, WhereItStands
  <1>5. Faithful(local)'
    BY <1>1, <1>2, <1>3 DEF Faithful
  <1>6. CASE step' = "finish"
    <2>1. recovery[r].approval # "pending" /\ request[r] # "pending"
      <3>1. recovery[r].approval = "none" => request[r] # "pending"
        BY <1>2 DEF Deciding, AllAsking, Asking
      <3>2. CASE local.diagnosis # "actionable"
        <4>1. incident[r].diagnosis # "actionable"
          BY <1>2, <1>4, <3>2 DEF Faithful, Late
        <4>2. recovery[r].status = "none" /\ recovery[r].approval = "none"
          BY <1>2, <4>1
          DEF Sound, Consistent, Relations, ExecutionAuthorised
        <4>. QED  BY <3>1, <4>2
      <3>3. CASE local.mode = "autonomous"
        <4>1. command[r].mode = "autonomous"
          BY <1>2, <3>3 DEF Faithful
        <4>2. recovery[r].approval = "none"
          BY <1>2, <4>1
          DEF Sound, Consistent, Relations, ExecutionAuthorised
        <4>. QED  BY <3>1, <4>2
      <3>4. CASE local.diagnosis = "actionable" /\ local.mode # "autonomous"
        <4>1. local.mode = "approval_required"
          BY <1>2, <3>4 DEF Copies, Mode
        <4>2. \/ local.recovery = "none"
              \/ local.recovery = "proposed" /\ local.approval = "pending"
          BY <1>2, <1>4, <4>1 DEF Faithful
        <4>. QED  BY <1>6, <3>4, <4>2 DEF Permit, Goto, Finish
      <3>. QED  BY <3>2, <3>3, <3>4
    <2>. QED  BY <1>1, <1>3, <1>4, <1>5, <1>6, <2>1 DEF Placed
  <1>7. CASE step' = "ask"
    <2>1. local.mode # "autonomous" /\ local.recovery # "none"
      BY <1>7 DEF Permit, Goto, Finish
    <2>2. local.mode = "approval_required"
      BY <1>2, <2>1 DEF Copies, Mode
    <2>. QED
      BY <1>1, <1>4, <1>5, <1>7, <2>1, <2>2, StepsByPhase DEF Placed
  <1>8. CASE step' \in {"propose", "enter"}
    BY <1>4, <1>5, <1>8, StepsByPhase DEF Placed
  <1>. QED  BY <1>1, <1>5, <1>6, <1>7, <1>8

\* After an approval it is not given up at all: the copies hold a recovery, so
\* the diagnosis is the one it was proposed for.
LEMMA ResumePlaces ==
  ASSUME Sound, Deciding, Resume, step' # "idle"
  PROVE  Faithful(local)' /\ Placed'
  <1>. DEFINE r == local.run
  <1>1. /\ step = "resume" /\ local' = local /\ UNCHANGED vars
        /\ local.recovery = "proposed"
        /\ step' = IF local.diagnosis = "actionable" THEN "enter" ELSE "finish"
    BY DEF Resume, Finish, Goto, Return
  <1>2. /\ r \in Run /\ local.phase = "awaiting_approval" /\ Faithful(local)
    BY <1>1, WhereItStands
  <1>3. UNCHANGED <<command, incident, recovery, request>>
    BY <1>1 DEF vars
  <1>4. recovery[r].status # "none" /\ local.diagnosis = incident[r].diagnosis
    BY <1>1, <1>2 DEF Faithful, Late
  <1>5. incident[r].diagnosis = "actionable"
    BY <1>2, <1>4 DEF Sound, Consistent, Relations, ExecutionAuthorised
  <1>6. step' = "enter"
    BY <1>1, <1>4, <1>5
  <1>. QED
    BY <1>1, <1>2, <1>3, <1>6, StepsByPhase DEF Faithful, Placed

\* Steps that only look, at the sandbox or at the copies.
LEMMA LookingDecides ==
  ASSUME Sound, Deciding, LookingSteps PROVE Deciding'
  <1>1. step # "idle" /\ UNCHANGED vars /\ UNCHANGED pending
    BY DEF LookingSteps, InspectForReset, ServiceStopped, ResetThrows,
       FailureChecked, Recheck, Diagnosed, Permit, Resume, Ambiguous,
       Verified, Throws, Goto, GotoWith, Finish, Return, outside, InReset
  <1>2. RowsFlow /\ AllCalm
    BY <1>1, SilentRows DEF Deciding
  <1>3. UNCHANGED <<command, incident, recovery, request>>
    BY <1>1 DEF vars
  <1>4. /\ local \in Copies /\ Faithful(local)
    BY <1>1, WhereItStands
  <1>5. CASE InspectForReset \/ ServiceStopped \/ ResetThrows \/ FailureChecked
    <2>1. local' = local /\ step' \in BeforeTimer \ {"idle", "finish"}
      BY <1>5 DEF InspectForReset, ServiceStopped, ResetThrows,
         FailureChecked, Goto, BeforeTimer
    <2>. QED
      BY <1>1, <1>2, <1>3, <1>4, <2>1, CalmMove
      DEF Faithful, Placed, BeforeTimer
  <1>6. CASE Recheck \/ Diagnosed
    <2>1. /\ local.phase = "investigating"
          /\ step' \in {"collect", "finish", "report_no_diagnosis",
                        "report_diagnosis"}
          /\ \/ local' = local
             \/ \E diagnosis : local' = [local EXCEPT !.diagnosis = diagnosis]
      BY <1>1, <1>6, WhereItStands DEF Recheck, Diagnosed, Goto, GotoWith, Finish
    <2>2. /\ local'.run = local.run /\ local'.mode = local.mode
          /\ local'.phase = local.phase /\ local'.recovery = local.recovery
          /\ local'.approval = local.approval /\ local'.asked = local.asked
      BY <1>4, <2>1 DEF Copies
    <2>3. Faithful(local)'
      BY <1>3, <1>4, <2>1, <2>2 DEF Faithful, Late
    <2>4. Placed'
      BY <2>1, <2>2, StepsByPhase DEF Placed
    <2>. QED  BY <1>1, <1>2, <2>3, <2>4, CalmMove
  <1>7. CASE Permit
    BY <1>1, <1>2, <1>7, PermitPlaces, CalmMove
  <1>8. CASE Resume
    BY <1>1, <1>2, <1>8, ResumePlaces, CalmMove
  <1>9. CASE Ambiguous \/ Verified
    <2>1. /\ local.phase \in {"executing", "verifying"} /\ local' = local
          /\ step' = "finish" \/ (local.phase = "verifying"
               /\ step' \in {"report_healthy", "report_unhealthy"})
      BY <1>1, <1>9, WhereItStands DEF Ambiguous, Verified, Goto, Finish
    <2>. QED
      BY <1>1, <1>2, <1>3, <1>4, <2>1, StepsByPhase, CalmMove
      DEF Faithful, Placed
  <1>10. CASE Throws
    BY <1>1, <1>2, <1>10, CalmMove DEF Throws, Return
  <1>. QED
    BY <1>5, <1>6, <1>7, <1>8, <1>9, <1>10 DEF LookingSteps

\* Steps that take the command on, or find their own earlier effect.
LEMMA MarkingDecides ==
  ASSUME Sound, Deciding, MarkingSteps PROVE Deciding'
  <1>. DEFINE r == local.run
  <1>1. /\ step # "idle" /\ UNCHANGED pending
        /\ \/ UNCHANGED vars
           \/ \E cv : \/ RenewLease(r, cv) \/ ClaimDemoCommand(r, cv)
                      \/ MarkResetApplied(r, cv) \/ MarkFailureConfirmed(r, cv)
           \/ \E cv : ClaimExpiredCommand(r, cv)
    BY DEF MarkingSteps, Begin, Claim, ResetMarked, FailureMarked, Replayed,
       Goto, GotoWith, Return, outside
  <1>2. /\ r \in Run /\ local \in Copies /\ Faithful(local)
        /\ local.phase \in LivePhase \union {"none"}
    BY <1>1, WhereItStands
  <1>3. RowsFlow /\ (AllAsking => AllCalm)
    BY <1>1, <1>2, SilentRows, PlainCallRows, FailingRows DEF Sound, Deciding
  <1>4. \/ step' = "idle"
        \/ /\ step' \in BeforeTimer \union PhaseSteps(local.phase)
           /\ \/ local' = local
              \/ \E status, cv :
                   local' = [local EXCEPT !.status = status, !.cv = cv]
    <2>1. CASE Begin
      <3>1. PICK next \in StatusSteps(local.status, local.phase) : Goto(next)
        BY <2>1 DEF Begin
      <3>2. local.status \in Live
        BY <1>1, CopiesAtHand
      <3>3. next \in BeforeTimer \union PhaseSteps(local.phase)
        BY <3>2 DEF StatusSteps, BeforeTimer, Live, Claimed
      <3>. QED  BY <3>1, <3>3 DEF Goto
    <2>2. CASE Claim \/ ResetMarked \/ FailureMarked
      <3>. DEFINE cv == local.cv + 1
      <3>1. \/ step' = "idle"
            \/ /\ step' \in {"reset", "report_reset", "report_failure"}
               /\ \E status : local' = [local EXCEPT !.status = status, !.cv = cv]
        BY <2>2 DEF Claim, ResetMarked, FailureMarked, GotoWith, Return
      <3>. HIDE DEF cv
      <3>. QED  BY <3>1 DEF BeforeTimer
    <2>. QED  BY <2>1, <2>2 DEF MarkingSteps
  <1>5. ASSUME step' # "idle" PROVE Faithful(local)' /\ Placed'
    <2>1. /\ local'.run = local.run /\ local'.mode = local.mode
          /\ local'.phase = local.phase /\ local'.recovery = local.recovery
          /\ local'.approval = local.approval /\ local'.asked = local.asked
          /\ local'.diagnosis = local.diagnosis
      BY <1>2, <1>4, <1>5 DEF Copies
    <2>2. RowFlow(r)
      BY <1>2, <1>3 DEF RowsFlow
    <2>3. Faithful(local)'
      BY <1>2, <2>1, <2>2 DEF Faithful, RowFlow
    <2>4. /\ step' \in BeforeTimer \union StepsOf(local.phase)
          /\ step' \notin {"ask", "await", "finish"}
      BY <1>2, <1>4, <1>5, ResumingSteps DEF BeforeTimer
    <2>5. Placed'
      BY <2>1, <2>4 DEF Placed
    <2>. QED  BY <2>3, <2>5
  <1>. QED  BY <1>1, <1>3, <1>5, CalmMove

\* Steps that report to the timeline, but the request for the decision.
LEMMA ReportingDecides ==
  ASSUME Sound, Deciding, ReportingSteps, ~Asked PROVE Deciding'
  <1>. DEFINE r == local.run
  <1>1. /\ step # "idle" /\ UNCHANGED <<pending, local>>
        /\ UNCHANGED vars \/ Report
    BY DEF ReportingSteps, ResetReported, FailureReported, EvidenceCollected,
       EvidenceFails, DiagnosisReported, Reviewed, PolicyReported,
       RestartFailureReported, ExecutionReported, VerificationReported, Goto,
       Finish, outside
  <1>2. /\ r \in Run /\ Faithful(local)
        /\ local.phase \in LivePhase \union {"none"}
    BY <1>1, WhereItStands
  <1>3. RowsFlow /\ AllCalm
    <2>1. CASE UNCHANGED vars
      BY <2>1, SilentRows DEF Deciding
    <2>2. CASE Report
      <3>1. PICK age \in 0..StepDeadline :
              AppendStep(r, local.cv,
                         IF local.phase = "none" THEN NoVersion ELSE local.iv,
                         age)
        BY <2>2 DEF Report
      <3>. QED  BY <1>2, <3>1, PlainCallRows DEF Sound, Deciding
    <2>. QED  BY <1>1, <2>1, <2>2
  <1>4. Faithful(local)'
    BY <1>1, <1>2, <1>3, LocalStaysFaithful DEF RowsFlow
  <1>5. /\ step' \notin {"ask", "await"}
        /\ step' = "finish" =>
             local.phase \notin {"policy_check", "awaiting_approval"}
        /\ \/ step' \in BeforeTimer \union {"finish"}
           \/ step' \in StepsOf(local.phase)
    <2>1. CASE ResetReported
      BY <2>1 DEF ResetReported, Goto, BeforeTimer
    <2>2. CASE FailureReported
      BY <1>2, <2>2, ResumingSteps DEF FailureReported
    <2>3. CASE EvidenceCollected \/ EvidenceFails \/ DiagnosisReported
      <3>1. local.phase = "investigating"
        BY <2>3, WhereItStands
        DEF EvidenceCollected, EvidenceFails, DiagnosisReported
      <3>. QED
        BY <2>3, <3>1, StepsByPhase
        DEF EvidenceCollected, EvidenceFails, DiagnosisReported, Goto, Finish
    <2>4. CASE Reviewed \/ PolicyReported
      <3>1. \/ local.phase = "manager_review" /\ step' = "close_review"
            \/ local.phase = "policy_check" /\ step' = "permit"
        BY <2>4, WhereItStands DEF Reviewed, PolicyReported, Goto
      <3>. QED  BY <3>1, StepsByPhase
    <2>5. CASE RestartFailureReported \/ ExecutionReported
               \/ VerificationReported
      <3>1. \/ local.phase \in {"executing", "verifying"} /\ step' = "finish"
            \/ local.phase = "verifying" /\ step' = "verify"
        BY <2>5, WhereItStands
        DEF RestartFailureReported, ExecutionReported, VerificationReported,
            Goto, Finish
      <3>. QED  BY <3>1, StepsByPhase
    <2>. QED  BY <2>1, <2>2, <2>3, <2>4, <2>5 DEF ReportingSteps
  <1>6. Placed'
    BY <1>1, <1>5 DEF Placed
  <1>. QED  BY <1>1, <1>3, <1>4, <1>6, CalmMove

\* The visitor is asked, of a recovery that was proposed to him.
LEMMA AskedDecides ==
  ASSUME Sound, Deciding, Asked PROVE Deciding'
  <1>. DEFINE r == local.run
  <1>1. /\ step = "ask" /\ step' = "await" /\ UNCHANGED <<pending, local>>
        /\ \/ local.asked /\ UNCHANGED vars
           \/ AppendApprovalRequest(r, local.cv, local.iv)
    BY DEF Asked, Goto, outside
  <1>2. /\ r \in Run /\ local.phase = "policy_check" /\ Faithful(local)
        /\ local.mode = "approval_required" /\ local.recovery # "none"
    BY <1>1, WhereItStands DEF Placed
  <1>3. /\ recovery[r].status # "none" /\ incident[r].phase \in Late \union Terminal
        /\ command[r].mode = "approval_required"
    BY <1>2 DEF Faithful, Late
  <1>4. ASSUME UNCHANGED vars, local.asked
        PROVE  RowsFlow /\ AllAsking' /\ NoOpenDecision' /\ request'[r] # "none"
    <2>1. RowsFlow /\ AllAsking' /\ NoOpenDecision'
      BY <1>4, SilentRows, CalmKeeps DEF Sound, Deciding
    <2>2. request'[r] = request[r] /\ request[r] # "none"
      BY <1>2, <1>4 DEF vars, Faithful
    <2>. QED  BY <2>1, <2>2
  <1>5. ASSUME AppendApprovalRequest(r, local.cv, local.iv)
        PROVE  RowsFlow /\ AllAsking' /\ NoOpenDecision' /\ request'[r] # "none"
    <2>1. /\ RowsFlow /\ request'[r] = "pending"
          /\ command[r].status \in Live
          /\ \A q \in Run \ {r} : RowSame(q)
          /\ UNCHANGED <<command, incident, recovery>>
      BY <1>2, <1>5, AskingRows DEF Sound, Deciding
    <2>2. incident[r].phase \in Late
      BY <1>2, <1>3, <2>1
      DEF Sound, Consistent, Relations, RunLock, Live, Claimed
    <2>3. recovery[r].approval # "none"
      <3>1. CASE incident[r].phase = "policy_check"
        BY <1>2, <1>3, <3>1 DEF Deciding, RowsOK, RowOK
      <3>2. CASE incident[r].phase = "awaiting_approval"
        BY <1>2, <3>2 DEF Deciding, AllAsking, Asking
      <3>3. CASE incident[r].phase \in {"executing", "verifying"}
        BY <1>2, <1>3, <3>3
        DEF Sound, Consistent, Relations, ExecutionAuthorised
      <3>. QED  BY <2>2, <3>1, <3>2, <3>3 DEF Late
    <2>4. \A q \in Run \ {r} : Asking(q)'
      BY <2>1 DEF RowSame, Deciding, AllAsking, Asking
    <2>5. Asking(r)'
      BY <1>1, <2>1, <2>3 DEF Asking
    <2>6. NoOpenDecision'
      BY <1>2, <2>1, <2>2
      DEF RowSame, Deciding, NoOpenDecision, Late, Terminal
    <2>. QED  BY <1>1, <1>2, <2>1, <2>4, <2>5, <2>6 DEF AllAsking
  <1>6. RowsFlow /\ AllAsking' /\ NoOpenDecision' /\ request'[r] # "none"
    BY <1>1, <1>4, <1>5
  <1>7. Faithful(local)'
    BY <1>1, <1>2, <1>6, LocalStaysFaithful DEF RowsFlow
  <1>8. Placed'
    BY <1>1, <1>2, <1>6, StepsByPhase DEF Placed
  <1>. QED  BY <1>1, <1>6, <1>7, <1>8, RunDecides

\* A runner that gives a run up, or completes it, leaves no decision open.
LEMMA CompletedDecides ==
  ASSUME Sound, Deciding, Completed PROVE Deciding'
  <1>. DEFINE r == local.run
  <1>1. /\ step = "finish" /\ step' = "idle" /\ UNCHANGED pending
        /\ CompleteIncident(r, local.cv, local.iv, local.rv, local.phase,
                            flags.outcome)
    BY DEF Completed, Return, outside
  <1>2. r \in Run /\ Placed
    BY <1>1, WhereItStands
  <1>3. /\ RowsFlow /\ incident[r].phase = local.phase
        /\ flags.outcome \in NextPhases(local.phase) /\ flags.outcome \in Terminal
        /\ incident'[r].phase = flags.outcome
        /\ recovery'[r].approval = recovery[r].approval /\ UNCHANGED request
        /\ \A q \in Run \ {r} : RowSame(q)
    BY <1>1, <1>2, CompletingRows DEF Sound, Deciding
  <1>4. recovery[r].approval = "none" => request[r] = "none"
    BY <1>2 DEF Deciding, AllAsking, Asking
  <1>5. recovery[r].approval # "pending" /\ request[r] # "pending"
    <2>1. local.phase \in {"investigating", "manager_review", "policy_check",
                          "awaiting_approval", "executing", "verifying"}
      BY <1>3 DEF NextPhases, Terminal
    <2>2. CASE local.phase \in {"policy_check", "awaiting_approval"}
      BY <1>1, <1>2, <2>2 DEF Placed
    <2>3. CASE local.phase \in {"executing", "verifying"}
      <3>1. recovery[r].approval \in {"none", "approved"}
        BY <1>2, <1>3, <2>3
        DEF Sound, Consistent, Relations, ExecutionAuthorised, TablesOK, Mode
      <3>. QED  BY <1>2, <1>4, <3>1 DEF Deciding, RowsOK, RowOK
    <2>4. CASE local.phase \in {"investigating", "manager_review"}
      <3>1. recovery[r].status = "none"
        BY <1>2, <1>3, <2>4
        DEF Sound, Consistent, Relations, RecoveryMatchesPhase, TablesOK,
            RecoveryStatus
      <3>2. recovery[r].approval = "none"
        BY <1>2, <3>1 DEF Sound, Consistent, Relations, ExecutionAuthorised
      <3>. QED  BY <1>4, <3>2
    <2>. QED  BY <2>1, <2>2, <2>3, <2>4
  <1>6. \A q \in Run \ {r} : Calm(q)
    BY <1>3, SameRow DEF Deciding, RowsOK
  <1>7. recovery'[r].approval # "pending" /\ request'[r] # "pending"
        /\ incident'[r].phase # "awaiting_approval" /\ request'[r] = request[r]
    BY <1>3, <1>5 DEF Terminal
  <1>8. \A q \in Run : q = r => Calm(q)
    BY <1>7 DEF Calm
  <1>9. AllCalm
    BY <1>6, <1>8 DEF AllCalm
  <1>. QED  BY <1>1, <1>3, <1>9, CalmMove

\* A run waits only for a decision it asked for.
LEMMA AwaitingDecides ==
  ASSUME Sound, Deciding, Awaiting PROVE Deciding'
  <1>. DEFINE r == local.run
  <1>1. /\ step = "await" /\ step' = "idle" /\ UNCHANGED pending
        /\ AwaitApproval(r, local.cv, local.iv, local.rv)
    BY DEF Awaiting, Return, outside
  <1>2. r \in Run /\ request[r] # "none"
    BY <1>1, WhereItStands DEF Placed
  <1>3. /\ RowsFlow /\ incident'[r].phase = "awaiting_approval"
        /\ recovery'[r].approval = "pending" /\ UNCHANGED request
        /\ \A q \in Run \ {r} : RowSame(q)
    BY <1>1, <1>2, AwaitingRows DEF Sound, Deciding
  <1>4. AllAsking'
    BY <1>2, <1>3 DEF RowSame, Deciding, AllAsking, Asking
  <1>5. NoOpenDecision'
    BY <1>2, <1>3 DEF RowSame, Deciding, NoOpenDecision, Terminal
  <1>. QED  BY <1>1, <1>3, <1>4, <1>5, RunDecides

\* Steps that end the run, or return while it waits.
LEMMA EndingDecides ==
  ASSUME Sound, Deciding, EndingSteps PROVE Deciding'
  <1>1. ASSUME FailEarly PROVE Deciding'
    <2>1. /\ step # "idle" /\ step' = "idle" /\ UNCHANGED pending
          /\ FailDemoCommand(local.run, local.cv)
      BY <1>1 DEF FailEarly, Return, outside
    <2>2. local.run \in Run
      BY <2>1, WhereItStands
    <2>3. RowsFlow /\ (AllAsking => AllCalm)
      BY <2>1, <2>2, FailingRows DEF Sound, Deciding
    <2>. QED  BY <2>1, <2>3, CalmMove
  <1>. QED
    BY <1>1, CompletedDecides, AwaitingDecides DEF EndingSteps

\* Steps that move the incident on before there is a recovery.
LEMMA AdvancingDecides ==
  ASSUME Sound, Deciding, PhaseSteppers PROVE Deciding'
  <1>. DEFINE r == local.run
              iv == local.iv + 1
  <1>1. PICK from \in {"failed_detected", "investigating", "manager_review"},
             to \in {"investigating", "manager_review", "policy_check"} :
          /\ step # "idle" /\ UNCHANGED pending /\ local.phase = from
          /\ Advance(from, to, local.diagnosis)
          /\ step' \in StepsOf(to) \ {"ask", "await", "finish"}
          /\ local' = [local EXCEPT !.phase = to, !.iv = iv]
    <2>1. CASE Investigate
      <3>1. local.phase = "failed_detected"
        BY <2>1, WhereItStands DEF Investigate
      <3>. QED
        BY <2>1, <3>1, StepsByPhase DEF Investigate, GotoWith, outside
    <2>2. CASE ReviewOpened
      <3>1. local.phase = "investigating"
        BY <2>2, WhereItStands DEF ReviewOpened
      <3>. QED
        BY <2>2, <3>1, StepsByPhase DEF ReviewOpened, GotoWith, outside
    <2>3. CASE ReviewClosed
      <3>1. local.phase = "manager_review"
        BY <2>3, WhereItStands DEF ReviewClosed
      <3>. QED
        BY <2>3, <3>1, StepsByPhase DEF ReviewClosed, GotoWith, outside
    <2>. QED  BY <2>1, <2>2, <2>3 DEF PhaseSteppers
  <1>. HIDE DEF iv
  <1>2. r \in Run /\ local \in Copies /\ Faithful(local)
    BY <1>1, WhereItStands
  <1>3. /\ RowsFlow /\ AllCalm /\ incident'[r].phase = to
        /\ incident'[r].diagnosis = local.diagnosis
    BY <1>1, <1>2, InvestigatingRows DEF Advance, Sound, Deciding
  <1>4. /\ local'.run = local.run /\ local'.mode = local.mode
        /\ local'.phase = to /\ local'.recovery = local.recovery
        /\ local'.approval = local.approval /\ local'.asked = local.asked
        /\ local'.diagnosis = local.diagnosis
    BY <1>1, <1>2 DEF Copies
  <1>5. local.recovery = "none"
    BY <1>1, <1>2 DEF Faithful, Late
  <1>6. RowFlow(r)
    BY <1>2, <1>3 DEF RowsFlow
  <1>7. to \in Late => incident'[r].phase \in Late
    BY <1>3
  <1>8. Faithful(local)'
    BY <1>2, <1>3, <1>4, <1>5, <1>6, <1>7 DEF Faithful, RowFlow
  <1>9. Placed'
    BY <1>1, <1>4 DEF Placed
  <1>. QED  BY <1>1, <1>3, <1>8, <1>9, CalmMove

\* The incident is opened, or found.
LEMMA OpenedDecides ==
  ASSUME Sound, Deciding, IncidentOpened PROVE Deciding'
  <1>. DEFINE r == local.run
              iv == incident'[r].version
  <1>1. /\ step = "open_incident" /\ step' = "investigate" /\ UNCHANGED pending
        /\ UNCHANGED vars \/ CreateIncident(r, local.cv)
        /\ local' = [local EXCEPT !.phase = "failed_detected", !.iv = iv]
    BY DEF IncidentOpened, GotoWith, outside
  <1>. HIDE DEF iv
  <1>2. /\ r \in Run /\ local \in Copies /\ Faithful(local)
        /\ local.phase = "none"
    BY <1>1, WhereItStands
  <1>3. RowsFlow /\ AllCalm
    BY <1>1, <1>2, SilentRows, OpeningRows DEF Sound, Deciding
  <1>4. /\ local'.run = local.run /\ local'.mode = local.mode
        /\ local'.phase = "failed_detected" /\ local'.recovery = local.recovery
        /\ local'.approval = local.approval /\ local'.asked = local.asked
    BY <1>1, <1>2 DEF Copies
  <1>5. local.recovery = "none" /\ RowFlow(r)
    BY <1>2, <1>3 DEF Faithful, Late, RowsFlow
  <1>6. Faithful(local)'
    BY <1>2, <1>4, <1>5 DEF Faithful, RowFlow, Late
  <1>7. Placed'
    BY <1>1, <1>4, StepsByPhase DEF Placed
  <1>. QED  BY <1>1, <1>3, <1>6, <1>7, CalmMove

\* The recovery is proposed, or found: whoever must be asked has not been.
LEMMA ProposedDecides ==
  ASSUME Sound, Deciding, Proposed PROVE Deciding'
  <1>. DEFINE r == local.run
              rv == recovery'[r].version
              status == IF local.mode = "approval_required"
                          THEN "proposed" ELSE "allowed"
              approval == IF local.mode = "approval_required"
                            THEN "pending" ELSE "none"
  <1>1. /\ step = "propose" /\ step' = "permit" /\ UNCHANGED pending
        /\ \/ UNCHANGED vars /\ recovery[r].status # "none"
           \/ CreateRecoveryCommand(r, local.cv, local.iv)
        /\ local' = [local EXCEPT !.recovery = status, !.approval = approval,
                                  !.rv = rv]
    BY DEF Proposed, GotoWith, outside
  <1>2. /\ r \in Run /\ local \in Copies /\ Faithful(local)
        /\ local.phase = "policy_check"
    BY <1>1, WhereItStands
  <1>3. ASSUME UNCHANGED vars, recovery[r].status # "none"
        PROVE  RowsFlow /\ AllAsking' /\ NoOpenDecision'
               /\ recovery'[r].status # "none"
    <2>1. RowsFlow /\ AllAsking' /\ NoOpenDecision'
      BY <1>3, SilentRows, CalmKeeps DEF Sound, Deciding
    <2>. QED  BY <1>3, <2>1 DEF vars
  <1>4. ASSUME CreateRecoveryCommand(r, local.cv, local.iv)
        PROVE  RowsFlow /\ AllAsking' /\ NoOpenDecision'
               /\ recovery'[r].status # "none"
    <2>1. /\ RowsFlow /\ recovery'[r].status # "none"
          /\ \A q \in Run \ {r} : RowSame(q)
          /\ incident'[r].phase = "policy_check"
          /\ UNCHANGED <<command, request>>
      BY <1>2, <1>4, ProposingRows DEF Sound, Deciding
    <2>2. request[r] = "none"
      <3>1. recovery[r].status = "none"
        BY <1>4 DEF CreateRecoveryCommand
      <3>2. recovery[r].approval = "none"
        BY <1>2, <3>1 DEF Sound, Consistent, Relations, ExecutionAuthorised
      <3>. QED  BY <1>2, <3>2 DEF Deciding, AllAsking, Asking
    <2>3. \A q \in Run : Asking(q)'
      BY <2>1, <2>2 DEF RowSame, Deciding, AllAsking, Asking
    <2>4. NoOpenDecision'
      BY <2>1 DEF RowSame, Deciding, NoOpenDecision, Terminal
    <2>. QED  BY <2>1, <2>3, <2>4 DEF AllAsking
  <1>5. /\ RowsFlow /\ AllAsking' /\ NoOpenDecision'
        /\ recovery'[r].status # "none"
    BY <1>1, <1>3, <1>4
  <1>. HIDE DEF rv
  <1>6. /\ local'.run = local.run /\ local'.mode = local.mode
        /\ local'.phase = "policy_check" /\ local'.recovery = status
        /\ local'.approval = approval /\ local'.asked = local.asked
        /\ local'.diagnosis = local.diagnosis
    BY <1>1, <1>2 DEF Copies
  <1>7. RowFlow(r)
    BY <1>2, <1>5 DEF RowsFlow
  <1>8. Faithful(local)'
    BY <1>2, <1>5, <1>6, <1>7 DEF Faithful, RowFlow, Late
  <1>9. Placed'
    BY <1>1, <1>6, StepsByPhase DEF Placed
  <1>. QED  BY <1>1, <1>5, <1>8, <1>9, RunDecides

\* The restart: the decision is behind it.
ExecutionSteps == Entered \/ RestartSent \/ RestartReturns \/ ExecutionClosed

LEMMA ExecutingDecides ==
  ASSUME Sound, Deciding, ExecutionSteps PROVE Deciding'
  <1>. DEFINE r == local.run
              iv == local.iv + 1
              rv == local.rv + 1
  <1>1. CASE RestartSent \/ RestartReturns
    <2>1. /\ step # "idle" /\ UNCHANGED <<pending, local>> /\ UNCHANGED vars
          /\ step' \in {"restarting", "close_execution", "report_no_restart"}
      BY <1>1 DEF RestartSent, RestartReturns, Goto, outside
    <2>2. r \in Run /\ Faithful(local) /\ local.phase = "executing"
      BY <1>1, WhereItStands DEF RestartSent, RestartReturns
    <2>3. RowsFlow /\ AllCalm
      BY <2>1, SilentRows DEF Deciding
    <2>4. Faithful(local)'
      BY <2>1, <2>2, <2>3, LocalStaysFaithful DEF RowsFlow
    <2>5. Placed'
      BY <2>1, <2>2, StepsByPhase DEF Placed
    <2>. QED  BY <2>1, <2>3, <2>4, <2>5, CalmMove
  <1>2. CASE Entered \/ ExecutionClosed
    <2>1. PICK phase \in {"executing", "verifying"}, status \in RecoveryStatus :
            /\ step # "idle" /\ UNCHANGED pending
            /\ step' \in StepsOf(phase) \ {"ask", "await", "finish"}
            /\ local' = [local EXCEPT !.phase = phase, !.iv = iv,
                                      !.recovery = status, !.rv = rv]
      BY <1>2, StepsByPhase
      DEF Entered, ExecutionClosed, GotoWith, outside, RecoveryStatus
    <2>2. /\ r \in Run /\ local \in Copies /\ Faithful(local)
          /\ local.phase \in Late
      BY <1>2, <2>1, WhereItStands DEF Entered, ExecutionClosed, Late
    <2>3. \/ EnterExecuting(r, local.cv, local.iv, local.rv, local.phase)
          \/ EnterVerifying(r, local.cv, local.iv, local.rv)
      BY <1>2 DEF Entered, ExecutionClosed
    <2>4. /\ RowsFlow /\ AllCalm /\ recovery'[r].status # "none"
      BY <2>2, <2>3, ExecutingRows DEF Sound, Deciding
    <2>. HIDE DEF iv, rv
    <2>5. /\ local'.run = local.run /\ local'.mode = local.mode
          /\ local'.phase = phase /\ local'.asked = local.asked
          /\ local'.approval = local.approval
          /\ local'.diagnosis = local.diagnosis
      BY <2>1, <2>2 DEF Copies
    <2>6. RowFlow(r)
      BY <2>2, <2>4 DEF RowsFlow
    <2>7. Faithful(local)'
      BY <2>2, <2>4, <2>5, <2>6 DEF Faithful, RowFlow, Late
    <2>8. Placed'
      BY <2>1, <2>5 DEF Placed
    <2>. QED  BY <2>1, <2>4, <2>7, <2>8, CalmMove
  <1>. QED  BY <1>1, <1>2 DEF ExecutionSteps

\* Every step of the composition.
LEMMA EveryDecidingStep ==
  Sound /\ Deciding /\ [CoordinatorNext]_allVars => Deciding'
  <1> SUFFICES ASSUME Sound, Deciding, [CoordinatorNext]_allVars
               PROVE  Deciding'
    OBVIOUS
  <1>1. CASE UNCHANGED allVars
    <2>1. UNCHANGED vars /\ UNCHANGED <<pending, step, local>>
      BY <1>1 DEF allVars, mine
    <2>2. RowsFlow /\ AllCalm
      BY <2>1, SilentRows DEF Deciding
    <2>. QED  BY <2>1, <2>2, BesideDecides DEF BesideTheRun
  <1>2. CASE RunStep
    <2>1. CASE LookingSteps \/ MarkingSteps \/ ReportingSteps
      BY <2>1, LookingDecides, MarkingDecides, ReportingDecides, AskedDecides
    <2>2. CASE EndingSteps \/ PhaseSteppers \/ OpeningSteps
      BY <2>2, EndingDecides, AdvancingDecides, OpenedDecides, ProposedDecides
      DEF OpeningSteps
    <2>3. CASE ExecutionSteps
      BY <2>3, ExecutingDecides
    <2>. QED
      BY <1>2, <2>1, <2>2, <2>3
      DEF RunStep, LookingSteps, MarkingSteps, ReportingSteps, EndingSteps,
          PhaseSteppers, OpeningSteps, ExecutionSteps
  <1>. QED
    BY <1>1, <1>2, OthersDecide, RestorerDecides, FeedDecides
    DEF CoordinatorNext

-----------------------------------------------------------------------------
(* The rules of the two judges. *)

PhaseRule(r) ==
  incident[r].phase \notin {"none", incident'[r].phase} =>
    \/ FailedByServer(r)
    \/ Rules!AttemptIncidentTransition(
         incident[r].phase, incident'[r].phase, ContextOf(r))

PolicyRule(r) ==
  recovery[r].status = "none" /\ recovery'[r].status # "none" =>
    Rules!EvaluateRecoveryPolicy(
      r, control.incident, incident[r].phase,
      incident[r].diagnosis = "actionable", restarts[r])

AllRules == \A r \in Run : PhaseRule(r) /\ PolicyRule(r)

\* What the rules ask of a change of phase, beyond its being foreseen.
RightlyMoved(r) ==
  LET from == incident[r].phase
      to == incident'[r].phase
      approving == command[r].mode = "approval_required" IN
  /\ to \in NextPhases(from)
  /\ to = "awaiting_approval" =>
       approving /\ recovery'[r].approval = "pending"
  /\ from = "policy_check" /\ to = "executing" =>
       command[r].mode = "autonomous"
  /\ from = "awaiting_approval" /\ to = "executing" =>
       approving /\ recovery'[r].approval = "approved"
  /\ from = "awaiting_approval" /\ to = "needs_human" =>
       approving /\ recovery'[r].approval \in {"rejected", "expired"}
  /\ to = "executing" =>
       recovery'[r].status \notin {"none", "executed"} /\ restarts[r] = 0
  /\ to = "resolved" => recovery'[r].status = "executed" /\ restarts[r] = 1

\* The transition checker foresees the same phases, and asks the same.
LEMMA CheckerAllows ==
  ASSUME NEW r \in Run, RightlyMoved(r) PROVE PhaseRule(r)
  <1>. DEFINE from == incident[r].phase
              to == incident'[r].phase
              c == ContextOf(r)
              before == IF recovery'[r].status = "executed" THEN 1 ELSE 0
  <1>1. /\ to \in NextPhases(from)
        /\ c.mode = command[r].mode /\ c.approval = recovery'[r].approval
        /\ c.requested = (recovery'[r].status # "none")
        /\ c.executed = (recovery'[r].status = "executed") /\ c.verified = TRUE
        /\ c.before = restarts[r] - before
    BY DEF RightlyMoved, ContextOf, Rules!Context
  <1>2. /\ from \notin Rules!Ended
        /\ <<from, to>> \in Rules!Allowed
    BY <1>1 DEF NextPhases, Rules!Ended, Rules!Allowed
  <1>3. Rules!ApprovalAllowsTransition(from, to, c)
    BY <1>1 DEF RightlyMoved, Rules!ApprovalAllowsTransition
  <1>4. ASSUME to = "executing" PROVE Rules!ExecutionMayStart(c)
    <2>1. /\ recovery'[r].status # "none" /\ recovery'[r].status # "executed"
          /\ restarts[r] = 0
      BY <1>4 DEF RightlyMoved
    <2>2. before = 0
      BY <2>1
    <2>. HIDE DEF before
    <2>3. c.before = 0
      BY <1>1, <2>1, <2>2
    <2>. QED  BY <1>1, <2>1, <2>3 DEF Rules!ExecutionMayStart
  <1>5. ASSUME to = "resolved" PROVE Rules!ResolutionHolds(c)
    <2>1. recovery'[r].status = "executed" /\ restarts[r] = 1
      BY <1>5 DEF RightlyMoved
    <2>2. c.before = 0
      BY <1>1, <2>1
    <2>. QED  BY <1>1, <2>1, <2>2 DEF Rules!ResolutionHolds
  <1>. QED
    BY <1>2, <1>3, <1>4, <1>5 DEF PhaseRule, Rules!AttemptIncidentTransition

\* A run whose phase and recovery stay, or whose incident is only opened.
LEMMA NothingToJudge ==
  ASSUME NEW r \in Run,
         incident[r].phase \in {"none", incident'[r].phase},
         recovery'[r].status = recovery[r].status
  PROVE  PhaseRule(r) /\ PolicyRule(r)
  BY DEF PhaseRule, PolicyRule

\* A step that moves one run.
LEMMA OneRunJudged ==
  ASSUME NEW r \in Run, PhaseRule(r), PolicyRule(r),
         \A q \in Run \ {r} : /\ incident'[q].phase = incident[q].phase
                              /\ recovery'[q].status = recovery[q].status
  PROVE  AllRules
  BY NothingToJudge DEF AllRules

LEMMA QuietRules ==
  ASSUME UNCHANGED <<incident, recovery>> PROVE AllRules
  BY NothingToJudge DEF AllRules

\* A run closed by the server or by the visitor.
LEMMA ClosingRules ==
  ASSUME Consistent, NEW r \in Run, control.active = r,
         \/ PendingApproval(r) /\ ExpireApproval(r)
         \/ Reject(r)
         \/ FailRun(r)
  PROVE  AllRules
  <1>1. \A q \in Run \ {r} : /\ incident'[q].phase = incident[q].phase
                             /\ recovery'[q].status = recovery[q].status
    BY DEF Consistent, TablesOK, ExpireApproval, Reject, FailRun, EndIncident
  <1>2. CASE FailRun(r)
    <2>1. /\ command'[r].status = "failed"
          /\ incident'[r].phase = FailedPhase(r)
      BY <1>2 DEF FailRun, SetCommandStatus, Consistent, TablesOK
    <2>2. PhaseRule(r)
      BY <2>1 DEF PhaseRule, FailedByServer, FailedPhase
    <2>3. recovery[r].status = "none" => recovery'[r].status = "none"
      BY <1>2 DEF FailRun, Consistent, TablesOK
    <2>. QED  BY <1>1, <2>2, <2>3, OneRunJudged DEF PolicyRule
  <1>3. CASE (PendingApproval(r) /\ ExpireApproval(r)) \/ Reject(r)
    <2>1. PendingApproval(r)
      BY <1>3 DEF Reject, CanDecide
    <2>2. /\ incident'[r].phase = "needs_human"
          /\ recovery'[r].approval \in {"rejected", "expired"}
      BY <1>3 DEF ExpireApproval, Reject, EndIncident, Consistent, TablesOK
    <2>3. RightlyMoved(r) /\ recovery[r].status # "none"
      BY <2>1, <2>2 DEF RightlyMoved, PendingApproval, NextPhases
    <2>. QED  BY <1>1, <2>3, CheckerAllows, OneRunJudged DEF PolicyRule
  <1>. QED  BY <1>2, <1>3

\* The visitor, the cron, the clock and the heartbeat.
LEMMA RulesOfOthers ==
  ASSUME Consistent, Visitor \/ Cron \/ Tick \/ Heartbeat PROVE AllRules
  <1>1. ASSUME NEW r \in Run, Approve(r) PROVE AllRules
    <2>1. \A q \in Run : /\ incident'[q].phase = incident[q].phase
                         /\ recovery'[q].status = recovery[q].status
      BY <1>1 DEF Approve, Consistent, TablesOK
    <2>. QED  BY <2>1, NothingToJudge DEF AllRules
  <1>2. ASSUME NEW r \in Run, Reject(r) PROVE AllRules
    BY <1>2, ClosingRules DEF Reject, CanDecide
  <1>3. ASSUME NEW r \in Run, WatchActiveRun(r) PROVE AllRules
    BY <1>3, ClosingRules DEF WatchActiveRun
  <1>4. ASSUME NEW r \in Run, HeartbeatCleaning(r) PROVE AllRules
    BY <1>4, ClosingRules DEF HeartbeatCleaning
  <1>5. CASE Tick \/ HeartbeatIdle \/ \E r \in Run : HeartbeatWaiting(r)
    BY <1>5, QuietRules DEF Tick, HeartbeatIdle, HeartbeatWaiting, tables
  <1>6. ASSUME NEW on \in BOOLEAN, SetEnabled(on) PROVE AllRules
    BY <1>6, QuietRules DEF SetEnabled
  <1>7. ASSUME NEW r \in Run, NEW mode \in Mode, RequestRun(r, mode)
        PROVE  AllRules
    BY <1>7, QuietRules DEF RequestRun
  <1>. QED
    BY <1>1, <1>2, <1>3, <1>4, <1>5, <1>6, <1>7 DEF Visitor, Cron, Heartbeat

\* A change of phase by the runner.
LEMMA MovingRules ==
  ASSUME Sound, NEW r \in Run, NEW cv, NEW iv, NEW rv, NEW from, NEW to,
         NEW diagnosis,
         \/ UpdateIncidentPhase(r, cv, iv, from, to, diagnosis)
         \/ AwaitApproval(r, cv, iv, rv)
         \/ EnterExecuting(r, cv, iv, rv, from)
         \/ EnterVerifying(r, cv, iv, rv)
  PROVE  AllRules
  <1>1. Consistent
    BY DEF Sound
  <1>2. ASSUME NEW f, NEW t, NEW d, MovePhase(r, cv, iv, f, t, d)
        PROVE  /\ incident[r].phase = f /\ incident'[r].phase = t
               /\ t \in NextPhases(f) \ Terminal
               /\ \A q \in Run \ {r} : incident'[q] = incident[q]
    BY <1>1, <1>2, PhaseViews
  <1>3. CASE UpdateIncidentPhase(r, cv, iv, from, to, diagnosis)
    <2>1. /\ MovePhase(r, cv, iv, from, to, diagnosis) /\ UNCHANGED recovery
          /\ to \notin {"awaiting_approval", "executing", "verifying"}
      BY <1>3 DEF UpdateIncidentPhase
    <2>2. RightlyMoved(r)
      BY <1>2, <2>1 DEF RightlyMoved, Terminal
    <2>. QED
      BY <1>2, <2>1, <2>2, CheckerAllows, OneRunJudged DEF PolicyRule
  <1>4. CASE AwaitApproval(r, cv, iv, rv)
    <2>1. /\ MovePhase(r, cv, iv, "policy_check", "awaiting_approval",
                       incident[r].diagnosis)
          /\ UNCHANGED recovery /\ recovery[r].approval = "pending"
          /\ command[r].mode = "approval_required"
      BY <1>4 DEF AwaitApproval
    <2>2. RightlyMoved(r)
      BY <1>2, <2>1 DEF RightlyMoved
    <2>. QED
      BY <1>2, <2>1, <2>2, CheckerAllows, OneRunJudged DEF PolicyRule
  <1>5. CASE EnterExecuting(r, cv, iv, rv, from)
    <2>1. /\ MovePhase(r, cv, iv, from, "executing", incident[r].diagnosis)
          /\ MayExecute(r, from)
          /\ recovery'[r].status = "executing"
          /\ recovery'[r].approval = recovery[r].approval
          /\ \A q \in Run \ {r} : recovery'[q] = recovery[q]
      BY <1>1, <1>5 DEF EnterExecuting, Consistent, TablesOK
    <2>2. from \in {"policy_check", "awaiting_approval"}
      BY <1>2, <2>1 DEF NextPhases
    <2>3. restarts[r] = 0
      BY <1>2, <2>1, <2>2 DEF Sound, RestartRecorded
    <2>4. RightlyMoved(r) /\ recovery[r].status # "none"
      BY <1>2, <2>1, <2>2, <2>3 DEF RightlyMoved, MayExecute
    <2>. QED
      BY <1>2, <2>1, <2>4, CheckerAllows, OneRunJudged DEF PolicyRule
  <1>6. CASE EnterVerifying(r, cv, iv, rv)
    <2>1. /\ MovePhase(r, cv, iv, "executing", "verifying",
                       incident[r].diagnosis)
          /\ recovery[r].status = "executing"
          /\ \A q \in Run \ {r} : recovery'[q] = recovery[q]
      BY <1>1, <1>6 DEF EnterVerifying, Consistent, TablesOK
    <2>2. RightlyMoved(r)
      BY <1>2, <2>1 DEF RightlyMoved
    <2>. QED
      BY <1>2, <2>1, <2>2, CheckerAllows, OneRunJudged DEF PolicyRule
  <1>. QED  BY <1>3, <1>4, <1>5, <1>6

\* The recovery is proposed: the policy looks at what the guard looks at, and
\* the run has not been restarted.
LEMMA ProposingRules ==
  ASSUME Sound, NEW r \in Run, NEW cv, NEW iv, CreateRecoveryCommand(r, cv, iv)
  PROVE  AllRules
  <1>1. /\ incident[r].phase = "policy_check" /\ control.incident = r
        /\ incident[r].diagnosis = "actionable" /\ UNCHANGED incident
        /\ \A q \in Run \ {r} : recovery'[q] = recovery[q]
    BY DEF CreateRecoveryCommand, RequireIncidentWrite, RequireActiveIncident,
       Sound, Consistent, TablesOK
  <1>2. restarts[r] = 0
    BY <1>1 DEF Sound, RestartRecorded
  <1>3. PhaseRule(r) /\ PolicyRule(r)
    BY <1>1, <1>2 DEF PhaseRule, PolicyRule, Rules!EvaluateRecoveryPolicy
  <1>. QED  BY <1>1, <1>3, OneRunJudged

\* The run is completed by the runner, not while it waits for the visitor.
LEMMA CompletingRules ==
  ASSUME Sound, NEW r \in Run, NEW cv, NEW iv, NEW rv, NEW from, NEW terminal,
         CompleteIncident(r, cv, iv, rv, from, terminal),
         from # "awaiting_approval"
  PROVE  AllRules
  <1>1. /\ incident[r].phase = from /\ terminal \in NextPhases(from)
        /\ terminal \in Terminal
        /\ terminal = "resolved" => recovery[r].status = "executed"
    BY DEF CompleteIncident, RequireIncidentWrite
  <1>2. /\ incident'[r].phase = terminal
        /\ \A q \in Run \ {r} : incident'[q] = incident[q]
    BY DEF CompleteIncident, EndIncident, Sound, Consistent, TablesOK
  <1>3. /\ recovery[r].status = "none" \/ terminal = "resolved" =>
             recovery'[r] = recovery[r]
        /\ \A q \in Run \ {r} : recovery'[q] = recovery[q]
    BY DEF CompleteIncident, Sound, Consistent, TablesOK
  <1>4. terminal = "resolved" => restarts[r] = 1
    <2>1. terminal = "resolved" => from = "verifying"
      BY <1>1 DEF NextPhases
    <2>. QED  BY <1>1, <2>1 DEF Sound, RestartRecorded
  <1>5. RightlyMoved(r)
    BY <1>1, <1>2, <1>3, <1>4 DEF RightlyMoved, Terminal
  <1>6. PolicyRule(r)
    BY <1>3 DEF PolicyRule
  <1>. QED  BY <1>2, <1>3, <1>5, <1>6, CheckerAllows, OneRunJudged

\* A call of the runner that moves neither phases nor recoveries.
LEMMA PlainRules ==
  ASSUME Consistent, NEW r \in Run, NEW cv, NEW iv,
         \/ RenewLease(r, cv) \/ ClaimDemoCommand(r, cv)
         \/ MarkResetApplied(r, cv) \/ MarkFailureConfirmed(r, cv)
         \/ \E age \in 0..StepDeadline : AppendStep(r, cv, iv, age)
         \/ AppendApprovalRequest(r, cv, iv)
         \/ CreateIncident(r, cv)
         \/ ClaimEnvironmentRecovery(r, iv)
         \/ CompleteEnvironmentRecovery(r, iv)
         \/ FailEnvironmentRecovery(r, iv)
  PROVE  AllRules
  <1>1. CASE CreateIncident(r, cv)
    <2>1. \A q \in Run : /\ incident[q].phase \in {"none", incident'[q].phase}
                         /\ recovery'[q].status = recovery[q].status
      BY <1>1 DEF CreateIncident, Consistent, TablesOK
    <2>. QED  BY <2>1, NothingToJudge DEF AllRules
  <1>2. ASSUME NEW from, NEW to, MoveEnvironment(r, from, to) PROVE AllRules
    <2>1. \A q \in Run : /\ incident[q].phase \in {"none", incident'[q].phase}
                         /\ recovery'[q].status = recovery[q].status
      BY <1>2 DEF MoveEnvironment, Consistent, TablesOK
    <2>. QED  BY <2>1, NothingToJudge DEF AllRules
  <1>3. CASE \/ RenewLease(r, cv) \/ ClaimDemoCommand(r, cv)
             \/ MarkResetApplied(r, cv) \/ MarkFailureConfirmed(r, cv)
             \/ \E age \in 0..StepDeadline : AppendStep(r, cv, iv, age)
             \/ AppendApprovalRequest(r, cv, iv)
    BY <1>3, QuietRules
    DEF RenewLease, ClaimDemoCommand, MarkResetApplied, MarkFailureConfirmed,
        MarkProgress, AppendStep, AppendApprovalRequest, tables
  <1>. QED
    BY <1>1, <1>2, <1>3
    DEF ClaimEnvironmentRecovery, CompleteEnvironmentRecovery,
        FailEnvironmentRecovery

\* Every move of orchestrator.run.
LEMMA RunRules == ASSUME Sound, Deciding, RunStep PROVE AllRules
  <1>. DEFINE r == local.run
  <1>1. step # "idle" /\ r \in Run /\ Placed
    BY RunIsSound, WhereItStands
  <1>2. CASE LookingSteps \/ RestartSent \/ RestartReturns
    <2>1. UNCHANGED vars
      BY <1>2
      DEF LookingSteps, InspectForReset, ServiceStopped, ResetThrows,
          FailureChecked, Recheck, Diagnosed, Permit, Resume, Ambiguous,
          Verified, Throws, RestartSent, RestartReturns
    <2>. QED  BY <2>1, QuietRules DEF vars
  <1>3. CASE MarkingSteps \/ FailEarly
    <2>1. \/ UNCHANGED vars
          \/ \E cv : RenewLease(r, cv) \/ ClaimDemoCommand(r, cv)
                     \/ MarkResetApplied(r, cv) \/ MarkFailureConfirmed(r, cv)
          \/ \E cv : FailDemoCommand(r, cv) \/ ClaimExpiredCommand(r, cv)
      BY <1>3
      DEF MarkingSteps, Begin, Claim, ResetMarked, FailureMarked, Replayed,
          FailEarly
    <2>2. ASSUME NEW cv, FailDemoCommand(r, cv) \/ ClaimExpiredCommand(r, cv)
          PROVE  AllRules
      BY <1>1, <2>2, ClosingRules
      DEF FailDemoCommand, ClaimExpiredCommand, CanClaim, Sound
    <2>. QED
      BY <1>1, <2>1, <2>2, QuietRules, PlainRules DEF vars, Sound
  <1>4. CASE ReportingSteps
    <2>1. \/ UNCHANGED vars
          \/ \E cv, iv : \/ \E age \in 0..StepDeadline : AppendStep(r, cv, iv, age)
                         \/ AppendApprovalRequest(r, cv, iv)
      BY <1>4
      DEF ReportingSteps, ResetReported, FailureReported, EvidenceCollected,
          EvidenceFails, DiagnosisReported, Reviewed, PolicyReported, Asked,
          RestartFailureReported, ExecutionReported, VerificationReported,
          Report
    <2>. QED  BY <1>1, <2>1, QuietRules, PlainRules DEF vars, Sound
  <1>5. CASE Completed
    <2>1. /\ step = "finish"
          /\ CompleteIncident(r, local.cv, local.iv, local.rv, local.phase,
                              flags.outcome)
      BY <1>5 DEF Completed
    <2>. QED  BY <1>1, <2>1, CompletingRules DEF Placed
  <1>6. CASE PhaseSteppers \/ Awaiting \/ Entered \/ ExecutionClosed
    BY <1>1, <1>6, MovingRules
    DEF PhaseSteppers, Investigate, ReviewOpened, ReviewClosed, Advance,
        Awaiting, Entered, ExecutionClosed
  <1>7. CASE OpeningSteps
    <2>1. \/ UNCHANGED vars
          \/ CreateIncident(r, local.cv)
          \/ CreateRecoveryCommand(r, local.cv, local.iv)
      BY <1>7 DEF OpeningSteps, IncidentOpened, Proposed
    <2>. QED
      BY <1>1, <2>1, QuietRules, PlainRules, ProposingRules DEF vars, Sound
  <1>. QED
    BY <1>2, <1>3, <1>4, <1>5, <1>6, <1>7
    DEF RunStep, LookingSteps, MarkingSteps, ReportingSteps, PhaseSteppers,
        OpeningSteps

\* Every step of the composition.
LEMMA EveryRuledStep ==
  Sound /\ Deciding /\ [CoordinatorNext]_allVars => AllRules
  <1> SUFFICES ASSUME Sound, Deciding, [CoordinatorNext]_allVars
               PROVE  AllRules
    OBVIOUS
  <1>1. Consistent
    BY DEF Sound
  <1>2. CASE UNCHANGED allVars \/ Start \/ Crash \/ Deliver \/ Take
                 \/ LateRestart
    BY <1>2, QuietRules DEF allVars, vars, Start, Crash, Deliver, Take,
       LateRestart
  <1>3. CASE Others \/ BeatQuiet \/ BeatDirty
    BY <1>1, <1>3, RulesOfOthers DEF Others, BeatQuiet, BeatDirty
  <1>4. CASE RenewOnTimer
    <2>1. UNCHANGED vars \/ (RenewLease(local.run, local.cv) /\ step # "idle")
      BY <1>4 DEF RenewOnTimer, BeforeTimer
    <2>. QED
      BY <1>1, <2>1, CopiesAtHand, QuietRules, PlainRules DEF vars
  <1>5. CASE RestorerStep
    <2>1. restorer.run \in Run
      BY <1>5
      DEF Sound, ProgramOK, RestorerStep, Drained, RestorationClaimed, Ensured,
          Restored, NotRestored, RestoreThrows
    <2>2. \/ UNCHANGED vars
          \/ \E iv : \/ ClaimEnvironmentRecovery(restorer.run, iv)
                     \/ CompleteEnvironmentRecovery(restorer.run, iv)
                     \/ FailEnvironmentRecovery(restorer.run, iv)
      BY <1>5
      DEF RestorerStep, Drained, RestorationClaimed, Ensured, Restored,
          NotRestored, RestoreThrows
    <2>. QED  BY <1>1, <2>1, <2>2, QuietRules, PlainRules DEF vars
  <1>. QED
    BY <1>2, <1>3, <1>4, <1>5, RunRules DEF CoordinatorNext

-----------------------------------------------------------------------------
(* The theorems of the decision and of the rules. *)

\* The inductive invariant of the decision, beside the one of the restart.
THEOREM DecisionSound == CoordinatorSpec => []Deciding
  <1>1. CoordinatorInit => Deciding
    BY DEF CoordinatorInit, Init, NoIncident, NoRecovery, Deciding, RowsOK,
       RowOK, AllAsking, Asking, NoOpenDecision, Terminal
  <1>. QED
    BY <1>1, EveryDecidingStep, CoordinatorSound, PTL DEF CoordinatorSpec

\* A run can be closed at any time: it never waits for a decision it did not
\* ask for, though its copies may be stale, its replies lost, and the process
\* restarted between the request and the wait.
THEOREM WaitsAreClosable == CoordinatorSpec => []WaitingCanBeClosed
  <1>1. Sound /\ Deciding => WaitingCanBeClosed
    <2> SUFFICES ASSUME Sound, Deciding, NEW r \in Run, control.active = r,
                        recovery[r].approval = "pending"
                 PROVE  \/ request[r] = "pending"
                        \/ request[r] = "none" /\ incident[r].phase = "policy_check"
      BY DEF WaitingCanBeClosed
    <2>1. incident[r].phase \notin Terminal
      BY DEF Sound, Consistent, Relations, RunLock, Live, Claimed
    <2>2. request[r] \in {"none", "pending"}
      BY <2>1 DEF Sound, Consistent, TablesOK, RequestStep, Deciding, RowsOK,
         RowOK
    <2>3. incident[r].phase \in {"policy_check", "awaiting_approval"}
      <3>1. /\ recovery[r].status \in RecoveryStatus \ {"none"}
            /\ incident[r].phase \notin {"executing", "verifying"}
        BY DEF Sound, Consistent, TablesOK, Relations, ExecutionAuthorised
      <3>. QED
        BY <2>1, <3>1
        DEF Sound, Consistent, Relations, RecoveryMatchesPhase, RecoveryStatus,
            Terminal
    <2>4. incident[r].phase = "awaiting_approval" => request[r] # "none"
      BY DEF Deciding, AllAsking, Asking
    <2>. QED  BY <2>2, <2>3, <2>4
  <1>. QED  BY <1>1, CoordinatorSound, DecisionSound, PTL

\* A finished run leaves no decision open, though the call that completes it
\* never looks at the decision.
THEOREM DecisionsAreClosed == CoordinatorSpec => []NoOpenDecision
  <1>1. Deciding => NoOpenDecision
    BY DEF Deciding
  <1>. QED  BY <1>1, DecisionSound, PTL

\* The handlers of server and coordinator together keep the rules of
\* incident-state.ts and policy.ts, which neither of them calls: every change of
\* phase is one the transition checker allows with the decision and the
\* executions that are really there, and every recovery command is one the
\* policy allows.
THEOREM RulesAreKept == CoordinatorSpec => RulesKept
  <1>1. Sound /\ Deciding /\ [CoordinatorNext]_allVars
          => [\A r \in Run :
                /\ incident[r].phase \notin {"none", incident'[r].phase} =>
                     \/ FailedByServer(r)
                     \/ Rules!AttemptIncidentTransition(
                          incident[r].phase, incident'[r].phase, ContextOf(r))
                /\ recovery[r].status = "none" /\ recovery'[r].status # "none" =>
                     Rules!EvaluateRecoveryPolicy(
                       r, control.incident, incident[r].phase,
                       incident[r].diagnosis = "actionable", restarts[r])]_allVars
    BY EveryRuledStep DEF AllRules, PhaseRule, PolicyRule
  <1>. QED
    BY <1>1, CoordinatorSound, DecisionSound, PTL
    DEF CoordinatorSpec, RulesKept
=============================================================================
