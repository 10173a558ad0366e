------------------------- MODULE ControlPlaneProofs -------------------------
(***************************************************************************)
(* What TLAPS proves of the control plane for every number of runs and     *)
(* every value of the deadlines.                                           *)
(*                                                                         *)
(* The tables of ControlPlane never depend on a clock for their            *)
(* consistency, so the invariant is about the tables only: their types and *)
(* the four relations between them, which are inductive together and not   *)
(* one by one (a run can be requested only because RestorationGate and     *)
(* RunLock hold; RecoveryMatchesPhase is kept by a terminal write only     *)
(* because ExecutionAuthorised rules the other decisions out).  One lemma  *)
(* per table write shows that it keeps the invariant and that it neither   *)
(* changes a finished run nor replaces a decision.  The daily count, and   *)
(* the promise of StagedRecovery, each need one more fact about the rows.  *)
(***************************************************************************)
EXTENDS ControlPlane, FiniteSetTheorems, TLAPS

Relations ==
  RunLock /\ RestorationGate /\ RecoveryMatchesPhase /\ ExecutionAuthorised

\* The inductive invariant.
Consistent == TablesOK /\ Relations

\* What one step does to the tables.
GoodStep ==
  /\ Consistent'
  /\ \A r \in Run : KeepsOutcome(r) /\ KeepsDecision(r)

USE NoRunIsNotARun DEF NoRunIsNotARun

-----------------------------------------------------------------------------
(* Writes that touch no relation. *)

\* A mutation that writes no table: Tick, RenewLease, AppendStep, the beats.
LEMMA KeepTables == ASSUME Consistent, UNCHANGED tables PROVE GoodStep
  BY DEF Consistent, Relations, GoodStep, tables, TablesOK, RunLock,
     RestorationGate, RecoveryMatchesPhase, ExecutionAuthorised,
     KeepsOutcome, KeepsDecision

\* The approval_requested step is in none of the relations.
LEMMA WriteRequest ==
  ASSUME Consistent, NEW r \in Run, NEW step \in RequestStep,
         request' = [request EXCEPT ![r] = step],
         UNCHANGED <<control, command, incident, recovery>>
  PROVE  GoodStep
  <1>1. TablesOK'
    BY DEF Consistent, TablesOK
  <1>2. Relations' /\ \A q \in Run : KeepsOutcome(q) /\ KeepsDecision(q)
    BY DEF Consistent, Relations, RunLock, RestorationGate,
       RecoveryMatchesPhase, ExecutionAuthorised, KeepsOutcome, KeepsDecision
  <1>. QED  BY <1>1, <1>2 DEF GoodStep, Consistent

\* The operator's switch.
LEMMA WriteEnabled ==
  ASSUME Consistent, NEW enabled \in BOOLEAN, SetEnabled(enabled)
  PROVE  GoodStep
  <1>1. /\ control' = [control EXCEPT !.enabled = enabled]
        /\ UNCHANGED <<command, incident, recovery, request>>
    BY DEF SetEnabled
  <1>2. /\ TablesOK'
        /\ control'.active = control.active
        /\ control'.incident = control.incident
        /\ control'.restoring = control.restoring
    BY <1>1 DEF Consistent, TablesOK
  <1>3. RunLock' /\ RestorationGate'
    BY <1>1, <1>2 DEF Consistent, Relations, RunLock, RestorationGate
  <1>4. RecoveryMatchesPhase' /\ ExecutionAuthorised'
    BY <1>1 DEF Consistent, Relations, RecoveryMatchesPhase,
       ExecutionAuthorised
  <1>5. \A q \in Run : KeepsOutcome(q) /\ KeepsDecision(q)
    BY <1>1 DEF KeepsOutcome, KeepsDecision
  <1>. QED  BY <1>2, <1>3, <1>4, <1>5 DEF GoodStep, Consistent, Relations

\* A new day changes nothing but the day of the count and of the commands.
LEMMA WriteDay == ASSUME Consistent, NewDay PROVE GoodStep
  <1>1. /\ control' \in [enabled : BOOLEAN, active : Run \union {NoRun},
                         incident : Run \union {NoRun},
                         restoring : Run \union {NoRun},
                         today : BOOLEAN, dayCount : Nat]
        /\ control'.active = control.active
        /\ control'.incident = control.incident
        /\ control'.restoring = control.restoring
    BY DEF Consistent, TablesOK, NewDay
  <1>2. \A q \in Run : /\ command'[q].status = command[q].status
                       /\ command'[q].mode = command[q].mode
    BY DEF Consistent, TablesOK, NewDay
  <1> DEFINE Row == [status : CommandStatus, mode : Mode, version : Nat,
                     createdToday : BOOLEAN]
  <1>3. \A c \in Row : [c EXCEPT !.createdToday = FALSE] \in Row
    OBVIOUS
  <1>4. TablesOK'
    BY <1>1, <1>3 DEF Consistent, TablesOK, NewDay
  <1>5. UNCHANGED <<incident, recovery>>
    BY DEF NewDay
  <1>6. Relations' /\ \A q \in Run : KeepsOutcome(q) /\ KeepsDecision(q)
    BY <1>1, <1>2, <1>5 DEF Consistent, Relations, RunLock, RestorationGate,
       RecoveryMatchesPhase, ExecutionAuthorised, KeepsOutcome, KeepsDecision
  <1>. QED  BY <1>4, <1>6 DEF GoodStep, Consistent

-----------------------------------------------------------------------------
(* The life of a command until it has an incident. *)

\* A request takes the free lock, so no other run is live.
LEMMA StartRun ==
  ASSUME Consistent, NEW r \in Run, NEW mode \in Mode, RequestRun(r, mode)
  PROVE  GoodStep
  <1> DEFINE count == RunsToday + 1
  <1>1. count \in Nat
    BY DEF Consistent, TablesOK, RunsToday
  <1>2. control' = [control EXCEPT !.active = r, !.incident = NoRun,
                                   !.restoring = NoRun, !.today = TRUE,
                                   !.dayCount = count]
    BY DEF RequestRun
  <1> HIDE DEF count
  <1>a. incident[r].phase = "none"
    BY DEF RequestRun, Consistent, Relations, TablesOK, RunLock, Phase, Live,
       Claimed
  <1>b. recovery[r].status = "none"
    BY <1>a DEF Consistent, Relations, TablesOK, RecoveryMatchesPhase,
       RecoveryStatus
  <1>3. /\ incident[r].phase = "none"
        /\ recovery[r].status = "none"
        /\ recovery[r].approval = "none"
    BY <1>a, <1>b DEF Consistent, Relations, TablesOK, ExecutionAuthorised
  <1>4. TablesOK'
    BY <1>1, <1>2 DEF Consistent, RequestRun, TablesOK, CommandStatus, Live,
       Claimed, Mode
  <1>5. RunLock'
    BY <1>2, <1>3 DEF Consistent, Relations, TablesOK, RequestRun, RunLock,
       Live, Claimed, LivePhase, Terminal
  <1>6. RestorationGate' /\ RecoveryMatchesPhase'
    BY <1>2 DEF Consistent, Relations, TablesOK, RequestRun, RestorationGate,
       EnvironmentPending, RecoveryMatchesPhase
  <1>7. ExecutionAuthorised'
    BY <1>3 DEF Consistent, Relations, TablesOK, RequestRun,
       ExecutionAuthorised
  <1>8. \A q \in Run : KeepsOutcome(q) /\ KeepsDecision(q)
    BY DEF Consistent, TablesOK, RequestRun, KeepsOutcome, KeepsDecision
  <1>. QED  BY <1>4, <1>5, <1>6, <1>7, <1>8 DEF GoodStep, Consistent, Relations

\* A live command moves on to another live status.
LEMMA AdvanceCommand ==
  ASSUME Consistent, NEW r \in Run, NEW status \in Live,
         command[r].status \in Live, SetCommandStatus(r, status),
         UNCHANGED <<control, incident, recovery, request>>
  PROVE  GoodStep
  <1>1. TablesOK'
    BY DEF Consistent, TablesOK, SetCommandStatus, CommandStatus
  <1>2. \A q \in Run : /\ command'[q].mode = command[q].mode
                       /\ command'[q].status \in Live <=> command[q].status \in Live
                       /\ command[q].status \in {"complete", "failed"} =>
                            command'[q].status = command[q].status
                       /\ command'[q].status \in {"complete", "failed"} =>
                            command'[q].status = command[q].status
    BY DEF Consistent, TablesOK, SetCommandStatus, Live, Claimed
  <1>3. Relations' /\ \A q \in Run : KeepsOutcome(q) /\ KeepsDecision(q)
    BY <1>2 DEF Consistent, Relations, RunLock, RestorationGate,
       RecoveryMatchesPhase, ExecutionAuthorised, KeepsOutcome, KeepsDecision
  <1>. QED  BY <1>1, <1>3 DEF GoodStep, Consistent

\* The incident of a confirmed failure joins the lock of its run.
LEMMA OpenIncident ==
  ASSUME Consistent, NEW r \in Run, NEW cv, CreateIncident(r, cv)
  PROVE  GoodStep
  <1>1. recovery[r].status = "none" /\ recovery[r].approval = "none"
    BY DEF CreateIncident, Consistent, Relations, TablesOK,
       RecoveryMatchesPhase, ExecutionAuthorised, RecoveryStatus, Approval
  <1>2. TablesOK'
    BY DEF CreateIncident, Consistent, TablesOK, Phase, LivePhase, Diagnosis,
       Environment
  <1>3. RunLock'
    BY DEF CreateIncident, Consistent, Relations, TablesOK, RunLock,
       LivePhase, Terminal
  <1>4. RestorationGate'
    BY DEF CreateIncident, Consistent, Relations, TablesOK, RestorationGate,
       Terminal
  <1>5. RecoveryMatchesPhase' /\ ExecutionAuthorised'
    BY <1>1 DEF CreateIncident, Consistent, Relations, TablesOK,
       RecoveryMatchesPhase, ExecutionAuthorised
  <1>6. \A q \in Run : KeepsOutcome(q) /\ KeepsDecision(q)
    BY DEF CreateIncident, Consistent, TablesOK, KeepsOutcome, KeepsDecision,
       Terminal
  <1>. QED  BY <1>2, <1>3, <1>4, <1>5, <1>6 DEF GoodStep, Consistent, Relations

-----------------------------------------------------------------------------
(* The decision and the ends of a run. *)

\* An approval changes the decision and nothing the relations compare.
LEMMA ApproveRun == ASSUME Consistent, NEW r \in Run, Approve(r) PROVE GoodStep
  <1>1. TablesOK'
    BY DEF Approve, Consistent, TablesOK, RequestStep, Approval
  <1>2. RunLock' /\ RestorationGate' /\ RecoveryMatchesPhase'
    BY DEF Approve, Consistent, Relations, TablesOK, RunLock, RestorationGate,
       RecoveryMatchesPhase
  <1>3. ExecutionAuthorised'
    BY DEF Approve, CanDecide, PendingApproval, Consistent, Relations,
       TablesOK, ExecutionAuthorised
  <1>4. \A q \in Run : KeepsOutcome(q) /\ KeepsDecision(q)
    BY DEF Approve, CanDecide, PendingApproval, Consistent, TablesOK,
       KeepsOutcome, KeepsDecision, Terminal
  <1>. QED  BY <1>1, <1>2, <1>3, <1>4 DEF GoodStep, Consistent, Relations

\* The write that Reject and ExpireApproval share.
LEMMA CloseApproval ==
  ASSUME Consistent, NEW r \in Run, PendingApproval(r),
         NEW decision \in {"rejected", "expired"},
         request' = [request EXCEPT ![r] = "blocked"],
         recovery' = [recovery EXCEPT ![r] =
                        [status |-> "blocked", approval |-> decision,
                         version |-> recovery[r].version + 1]],
         EndIncident(r, "needs_human", "pending"),
         SetCommandStatus(r, "complete"),
         ReleaseToRestoration(r)
  PROVE  GoodStep
  <1>a. /\ control'.active = NoRun /\ control'.incident = NoRun
        /\ control'.restoring = r
        /\ control' \in [enabled : BOOLEAN, active : Run \union {NoRun},
                        incident : Run \union {NoRun},
                        restoring : Run \union {NoRun},
                        today : BOOLEAN, dayCount : Nat]
    BY DEF Consistent, TablesOK, ReleaseToRestoration
  <1>b. command' \in [Run -> [status : CommandStatus, mode : Mode,
                             version : Nat, createdToday : BOOLEAN]]
    BY DEF Consistent, TablesOK, SetCommandStatus, CommandStatus
  <1>c. incident' \in [Run -> [phase : Phase, version : Nat,
                              diagnosis : Diagnosis,
                              environment : Environment]]
    <2>1. /\ incident \in [Run -> [phase : Phase, version : Nat,
                                  diagnosis : Diagnosis,
                                  environment : Environment]]
          /\ incident' = [incident EXCEPT ![r].phase = "needs_human",
                                          ![r].environment = "pending",
                                          ![r].version = @ + 1]
      BY DEF Consistent, TablesOK, EndIncident
    <2>. QED  BY <2>1 DEF Phase, Terminal, Environment
  <1>d. /\ recovery' \in [Run -> [status : RecoveryStatus, version : Nat,
                                 approval : Approval]]
        /\ request' \in [Run -> RequestStep]
    BY DEF Consistent, TablesOK, RecoveryStatus, Approval, RequestStep
  <1>1. TablesOK'
    BY <1>a, <1>b, <1>c, <1>d DEF TablesOK
  <1>2. control.active = r
    BY DEF PendingApproval, Consistent, Relations, RunLock
  <1>3. RunLock'
    BY <1>2 DEF Consistent, Relations, TablesOK, EndIncident, SetCommandStatus,
       ReleaseToRestoration, RunLock, Live, Claimed, LivePhase, Terminal
  <1>4. RestorationGate'
    BY <1>2 DEF Consistent, Relations, TablesOK, EndIncident,
       ReleaseToRestoration, RestorationGate, Terminal
  <1>e. /\ incident'[r].phase = "needs_human"
        /\ incident'[r].diagnosis = incident[r].diagnosis
        /\ recovery'[r].status = "blocked" /\ recovery'[r].approval = decision
        /\ \A q \in Run : command'[q].mode = command[q].mode
        /\ \A q \in Run \ {r} : incident'[q] = incident[q]
                               /\ recovery'[q] = recovery[q]
    BY DEF Consistent, TablesOK, EndIncident, SetCommandStatus
  <1>5. RecoveryMatchesPhase' /\ ExecutionAuthorised'
    BY <1>e DEF Consistent, Relations, PendingApproval, RecoveryMatchesPhase,
       ExecutionAuthorised
  <1>6. \A q \in Run : KeepsOutcome(q) /\ KeepsDecision(q)
    BY <1>2 DEF Consistent, Relations, TablesOK, PendingApproval, EndIncident,
       SetCommandStatus, KeepsOutcome, KeepsDecision, Terminal, RunLock,
       Live, Claimed
  <1>. QED  BY <1>1, <1>3, <1>4, <1>5, <1>6 DEF GoodStep, Consistent, Relations

\* A run closed by the watchdog ends in every table at once.
LEMMA FailingRun ==
  ASSUME Consistent, NEW r \in Run, control.active = r, FailRun(r)
  PROVE  GoodStep
  <1>1. /\ FailedPhase(r) \in {"failed_recovery", "investigation_failed"}
        /\ FailedPhase(r) = "failed_recovery" <=>
             incident[r].phase \in {"executing", "verifying"}
        /\ FailedVersion(r) \in Nat
        /\ ClosedApproval(r) \in Approval
    BY DEF FailedPhase, FailedVersion, ClosedApproval, Consistent, Relations,
       TablesOK, RunLock, Approval, LivePhase
  <1>2. TablesOK'
    BY <1>1 DEF FailRun, SetCommandStatus, ReleaseToRestoration, Consistent,
       TablesOK, CommandStatus, Phase, Terminal, Environment, RecoveryStatus,
       RequestStep
  <1>3. RunLock'
    BY <1>1 DEF FailRun, SetCommandStatus, ReleaseToRestoration, Consistent,
       Relations, TablesOK, RunLock, Live, Claimed, LivePhase, Terminal
  <1>4. RestorationGate'
    BY <1>1 DEF FailRun, ReleaseToRestoration, Consistent, Relations,
       TablesOK, RestorationGate, Terminal
  <1>5. incident[r].phase \in LivePhase \union {"none"}
    BY DEF Consistent, Relations, TablesOK, RunLock, Live, Claimed, Phase
  <1>6. RecoveryMatchesPhase'
    BY <1>1, <1>5 DEF FailRun, Consistent, Relations, TablesOK,
       RecoveryMatchesPhase, RecoveryStatus, LivePhase
  <1>7. ExecutionAuthorised'
    BY <1>1 DEF FailRun, ClosedApproval, SetCommandStatus, Consistent,
       Relations, TablesOK, ExecutionAuthorised, Approval, RecoveryStatus
  <1>8. \A q \in Run : KeepsOutcome(q) /\ KeepsDecision(q)
    BY <1>5 DEF FailRun, ClosedApproval, SetCommandStatus, Consistent,
       Relations, TablesOK, KeepsOutcome, KeepsDecision, RunLock, Live,
       Claimed, LivePhase, Terminal
  <1>. QED  BY <1>2, <1>3, <1>4, <1>6, <1>7, <1>8
            DEF GoodStep, Consistent, Relations

\* A run completed by the runner ends in every table at once.
LEMMA CompletingRun ==
  ASSUME Consistent, NEW r \in Run, NEW cv, NEW iv, NEW rv,
         NEW terminal \in Terminal,
         CompleteIncident(r, cv, iv, rv, incident[r].phase, terminal)
  PROVE  GoodStep
  <1>1. /\ control.active = r
        /\ incident[r].phase \in LivePhase
        /\ terminal \in NextPhases(incident[r].phase)
    BY DEF CompleteIncident, RequireIncidentWrite, RequireActiveIncident,
       Consistent, Relations, RunLock
  <1>2. /\ terminal = "resolved" =>
             incident[r].phase = "verifying" /\ recovery[r].status = "executed"
        /\ terminal = "failed_recovery" =>
             incident[r].phase \in {"executing", "verifying"}
        /\ terminal \in {"needs_human", "investigation_failed"} =>
             incident[r].phase \notin {"executing", "verifying"}
        /\ terminal = "investigation_failed" =>
             incident[r].phase = "investigating"
    BY <1>1 DEF CompleteIncident, NextPhases, LivePhase, Terminal
  <1>3. TablesOK'
    BY DEF CompleteIncident, EndIncident, SetCommandStatus, Consistent,
       TablesOK, Phase, Terminal, Environment, CommandStatus, RecoveryStatus
  <1>4. RunLock'
    BY <1>1 DEF CompleteIncident, EndIncident, SetCommandStatus, Consistent,
       Relations, TablesOK, RunLock, Live, Claimed, LivePhase, Terminal
  <1>5. RestorationGate'
    BY <1>1 DEF CompleteIncident, EndIncident, Consistent, Relations,
       TablesOK, RestorationGate, Terminal
  <1>6. RecoveryMatchesPhase'
    BY <1>1, <1>2 DEF CompleteIncident, EndIncident, Consistent, Relations,
       TablesOK, RecoveryMatchesPhase, RecoveryStatus, LivePhase, Terminal
  <1>7. ExecutionAuthorised'
    BY <1>1, <1>2 DEF CompleteIncident, EndIncident, SetCommandStatus,
       Consistent, Relations, TablesOK, ExecutionAuthorised, Terminal
  <1>8. \A q \in Run : KeepsOutcome(q) /\ KeepsDecision(q)
    BY <1>1 DEF CompleteIncident, EndIncident, SetCommandStatus, Consistent,
       Relations, TablesOK, KeepsOutcome, KeepsDecision, RunLock, Live,
       Claimed, LivePhase, Terminal
  <1>. QED  BY <1>3, <1>4, <1>5, <1>6, <1>7, <1>8
            DEF GoodStep, Consistent, Relations

-----------------------------------------------------------------------------
(* The recovery command and the phases of the incident. *)

\* A recovery command appears only in policy_check, for an actionable
\* diagnosis.
LEMMA ProposeRecovery ==
  ASSUME Consistent, NEW r \in Run, NEW cv, NEW iv,
         CreateRecoveryCommand(r, cv, iv)
  PROVE  GoodStep
  <1>1. TablesOK'
    BY DEF CreateRecoveryCommand, Consistent, TablesOK, RecoveryStatus, Approval
  <1>2. /\ incident[r].phase = "policy_check"
        /\ incident[r].diagnosis = "actionable"
        /\ recovery[r].approval = "none"
    BY DEF CreateRecoveryCommand, RequireIncidentWrite, Consistent, Relations,
       TablesOK, ExecutionAuthorised
  <1>3. RunLock' /\ RestorationGate'
    BY DEF CreateRecoveryCommand, Consistent, Relations, RunLock,
       RestorationGate
  <1>4. RecoveryMatchesPhase' /\ ExecutionAuthorised'
    BY <1>2 DEF CreateRecoveryCommand, Consistent, Relations, TablesOK,
       RecoveryMatchesPhase, ExecutionAuthorised, Mode
  <1>5. \A q \in Run : KeepsOutcome(q) /\ KeepsDecision(q)
    BY <1>2 DEF CreateRecoveryCommand, Consistent, TablesOK, KeepsOutcome,
       KeepsDecision, Terminal
  <1>. QED  BY <1>1, <1>3, <1>4, <1>5 DEF GoodStep, Consistent, Relations

\* What every phase change does to the incident alone.
LEMMA PhaseMoves ==
  ASSUME Consistent, NEW r \in Run, NEW cv, NEW iv, NEW from, NEW to,
         NEW diagnosis \in Diagnosis, MovePhase(r, cv, iv, from, to, diagnosis)
  PROVE  /\ incident[r].phase = from /\ from \in LivePhase
         /\ control.active = r
         /\ to \in NextPhases(from) /\ to \in LivePhase
         /\ incident' \in [Run -> [phase : Phase, version : Nat,
                                   diagnosis : Diagnosis,
                                   environment : Environment]]
         /\ RunLock' /\ RestorationGate'
         /\ incident'[r].phase = to /\ incident'[r].diagnosis = diagnosis
         /\ \A q \in Run \ {r} : incident'[q] = incident[q]
  <1>1. /\ incident[r].phase = from /\ from \in LivePhase
        /\ control.active = r
        /\ to \in NextPhases(from)
    BY DEF MovePhase, RequireIncidentWrite, RequireActiveIncident, Consistent,
       Relations, RunLock
  <1>2. to \in LivePhase
    BY <1>1 DEF MovePhase, NextPhases, LivePhase, Terminal
  <1>3. incident' \in [Run -> [phase : Phase, version : Nat,
                               diagnosis : Diagnosis,
                               environment : Environment]]
    BY <1>2 DEF MovePhase, Consistent, TablesOK, Phase
  <1>4. /\ incident'[r].phase = to /\ incident'[r].diagnosis = diagnosis
        /\ \A q \in Run \ {r} : incident'[q] = incident[q]
    BY DEF MovePhase, Consistent, TablesOK
  <1>5. RunLock' /\ RestorationGate'
    BY <1>1, <1>2 DEF MovePhase, Consistent, Relations, TablesOK, RunLock,
       RestorationGate, LivePhase, Terminal
  <1>. QED  BY <1>1, <1>2, <1>3, <1>4, <1>5

\* A phase change that does not touch the recovery command.
LEMMA InvestigatePhase ==
  ASSUME Consistent, NEW r \in Run, NEW cv, NEW iv, NEW to,
         NEW diagnosis \in Diagnosis,
         UpdateIncidentPhase(r, cv, iv, incident[r].phase, to, diagnosis)
  PROVE  GoodStep
  <1> DEFINE from == incident[r].phase
  <1>1. /\ MovePhase(r, cv, iv, from, to, diagnosis)
        /\ UNCHANGED <<control, command, request, recovery>>
    BY DEF UpdateIncidentPhase, MovePhase
  <1>2. /\ from \in {"failed_detected", "investigating", "manager_review"}
        /\ to \in {"investigating", "manager_review", "policy_check"}
        /\ incident'[r].phase = to
        /\ \A q \in Run \ {r} : incident'[q] = incident[q]
    BY <1>1, PhaseMoves DEF UpdateIncidentPhase, NextPhases, LivePhase
  <1>3. recovery[r].status = "none" /\ recovery[r].approval = "none"
    BY <1>2 DEF Consistent, Relations, TablesOK, RecoveryMatchesPhase,
       ExecutionAuthorised, RecoveryStatus, Approval
  <1>4. TablesOK' /\ RunLock' /\ RestorationGate'
    BY <1>1, PhaseMoves DEF Consistent, TablesOK
  <1>5. RecoveryMatchesPhase' /\ ExecutionAuthorised'
    BY <1>1, <1>2, <1>3 DEF Consistent, Relations, RecoveryMatchesPhase,
       ExecutionAuthorised
  <1>6. \A q \in Run : KeepsOutcome(q) /\ KeepsDecision(q)
    BY <1>1, <1>2 DEF KeepsOutcome, KeepsDecision, Terminal
  <1>. QED  BY <1>4, <1>5, <1>6 DEF GoodStep, Consistent, Relations

\* Only a proposed recovery waits for the visitor.
LEMMA AskForApproval ==
  ASSUME Consistent, NEW r \in Run, NEW cv, NEW iv, NEW rv,
         AwaitApproval(r, cv, iv, rv)
  PROVE  GoodStep
  <1>1. incident[r].diagnosis \in Diagnosis
    BY DEF Consistent, TablesOK
  <1>2. /\ MovePhase(r, cv, iv, "policy_check", "awaiting_approval",
                     incident[r].diagnosis)
        /\ UNCHANGED <<control, command, request, recovery>>
        /\ recovery[r].status = "proposed"
    BY DEF AwaitApproval, MovePhase
  <1>3. TablesOK' /\ RunLock' /\ RestorationGate'
    BY <1>1, <1>2, PhaseMoves DEF Consistent, TablesOK
  <1>4. /\ incident[r].phase = "policy_check"
        /\ incident'[r].phase = "awaiting_approval"
        /\ incident'[r].diagnosis = incident[r].diagnosis
        /\ \A q \in Run \ {r} : incident'[q] = incident[q]
    BY <1>1, <1>2, PhaseMoves
  <1>5. RecoveryMatchesPhase' /\ ExecutionAuthorised'
    BY <1>2, <1>4 DEF Consistent, Relations, RecoveryMatchesPhase,
       ExecutionAuthorised
  <1>6. \A q \in Run : KeepsOutcome(q) /\ KeepsDecision(q)
    BY <1>2, <1>4 DEF KeepsOutcome, KeepsDecision, Terminal
  <1>. QED  BY <1>3, <1>5, <1>6 DEF GoodStep, Consistent, Relations

\* Entering executing is where the authority is checked.
LEMMA StartExecuting ==
  ASSUME Consistent, NEW r \in Run, NEW cv, NEW iv, NEW rv,
         EnterExecuting(r, cv, iv, rv, incident[r].phase)
  PROVE  GoodStep
  <1>1. incident[r].diagnosis \in Diagnosis
    BY DEF Consistent, TablesOK
  <1>2. /\ MovePhase(r, cv, iv, incident[r].phase, "executing",
                     incident[r].diagnosis)
        /\ UNCHANGED <<control, command, request>>
    BY DEF EnterExecuting, MovePhase
  <1>3. /\ incident[r].phase \in LivePhase
        /\ incident'[r].phase = "executing"
        /\ incident'[r].diagnosis = incident[r].diagnosis
        /\ \A q \in Run \ {r} : incident'[q] = incident[q]
    BY <1>1, <1>2, PhaseMoves
  <1> DEFINE Recoveries == [Run -> [status : RecoveryStatus, version : Nat,
                                    approval : Approval]]
  <1>a. /\ recovery \in Recoveries
        /\ recovery' = [recovery EXCEPT ![r].status = "executing",
                                        ![r].version = @ + 1]
    BY DEF EnterExecuting, Consistent, TablesOK
  <1>4. recovery' \in Recoveries
    BY <1>a DEF RecoveryStatus
  <1>5. /\ recovery'[r].status = "executing"
        /\ recovery'[r].approval = recovery[r].approval
        /\ \A q \in Run \ {r} : recovery'[q] = recovery[q]
    BY <1>a
  <1>6. TablesOK' /\ RunLock' /\ RestorationGate'
    BY <1>1, <1>2, <1>4, PhaseMoves DEF Consistent, TablesOK
  <1>7. /\ recovery[r].status # "none"
        /\ command[r].mode = "approval_required" =>
             recovery[r].approval = "approved"
    BY DEF EnterExecuting, MayExecute
  <1>8. RecoveryMatchesPhase' /\ ExecutionAuthorised'
    BY <1>2, <1>3, <1>5, <1>7 DEF Consistent, Relations, RecoveryMatchesPhase,
       ExecutionAuthorised
  <1>9. \A q \in Run : KeepsOutcome(q) /\ KeepsDecision(q)
    BY <1>2, <1>3, <1>5 DEF KeepsOutcome, KeepsDecision, LivePhase, Terminal
  <1>. QED  BY <1>6, <1>8, <1>9 DEF GoodStep, Consistent, Relations

\* The executed restart moves both rows together.
LEMMA StartVerifying ==
  ASSUME Consistent, NEW r \in Run, NEW cv, NEW iv, NEW rv,
         EnterVerifying(r, cv, iv, rv)
  PROVE  GoodStep
  <1>1. incident[r].diagnosis \in Diagnosis
    BY DEF Consistent, TablesOK
  <1>2. /\ MovePhase(r, cv, iv, "executing", "verifying",
                     incident[r].diagnosis)
        /\ UNCHANGED <<control, command, request>>
    BY DEF EnterVerifying, MovePhase
  <1>3. /\ incident[r].phase = "executing"
        /\ incident'[r].phase = "verifying"
        /\ incident'[r].diagnosis = incident[r].diagnosis
        /\ \A q \in Run \ {r} : incident'[q] = incident[q]
    BY <1>1, <1>2, PhaseMoves
  <1>4. recovery' \in [Run -> [status : RecoveryStatus, version : Nat,
                               approval : Approval]]
    BY DEF EnterVerifying, Consistent, TablesOK, RecoveryStatus
  <1>5. /\ recovery'[r].status = "executed"
        /\ recovery'[r].approval = recovery[r].approval
        /\ \A q \in Run \ {r} : recovery'[q] = recovery[q]
    BY DEF EnterVerifying, Consistent, TablesOK
  <1>6. TablesOK' /\ RunLock' /\ RestorationGate'
    BY <1>1, <1>2, <1>4, PhaseMoves DEF Consistent, TablesOK
  <1>7. recovery[r].status = "executing"
    BY DEF EnterVerifying
  <1>8. RecoveryMatchesPhase' /\ ExecutionAuthorised'
    BY <1>2, <1>3, <1>5, <1>7 DEF Consistent, Relations, RecoveryMatchesPhase,
       ExecutionAuthorised
  <1>9. \A q \in Run : KeepsOutcome(q) /\ KeepsDecision(q)
    BY <1>2, <1>3, <1>5 DEF KeepsOutcome, KeepsDecision, Terminal
  <1>. QED  BY <1>6, <1>8, <1>9 DEF GoodStep, Consistent, Relations

\* Restoration is recorded beside the outcome.
LEMMA RestoreEnvironment ==
  ASSUME Consistent, NEW r \in Run, NEW iv,
         \/ ClaimEnvironmentRecovery(r, iv)
         \/ CompleteEnvironmentRecovery(r, iv)
         \/ FailEnvironmentRecovery(r, iv)
  PROVE  GoodStep
  <1>1. PICK to \in {"pending", "restoring", "restored"},
             from \in {"pending", "restoring"} :
          /\ MoveEnvironment(r, from, to)
          /\ \/ to \in {"pending", "restoring"} /\ UNCHANGED control
             \/ to = "restored"
                /\ control' = [control EXCEPT !.restoring = NoRun]
    BY DEF ClaimEnvironmentRecovery, CompleteEnvironmentRecovery,
       FailEnvironmentRecovery
  <1>2. TablesOK'
    BY <1>1 DEF MoveEnvironment, Consistent, TablesOK, Environment
  <1>3. RunLock' /\ RestorationGate'
    BY <1>1 DEF MoveEnvironment, Consistent, Relations, TablesOK, RunLock,
       RestorationGate
  <1>4. /\ RecoveryMatchesPhase' /\ ExecutionAuthorised'
        /\ \A q \in Run : KeepsOutcome(q) /\ KeepsDecision(q)
    BY <1>1 DEF MoveEnvironment, Consistent, Relations, TablesOK,
       RecoveryMatchesPhase, ExecutionAuthorised, KeepsOutcome, KeepsDecision
  <1>. QED  BY <1>2, <1>3, <1>4 DEF GoodStep, Consistent, Relations

-----------------------------------------------------------------------------
(* Every step. *)

\* The empty database satisfies the invariant.
LEMMA EmptyTables == Init => Consistent
  BY DEF Init, Consistent, Relations, TablesOK, NoCommand, NoIncident,
     NoRecovery, CommandStatus, Mode, Phase, Diagnosis, Environment,
     RecoveryStatus, Approval, RequestStep, RunLock, Live, Claimed, LivePhase,
     Terminal, RestorationGate, RecoveryMatchesPhase, ExecutionAuthorised

\* The closing writes of the cron, the heartbeat and the visitor.
LEMMA ClosingRun ==
  ASSUME Consistent, NEW r \in Run, control.active = r,
         \/ PendingApproval(r) /\ ExpireApproval(r)
         \/ Reject(r)
         \/ FailRun(r)
  PROVE  GoodStep
  <1>1. CASE PendingApproval(r) /\ ExpireApproval(r)
    BY <1>1, CloseApproval DEF ExpireApproval
  <1>2. CASE Reject(r)
    BY <1>2, CloseApproval DEF Reject, CanDecide
  <1>3. CASE FailRun(r)
    BY <1>3, FailingRun
  <1>. QED  BY <1>1, <1>2, <1>3

\* The steps of the visitor, the cron and the heartbeat.
LEMMA VisitorCronHeartbeat ==
  ASSUME Consistent, Visitor \/ Cron \/ Heartbeat PROVE GoodStep
  <1>1. ASSUME NEW enabled \in BOOLEAN, SetEnabled(enabled) PROVE GoodStep
    BY <1>1, WriteEnabled
  <1>2. ASSUME NEW r \in Run, NEW mode \in Mode, RequestRun(r, mode)
        PROVE GoodStep
    BY <1>2, StartRun
  <1>3. ASSUME NEW r \in Run, Approve(r) PROVE GoodStep
    BY <1>3, ApproveRun
  <1>4. ASSUME NEW r \in Run, Reject(r) PROVE GoodStep
    BY <1>4, ClosingRun DEF Reject, CanDecide
  <1>5. ASSUME NEW r \in Run, WatchActiveRun(r) PROVE GoodStep
    BY <1>5, ClosingRun DEF WatchActiveRun
  <1>6. ASSUME HeartbeatIdle PROVE GoodStep
    BY <1>6, KeepTables DEF HeartbeatIdle
  <1>7. ASSUME NEW r \in Run, HeartbeatWaiting(r) PROVE GoodStep
    BY <1>7, KeepTables DEF HeartbeatWaiting
  <1>8. ASSUME NEW r \in Run, HeartbeatCleaning(r) PROVE GoodStep
    BY <1>8, ClosingRun DEF HeartbeatCleaning
  <1>. QED
    BY <1>1, <1>2, <1>3, <1>4, <1>5, <1>6, <1>7, <1>8
    DEF Visitor, Cron, Heartbeat

\* The mutations that name a command version only.
LEMMA CommandMutations ==
  ASSUME Consistent, NEW r \in Run, NEW cv, CommandMutation(r, cv)
  PROVE  GoodStep
  <1>1. CASE RenewLease(r, cv)
    BY <1>1, KeepTables DEF RenewLease
  <1>2. CASE FailDemoCommand(r, cv)
    BY <1>2, ClosingRun DEF FailDemoCommand
  <1>3. CASE ClaimDemoCommand(r, cv)
    BY <1>3, AdvanceCommand DEF ClaimDemoCommand, CanClaim, Live, Claimed
  <1>4. CASE ClaimExpiredCommand(r, cv)
    BY <1>4, ClosingRun DEF ClaimExpiredCommand, CanClaim
  <1>5. CASE MarkResetApplied(r, cv)
    BY <1>5, AdvanceCommand DEF MarkResetApplied, MarkProgress,
       RequireClaimed, Live, Claimed
  <1>6. CASE MarkFailureConfirmed(r, cv)
    BY <1>6, AdvanceCommand DEF MarkFailureConfirmed, MarkProgress,
       RequireClaimed, Live, Claimed
  <1>7. CASE CreateIncident(r, cv)
    BY <1>7, OpenIncident
  <1>8. CASE \E iv \in {NoVersion, incident[r].version},
                age \in 0..StepDeadline : AppendStep(r, cv, iv, age)
    BY <1>8, KeepTables DEF AppendStep
  <1>. QED
    BY <1>1, <1>2, <1>3, <1>4, <1>5, <1>6, <1>7, <1>8 DEF CommandMutation

\* The mutations that name an incident version too.
LEMMA IncidentMutations ==
  ASSUME Consistent, NEW r \in Run, NEW cv, NEW iv, NEW rv,
         IncidentMutation(r, cv, iv, rv)
  PROVE  GoodStep
  <1>1. CASE AppendApprovalRequest(r, cv, iv)
    BY <1>1, WriteRequest DEF AppendApprovalRequest, RequestStep
  <1>2. CASE CreateRecoveryCommand(r, cv, iv)
    BY <1>2, ProposeRecovery
  <1>3. ASSUME NEW to, NEW diagnosis \in Diagnosis,
               UpdateIncidentPhase(r, cv, iv, incident[r].phase, to, diagnosis)
        PROVE  GoodStep
    BY <1>3, InvestigatePhase
  <1>4. CASE AwaitApproval(r, cv, iv, rv)
    BY <1>4, AskForApproval
  <1>5. CASE EnterExecuting(r, cv, iv, rv, incident[r].phase)
    BY <1>5, StartExecuting
  <1>6. CASE EnterVerifying(r, cv, iv, rv)
    BY <1>6, StartVerifying
  <1>7. ASSUME NEW terminal \in Terminal,
               CompleteIncident(r, cv, iv, rv, incident[r].phase, terminal)
        PROVE  GoodStep
    BY <1>7, CompletingRun
  <1>8. CASE \/ ClaimEnvironmentRecovery(r, iv)
             \/ CompleteEnvironmentRecovery(r, iv)
             \/ FailEnvironmentRecovery(r, iv)
    BY <1>8, RestoreEnvironment
  <1>. QED
    BY <1>1, <1>2, <1>3, <1>4, <1>5, <1>6, <1>7, <1>8 DEF IncidentMutation

\* Every step of the specification preserves the invariant and both
\* finalities.
LEMMA EveryStep == Consistent /\ [Next]_vars => GoodStep
  <1> SUFFICES ASSUME Consistent, [Next]_vars PROVE GoodStep
    OBVIOUS
  <1>1. CASE Tick
    BY <1>1, KeepTables DEF Tick
  <1>2. CASE NewDay
    BY <1>2, WriteDay
  <1>3. CASE Visitor \/ Cron \/ Heartbeat
    BY <1>3, VisitorCronHeartbeat
  <1>4. CASE RunnerMutation
    BY <1>4, CommandMutations, IncidentMutations DEF RunnerMutation
  <1>5. CASE UNCHANGED vars
    BY <1>5, KeepTables DEF vars, tables
  <1>. QED  BY <1>1, <1>2, <1>3, <1>4, <1>5 DEF Next

-----------------------------------------------------------------------------
(* The daily count. *)

CreatedToday == {r \in Run : command[r].createdToday}

\* The count of the day is that of the rows created on it; and a row that was
\* created has a status.
Counted ==
  /\ IsFiniteSet(CreatedToday)
  /\ Cardinality(CreatedToday) = RunsToday
  /\ RunsToday <= DailyCap
  /\ \A r \in CreatedToday : command[r].status # "none"

\* What a step that neither starts a run nor a day leaves alone.
SameDay ==
  /\ control'.today = control.today
  /\ control'.dayCount = control.dayCount
  /\ \A q \in Run :
       /\ command'[q].createdToday = command[q].createdToday
       /\ command'[q].status = "none" <=> command[q].status = "none"
       /\ command'[q].status = "queued" => command[q].status = "queued"

\* A run is a row that moves on; the lock may be released by it.
LEMMA RowMovesOn ==
  ASSUME TablesOK, NEW r \in Run, NEW status \in CommandStatus,
         status \notin {"none", "queued"}, command[r].status # "none",
         SetCommandStatus(r, status),
         \/ UNCHANGED control
         \/ ReleaseToRestoration(r)
         \/ \E pending \in Run \union {NoRun} :
              control' = [control EXCEPT !.active = NoRun, !.incident = NoRun,
                                         !.restoring = pending]
  PROVE  SameDay
  <1>1. control'.today = control.today /\ control'.dayCount = control.dayCount
    BY DEF TablesOK, ReleaseToRestoration
  <1> DEFINE Row == [status : CommandStatus, mode : Mode, version : Nat,
                     createdToday : BOOLEAN]
             row == [[command[r] EXCEPT !.status = status]
                       EXCEPT !.version = command[r].version + 1]
  <1>2. command \in [Run -> Row] /\ command' = [command EXCEPT ![r] = row]
    BY DEF TablesOK, SetCommandStatus
  <1>3. row.status = status /\ row.createdToday = command[r].createdToday
    BY <1>2
  <1> HIDE DEF row, Row
  <1>4. /\ command'[r] = row
        /\ \A q \in Run \ {r} : command'[q] = command[q]
    BY <1>2
  <1>. QED  BY <1>1, <1>3, <1>4 DEF SameDay

\* A step that writes no command and at most a pointer of the lock.
LEMMA RowsStand ==
  ASSUME TablesOK, UNCHANGED command,
         \/ UNCHANGED control
         \/ \E on \in BOOLEAN : control' = [control EXCEPT !.enabled = on]
         \/ \E r \in Run : control' = [control EXCEPT !.incident = r]
         \/ control' = [control EXCEPT !.restoring = NoRun]
  PROVE  SameDay
  BY DEF TablesOK, SameDay

\* The closing writes of a live run.
LEMMA ClosingSameDay ==
  ASSUME Consistent, NEW r \in Run, control.active = r,
         ExpireApproval(r) \/ Reject(r) \/ FailRun(r)
  PROVE  SameDay
  <1>1. /\ TablesOK
        /\ command[r].status \in Live
    BY DEF Consistent, Relations, RunLock
  <1>2. PICK status \in {"complete", "failed"} :
          SetCommandStatus(r, status) /\ ReleaseToRestoration(r)
    BY DEF ExpireApproval, Reject, FailRun
  <1>. QED  BY <1>1, <1>2, RowMovesOn DEF Live, Claimed, CommandStatus

\* Only a request and a new day touch the count.
LEMMA OtherwiseSameDay ==
  ASSUME Consistent, [Next]_vars, ~NewDay,
         \A r \in Run, mode \in Mode : ~RequestRun(r, mode)
  PROVE  SameDay
  <1>1. TablesOK
    BY DEF Consistent
  <1>2. CASE Tick \/ UNCHANGED vars
    BY <1>1, <1>2, RowsStand DEF Tick, vars, tables
  <1>3. CASE Visitor
    <2>1. ASSUME NEW on \in BOOLEAN, SetEnabled(on) PROVE SameDay
      BY <1>1, <2>1, RowsStand DEF SetEnabled
    <2>2. ASSUME NEW r \in Run, Approve(r) PROVE SameDay
      BY <1>1, <2>2, RowsStand DEF Approve
    <2>3. ASSUME NEW r \in Run, Reject(r) PROVE SameDay
      BY <2>3, ClosingSameDay DEF Reject, CanDecide
    <2>. QED  BY <1>3, <2>1, <2>2, <2>3 DEF Visitor
  <1>4. CASE Cron
    BY <1>4, ClosingSameDay DEF Cron, WatchActiveRun
  <1>5. CASE Heartbeat
    <2>1. CASE HeartbeatIdle \/ \E r \in Run : HeartbeatWaiting(r)
      BY <1>1, <2>1, RowsStand DEF HeartbeatIdle, HeartbeatWaiting, tables
    <2>2. CASE \E r \in Run : HeartbeatCleaning(r)
      BY <2>2, ClosingSameDay DEF HeartbeatCleaning
    <2>. QED  BY <1>5, <2>1, <2>2 DEF Heartbeat
  <1>6. ASSUME NEW r \in Run, NEW cv, CommandMutation(r, cv) PROVE SameDay
    <2>1. CASE RenewLease(r, cv)
      BY <1>1, <2>1, RowsStand DEF RenewLease, tables
    <2>2. CASE FailDemoCommand(r, cv) \/ ClaimExpiredCommand(r, cv)
      BY <2>2, ClosingSameDay
      DEF FailDemoCommand, ClaimExpiredCommand, CanClaim
    <2>3. CASE ClaimDemoCommand(r, cv) \/ MarkResetApplied(r, cv)
                 \/ MarkFailureConfirmed(r, cv)
      <3>1. PICK status \in Claimed :
              /\ SetCommandStatus(r, status) /\ UNCHANGED control
              /\ command[r].status # "none"
        BY <2>3 DEF ClaimDemoCommand, MarkResetApplied, MarkFailureConfirmed,
           MarkProgress, CanClaim, RequireClaimed, Claimed
      <3>. QED  BY <1>1, <3>1, RowMovesOn DEF Live, Claimed, CommandStatus
    <2>4. CASE CreateIncident(r, cv)
      BY <1>1, <2>4, RowsStand DEF CreateIncident
    <2>5. CASE \E iv \in {NoVersion, incident[r].version},
                  age \in 0..StepDeadline : AppendStep(r, cv, iv, age)
      BY <1>1, <2>5, RowsStand DEF AppendStep, tables
    <2>. QED
      BY <1>6, <2>1, <2>2, <2>3, <2>4, <2>5 DEF CommandMutation
  <1>7. ASSUME NEW r \in Run, NEW cv, NEW iv, NEW rv,
               IncidentMutation(r, cv, iv, rv)
        PROVE  SameDay
    <2>1. CASE \E terminal \in Terminal :
                 CompleteIncident(r, cv, iv, rv, incident[r].phase, terminal)
      <3>1. PICK status \in {"complete", "failed"},
                 pending \in Run \union {NoRun} :
              /\ SetCommandStatus(r, status)
              /\ control' = [control EXCEPT !.active = NoRun,
                                            !.incident = NoRun,
                                            !.restoring = pending]
              /\ command[r].status # "none"
        BY <2>1 DEF CompleteIncident, RequireIncidentWrite, RequireClaimed
      <3>. QED  BY <1>1, <3>1, RowMovesOn DEF CommandStatus
    <2>2. CASE ~\E terminal \in Terminal :
                 CompleteIncident(r, cv, iv, rv, incident[r].phase, terminal)
      <3>1. /\ UNCHANGED command
            /\ \/ UNCHANGED control
               \/ control' = [control EXCEPT !.restoring = NoRun]
        BY <1>7, <2>2
        DEF IncidentMutation, AppendApprovalRequest, CreateRecoveryCommand,
            UpdateIncidentPhase, AwaitApproval, EnterExecuting, EnterVerifying,
            MovePhase, ClaimEnvironmentRecovery, CompleteEnvironmentRecovery,
            FailEnvironmentRecovery, MoveEnvironment
      <3>. QED  BY <1>1, <3>1, RowsStand
    <2>. QED  BY <2>1, <2>2
  <1>. QED
    BY <1>2, <1>3, <1>4, <1>5, <1>6, <1>7 DEF Next, RunnerMutation

\* The count of the day through a step: emptied by a new day, one more by a
\* request, which the cap admits, and the same otherwise.
LEMMA CountStep ==
  ASSUME Consistent, Counted, [Next]_vars PROVE Counted'
  <1>1. /\ TablesOK /\ RunsToday \in Nat /\ DailyCap \in Nat
    BY DeadlinesArePositive DEF Consistent, TablesOK, RunsToday
  <1>2. CASE NewDay
    <2>1. /\ control'.today = FALSE
          /\ \A q \in Run : command'[q].createdToday = FALSE
      BY <1>1, <1>2 DEF NewDay, TablesOK
    <2>2. CreatedToday' = {} /\ RunsToday' = 0
      BY <2>1 DEF CreatedToday, RunsToday
    <2>. QED  BY <1>1, <2>2, FS_EmptySet DEF Counted
  <1>3. ASSUME NEW r \in Run, NEW mode \in Mode, RequestRun(r, mode)
        PROVE  Counted'
    <2>1. /\ RunsToday' = RunsToday + 1
          /\ RunsToday < DailyCap
      <3> DEFINE count == RunsToday + 1
      <3>1. control' = [control EXCEPT !.active = r, !.incident = NoRun,
                                       !.restoring = NoRun, !.today = TRUE,
                                       !.dayCount = count]
        BY <1>3 DEF RequestRun
      <3> HIDE DEF count
      <3>2. control'.today = TRUE /\ control'.dayCount = count
        BY <1>1, <3>1 DEF TablesOK
      <3>3. RunsToday' = count
        BY <3>2 DEF RunsToday
      <3>. QED  BY <1>3, <3>3 DEF RequestRun, count
    <2>2. /\ command[r].status = "none"
          /\ command'[r].status = "queued" /\ command'[r].createdToday
          /\ \A q \in Run \ {r} : command'[q] = command[q]
      BY <1>1, <1>3 DEF RequestRun, TablesOK
    <2>3. /\ CreatedToday' = CreatedToday \union {r}
          /\ r \notin CreatedToday
      BY <2>2 DEF CreatedToday, Counted
    <2>4. /\ IsFiniteSet(CreatedToday')
          /\ Cardinality(CreatedToday') = RunsToday + 1
      BY <1>1, <2>3, FS_AddElement DEF Counted
    <2>5. \A q \in CreatedToday' : command'[q].status # "none"
      BY <2>2, <2>3 DEF Counted, CreatedToday
    <2>. QED  BY <1>1, <2>1, <2>4, <2>5 DEF Counted
  <1>4. CASE ~NewDay /\ \A r \in Run, mode \in Mode : ~RequestRun(r, mode)
    <2>1. SameDay
      BY <1>4, OtherwiseSameDay
    <2>2. CreatedToday' = CreatedToday /\ RunsToday' = RunsToday
      BY <2>1 DEF SameDay, CreatedToday, RunsToday
    <2>. QED  BY <2>1, <2>2 DEF Counted, SameDay, CreatedToday
  <1>. QED  BY <1>2, <1>3, <1>4

-----------------------------------------------------------------------------
(* The promise. *)

USE DEF Promise!Mode

\* A row that waits for its first claim has no incident, which RunLock alone
\* does not say.
QueuedIsNew ==
  \A r \in Run :
    command[r].status \in {"none", "queued"} => incident[r].phase = "none"

\* What the promise reads of a run.
SameView(q) ==
  /\ command'[q].status = command[q].status
  /\ command'[q].mode = command[q].mode
  /\ incident'[q].phase = incident[q].phase
  /\ recovery'[q].approval = recovery[q].approval

\* The environment as the promise sees it.
Lent ==
  IF control.active # NoRun THEN "in_use"
  ELSE IF control.restoring # NoRun THEN "dirty" ELSE "ready"

Shown == <<[r \in Run |-> command[r].mode], [r \in Run |-> StageOf(r)], Lent>>

\* A run moves on in the promise when its stage changes and no other's does.
LEMMA OneMoves ==
  ASSUME NEW r \in Run, NEW to, \A q \in Run \ {r} : SameView(q),
         command'[r].mode = command[r].mode, StageOf(r)' = to
  PROVE  Promise!Move(r, to)
  <1>1. \A q \in Run \ {r} : StageOf(q)' = StageOf(q)
    BY DEF SameView, StageOf
  <1>2. \A q \in Run : command'[q].mode = command[q].mode
    BY DEF SameView
  <1> DEFINE stages == [q \in Run |-> StageOf(q)]
  <1>3. stages' = [stages EXCEPT ![r] = to]
    BY <1>1
  <1>4. [q \in Run |-> command[q].mode]' = [q \in Run |-> command[q].mode]
    BY <1>2
  <1>. QED  BY <1>3, <1>4 DEF Promise!Move

\* A step whose runs keep their stages, and which leaves the environment with
\* whoever has it, is none of the promise.
LEMMA NoneMoves ==
  ASSUME \A q \in Run : /\ command'[q].mode = command[q].mode
                         /\ StageOf(q)' = StageOf(q),
         Lent' = Lent
  PROVE  UNCHANGED Shown
  <1>1. [q \in Run |-> command[q].mode]' = [q \in Run |-> command[q].mode]
    OBVIOUS
  <1>2. [q \in Run |-> StageOf(q)]' = [q \in Run |-> StageOf(q)]
    OBVIOUS
  <1>. QED  BY <1>1, <1>2 DEF Shown

\* A run ends unresolved: it failed if its restart was permitted to start.
LEMMA RunGivesUp ==
  ASSUME Consistent, QueuedIsNew, NEW r \in Run, control.active = r,
         incident'[r].phase \in Terminal \ {"resolved"},
         incident'[r].phase = "failed_recovery"
           <=> incident[r].phase \in {"executing", "verifying"},
         command'[r].status \in {"complete", "failed"},
         command'[r].mode = command[r].mode,
         \A q \in Run \ {r} : SameView(q),
         control'.active = NoRun, control'.restoring = r
  PROVE  Promise!GiveUp(r)
  <1>1. /\ command[r].status \in Live
        /\ incident[r].phase \in LivePhase \union {"none"}
    BY DEF Consistent, Relations, TablesOK, RunLock, Live, Claimed, Phase
  <1>2. Lent' = "dirty"
    BY DEF Lent
  <1>3. CASE incident[r].phase \in {"executing", "verifying"}
    <2>1. StageOf(r) \in {"restarting", "verifying"}
      BY <1>1, <1>3 DEF QueuedIsNew, StageOf, Live, Claimed
    <2>2. StageOf(r)' = "failed"
      BY <1>3 DEF StageOf
    <2>3. Promise!Move(r, "failed")
      BY <2>2, OneMoves
    <2>. QED  BY <1>2, <2>1, <2>3 DEF Promise!GiveUp, Promise!Restarted, Lent
  <1>4. CASE incident[r].phase \notin {"executing", "verifying"}
    <2>1. StageOf(r) \in {"diagnosing", "waiting", "approved"}
      BY <1>1, <1>4 DEF QueuedIsNew, StageOf, Live, Claimed, LivePhase
    <2>2. incident'[r].phase \in {"needs_human", "investigation_failed"}
      BY <1>4 DEF Terminal
    <2>3. StageOf(r)' = "abandoned"
      BY <2>2 DEF StageOf
    <2>4. Promise!Move(r, "abandoned")
      BY <2>3, OneMoves
    <2>. QED
      BY <1>2, <2>1, <2>4 DEF Promise!GiveUp, Promise!BeforeRestart, Lent
  <1>. QED  BY <1>3, <1>4

\* The closing writes of the visitor, the cron and the heartbeat.
LEMMA ClosingGivesUp ==
  ASSUME Consistent, QueuedIsNew, NEW r \in Run, control.active = r,
         \/ PendingApproval(r) /\ ExpireApproval(r)
         \/ Reject(r)
         \/ FailRun(r)
  PROVE  Promise!GiveUp(r)
  <1>1. /\ command[r].status \in Live
        /\ incident[r].phase \in LivePhase =>
             control.incident = r
    BY DEF Consistent, Relations, RunLock
  <1>2. control'.active = NoRun /\ control'.restoring = r
    BY DEF Consistent, TablesOK, ExpireApproval, Reject, FailRun,
       ReleaseToRestoration
  <1>3. /\ command'[r].status \in {"complete", "failed"}
        /\ command'[r].mode = command[r].mode
        /\ \A q \in Run \ {r} : command'[q] = command[q]
    BY DEF Consistent, TablesOK, ExpireApproval, Reject, FailRun,
       SetCommandStatus
  <1>4. \A q \in Run \ {r} :
          /\ incident'[q].phase = incident[q].phase
          /\ recovery'[q] = recovery[q]
    BY DEF Consistent, TablesOK, ExpireApproval, Reject, FailRun, EndIncident
  <1>5. /\ incident'[r].phase \in Terminal \ {"resolved"}
        /\ incident'[r].phase = "failed_recovery"
             <=> incident[r].phase \in {"executing", "verifying"}
    <2>1. CASE (PendingApproval(r) /\ ExpireApproval(r)) \/ Reject(r)
      BY <2>1 DEF Consistent, TablesOK, ExpireApproval, Reject, CanDecide,
         PendingApproval, EndIncident, Terminal
    <2>2. CASE FailRun(r)
      <3>1. incident'[r].phase = FailedPhase(r)
        BY <2>2 DEF FailRun, Consistent, TablesOK
      <3>. QED  BY <1>1, <3>1 DEF FailedPhase, Terminal, LivePhase
    <2>. QED  BY <2>1, <2>2
  <1>. QED  BY <1>2, <1>3, <1>4, <1>5, RunGivesUp DEF SameView

\* A step of the promise, or none.
PromiseStep == Promise!Next \/ UNCHANGED Shown

\* A step that changes nothing the promise reads.
LEMMA ViewsStand ==
  ASSUME \A q \in Run : SameView(q),
         control'.active = control.active,
         control'.restoring = control.restoring
  PROVE  PromiseStep
  <1>1. \A q \in Run : StageOf(q)' = StageOf(q)
    BY DEF SameView, StageOf
  <1>2. Lent' = Lent
    BY DEF Lent
  <1>. QED  BY <1>1, <1>2, NoneMoves DEF SameView, PromiseStep

\* Before the incident asks for a permission, a run is being diagnosed.
LEMMA StillDiagnosing ==
  ASSUME Consistent, NEW r \in Run,
         command[r].status \in Live, command'[r].status \in Live,
         command'[r].mode = command[r].mode,
         incident[r].phase \in {"none", "failed_detected", "investigating",
                                "manager_review", "policy_check"},
         incident'[r].phase \in {"none", "failed_detected", "investigating",
                                 "manager_review", "policy_check"},
         \A q \in Run \ {r} : SameView(q),
         control'.active = control.active,
         control'.restoring = control.restoring
  PROVE  PromiseStep
  <1>1. StageOf(r) = "diagnosing" /\ StageOf(r)' = "diagnosing"
    BY DEF StageOf, Live, Claimed
  <1>2. \A q \in Run : StageOf(q)' = StageOf(q)
    BY <1>1 DEF SameView, StageOf
  <1>3. Lent' = Lent
    BY DEF Lent
  <1>. QED  BY <1>2, <1>3, NoneMoves DEF SameView, PromiseStep

\* The environment is lent to a run when no other has it and none left it
\* dirty.
LEMMA PromiseStarts ==
  ASSUME Consistent, NEW r \in Run, NEW mode \in Mode, RequestRun(r, mode)
  PROVE  PromiseStep
  <1>1. control.active = NoRun /\ control.restoring = NoRun
    BY DEF RequestRun, EnvironmentPending, Consistent, Relations, TablesOK,
       RestorationGate
  <1>2. control'.active = r
    <2> DEFINE count == RunsToday + 1
    <2>1. control' = [control EXCEPT !.active = r, !.incident = NoRun,
                                     !.restoring = NoRun, !.today = TRUE,
                                     !.dayCount = count]
      BY DEF RequestRun
    <2> HIDE DEF count
    <2>. QED  BY <2>1 DEF Consistent, TablesOK
  <1>3. /\ command[r].status = "none"
        /\ command'[r].status = "queued" /\ command'[r].mode = mode
        /\ \A q \in Run \ {r} : SameView(q)
    BY DEF RequestRun, Consistent, TablesOK, SameView
  <1>4. incident[r].phase = "none" /\ incident'[r].phase = "none"
    BY <1>3 DEF RequestRun, Consistent, Relations, TablesOK, RunLock, Phase,
       Live, Claimed
  <1>5. StageOf(r) = "new" /\ StageOf(r)' = "diagnosing"
    BY <1>3, <1>4 DEF StageOf
  <1>6. \A q \in Run \ {r} : StageOf(q)' = StageOf(q)
    BY <1>3 DEF StageOf, SameView
  <1> DEFINE stages == [q \in Run |-> StageOf(q)]
             modes == [q \in Run |-> command[q].mode]
  <1>7. stages[r] = "new" /\ stages' = [stages EXCEPT ![r] = "diagnosing"]
    BY <1>5, <1>6
  <1>8. modes' = [modes EXCEPT ![r] = mode]
    BY <1>3 DEF SameView
  <1>9. Lent = "ready" /\ Lent' = "in_use"
    BY <1>1, <1>2 DEF Lent
  <1>10. Promise!Start(r, mode)
    BY <1>7, <1>8, <1>9 DEF Promise!Start, Lent
  <1>. QED  BY <1>10 DEF PromiseStep, Promise!Next, Mode

\* The visitor permits a restart that waits for him.
LEMMA PromisePermits ==
  ASSUME Consistent, QueuedIsNew, NEW r \in Run, Approve(r) PROVE PromiseStep
  <1>1. /\ command[r].status \notin {"none", "queued"}
        /\ incident[r].phase = "awaiting_approval"
        /\ recovery[r].approval = "pending"
        /\ recovery'[r].approval = "approved"
        /\ \A q \in Run \ {r} : recovery'[q] = recovery[q]
        /\ UNCHANGED <<control, command, incident>>
    BY DEF Approve, CanDecide, PendingApproval, Consistent, TablesOK,
       QueuedIsNew
  <1>2. StageOf(r) = "waiting" /\ StageOf(r)' = "approved" /\ Lent' = Lent
    BY <1>1 DEF StageOf, Lent
  <1>3. Promise!Move(r, "approved")
    BY <1>1, <1>2, OneMoves DEF SameView
  <1>. QED
    BY <1>2, <1>3 DEF Promise!Permit, Promise!Next, PromiseStep, Lent

\* What a phase change of a claimed run leaves alone.
LEMMA PhaseViews ==
  ASSUME Consistent, NEW r \in Run, NEW cv, NEW iv, NEW from, NEW to,
         NEW diagnosis, MovePhase(r, cv, iv, from, to, diagnosis)
  PROVE  /\ incident[r].phase = from /\ incident'[r].phase = to
         /\ command[r].status = "failure_confirmed"
         /\ to \in NextPhases(from) \ Terminal
         /\ \A q \in Run \ {r} : incident'[q] = incident[q]
         /\ UNCHANGED <<command, control>>
  BY DEF MovePhase, RequireIncidentWrite, RequireClaimed, Consistent, TablesOK

\* The run asks the visitor.
LEMMA PromiseAsks ==
  ASSUME Consistent, NEW r \in Run, NEW cv, NEW iv, NEW rv,
         AwaitApproval(r, cv, iv, rv)
  PROVE  PromiseStep
  <1>1. /\ MovePhase(r, cv, iv, "policy_check", "awaiting_approval",
                     incident[r].diagnosis)
        /\ UNCHANGED recovery
        /\ recovery[r].approval = "pending"
        /\ command[r].mode = "approval_required"
    BY DEF AwaitApproval
  <1>2. /\ incident[r].phase = "policy_check"
        /\ incident'[r].phase = "awaiting_approval"
        /\ command[r].status = "failure_confirmed"
        /\ \A q \in Run \ {r} : incident'[q] = incident[q]
        /\ UNCHANGED <<command, control>>
    BY <1>1, PhaseViews
  <1>3. /\ StageOf(r) = "diagnosing" /\ StageOf(r)' = "waiting"
        /\ Lent' = Lent
    BY <1>1, <1>2 DEF StageOf, Lent
  <1>4. Promise!Move(r, "waiting")
    BY <1>1, <1>2, <1>3, OneMoves DEF SameView
  <1>. QED
    BY <1>1, <1>3, <1>4 DEF Promise!AskVisitor, Promise!Next, PromiseStep, Lent

\* The restart is permitted by the policy alone or by the visitor.
LEMMA PromiseRestarts ==
  ASSUME Consistent, NEW r \in Run, NEW cv, NEW iv, NEW rv,
         EnterExecuting(r, cv, iv, rv, incident[r].phase)
  PROVE  PromiseStep
  <1> DEFINE from == incident[r].phase
  <1>1. /\ MovePhase(r, cv, iv, from, "executing", incident[r].diagnosis)
        /\ MayExecute(r, from)
        /\ recovery'[r].approval = recovery[r].approval
        /\ \A q \in Run \ {r} : recovery'[q] = recovery[q]
    BY DEF EnterExecuting, Consistent, TablesOK
  <1>2. /\ incident'[r].phase = "executing"
        /\ "executing" \in NextPhases(from)
        /\ command[r].status = "failure_confirmed"
        /\ \A q \in Run \ {r} : incident'[q] = incident[q]
        /\ UNCHANGED <<command, control>>
    BY <1>1, PhaseViews
  <1>3. /\ from \in {"policy_check", "awaiting_approval"}
        /\ from = "policy_check" => command[r].mode = "autonomous"
        /\ from = "awaiting_approval" =>
             /\ command[r].mode = "approval_required"
             /\ recovery[r].approval = "approved"
    BY <1>1, <1>2 DEF NextPhases, MayExecute
  <1>4. /\ StageOf(r) = IF command[r].mode = "autonomous" THEN "diagnosing"
                        ELSE "approved"
        /\ StageOf(r)' = "restarting" /\ Lent' = Lent
    BY <1>2, <1>3 DEF StageOf, Lent
  <1>5. Promise!Move(r, "restarting")
    BY <1>1, <1>2, <1>4, OneMoves DEF SameView
  <1>. QED
    BY <1>4, <1>5 DEF Promise!Restart, Promise!Next, PromiseStep, Lent

\* The restart is done and has to be verified.
LEMMA PromiseVerifies ==
  ASSUME Consistent, NEW r \in Run, NEW cv, NEW iv, NEW rv,
         EnterVerifying(r, cv, iv, rv)
  PROVE  PromiseStep
  <1>1. /\ MovePhase(r, cv, iv, "executing", "verifying",
                     incident[r].diagnosis)
        /\ \A q \in Run \ {r} : recovery'[q] = recovery[q]
    BY DEF EnterVerifying, Consistent, TablesOK
  <1>2. /\ incident[r].phase = "executing"
        /\ incident'[r].phase = "verifying"
        /\ command[r].status = "failure_confirmed"
        /\ \A q \in Run \ {r} : incident'[q] = incident[q]
        /\ UNCHANGED <<command, control>>
    BY <1>1, PhaseViews
  <1>3. /\ StageOf(r) = "restarting" /\ StageOf(r)' = "verifying"
        /\ Lent' = Lent
    BY <1>2 DEF StageOf, Lent
  <1>4. Promise!Move(r, "verifying")
    BY <1>1, <1>2, <1>3, OneMoves DEF SameView
  <1>. QED
    BY <1>3, <1>4 DEF Promise!Verify, Promise!Next, PromiseStep, Lent

\* A run completed by the runner: resolved, and the environment with it, or
\* given up.
LEMMA PromiseCompletes ==
  ASSUME Consistent, QueuedIsNew, NEW r \in Run, NEW cv, NEW iv, NEW rv,
         NEW terminal \in Terminal,
         CompleteIncident(r, cv, iv, rv, incident[r].phase, terminal)
  PROVE  PromiseStep
  <1>1. /\ control.active = r
        /\ command[r].status = "failure_confirmed"
        /\ terminal \in NextPhases(incident[r].phase)
    BY DEF CompleteIncident, RequireIncidentWrite, RequireActiveIncident,
       RequireClaimed
  <1>2. /\ incident'[r].phase = terminal
        /\ command'[r].status \in {"complete", "failed"}
        /\ command'[r].mode = command[r].mode
        /\ control'.active = NoRun
        /\ control'.restoring = IF terminal = "resolved" THEN NoRun ELSE r
    BY DEF CompleteIncident, EndIncident, SetCommandStatus, Consistent,
       TablesOK
  <1>3. /\ \A q \in Run \ {r} : command'[q] = command[q]
        /\ \A q \in Run \ {r} : incident'[q] = incident[q]
        /\ \A q \in Run \ {r} : recovery'[q] = recovery[q]
    BY DEF CompleteIncident, EndIncident, SetCommandStatus, Consistent,
       TablesOK
  <1>4. \A q \in Run \ {r} : SameView(q)
    BY <1>3 DEF SameView
  <1>5. CASE terminal = "resolved"
    <2>1. incident[r].phase = "verifying"
      BY <1>1, <1>5 DEF NextPhases
    <2>2. StageOf(r) = "verifying" /\ StageOf(r)' = "resolved"
      BY <1>1, <1>2, <1>5, <2>1 DEF StageOf
    <2>3. Lent' = "ready"
      BY <1>2, <1>5 DEF Lent
    <2>4. Promise!Move(r, "resolved")
      BY <1>2, <1>4, <2>2, OneMoves
    <2>. QED
      BY <2>2, <2>3, <2>4 DEF Promise!Resolve, Promise!Next, PromiseStep, Lent
  <1>6. CASE terminal # "resolved"
    <2>1. terminal = "failed_recovery"
            <=> incident[r].phase \in {"executing", "verifying"}
      BY <1>1, <1>6 DEF NextPhases, Terminal
    <2>2. Promise!GiveUp(r)
      BY <1>1, <1>2, <1>4, <1>6, <2>1, RunGivesUp
    <2>. QED  BY <2>2 DEF Promise!Next, PromiseStep
  <1>. QED  BY <1>5, <1>6

\* Restoration: the promise sees its verified end only.
LEMMA PromiseRestores ==
  ASSUME Consistent, NEW r \in Run, NEW iv,
         \/ ClaimEnvironmentRecovery(r, iv)
         \/ CompleteEnvironmentRecovery(r, iv)
         \/ FailEnvironmentRecovery(r, iv)
  PROVE  PromiseStep
  <1>1. PICK to \in Environment, from \in Environment :
          MoveEnvironment(r, from, to)
    BY DEF ClaimEnvironmentRecovery, CompleteEnvironmentRecovery,
       FailEnvironmentRecovery, Environment
  <1>2. /\ control.restoring = r
        /\ \A q \in Run : incident'[q].phase = incident[q].phase
        /\ UNCHANGED <<command, recovery>>
    BY <1>1 DEF MoveEnvironment, Consistent, TablesOK
  <1>3. \A q \in Run : SameView(q)
    BY <1>2 DEF SameView
  <1>4. CASE UNCHANGED control
    BY <1>3, <1>4, ViewsStand
  <1>5. CASE CompleteEnvironmentRecovery(r, iv)
    <2>1. control' = [control EXCEPT !.restoring = NoRun]
      BY <1>5 DEF CompleteEnvironmentRecovery
    <2>2. control.active = NoRun
      BY <1>2 DEF Consistent, Relations, RestorationGate
    <2>3. Lent = "dirty" /\ Lent' = "ready"
      BY <1>2, <2>1, <2>2 DEF Lent, Consistent, TablesOK
    <2>4. \A q \in Run : StageOf(q)' = StageOf(q)
      BY <1>3 DEF SameView, StageOf
    <2>5. /\ [q \in Run |-> StageOf(q)]' = [q \in Run |-> StageOf(q)]
          /\ [q \in Run |-> command[q].mode]' = [q \in Run |-> command[q].mode]
      BY <1>3, <2>4 DEF SameView
    <2>6. Promise!Restore
      BY <2>3, <2>5 DEF Promise!Restore, Lent
    <2>. QED  BY <2>6 DEF Promise!Next, PromiseStep
  <1>. QED
    BY <1>4, <1>5 DEF ClaimEnvironmentRecovery, FailEnvironmentRecovery

\* Every step is one of the promise or none.
LEMMA EveryPromiseStep ==
  ASSUME Consistent, QueuedIsNew, [Next]_vars PROVE PromiseStep
  <1>1. CASE Tick \/ UNCHANGED vars
    BY <1>1, ViewsStand DEF Tick, vars, tables, SameView
  <1>2. CASE NewDay
    <2>1. /\ \A q \in Run : SameView(q)
          /\ control'.active = control.active
          /\ control'.restoring = control.restoring
      BY <1>2 DEF NewDay, Consistent, TablesOK, SameView
    <2>. QED  BY <2>1, ViewsStand
  <1>3. CASE Visitor
    <2>1. ASSUME NEW on \in BOOLEAN, SetEnabled(on) PROVE PromiseStep
      <3>1. /\ control'.active = control.active
            /\ control'.restoring = control.restoring
            /\ UNCHANGED <<command, incident, recovery>>
        BY <2>1 DEF SetEnabled, Consistent, TablesOK
      <3>. QED  BY <3>1, ViewsStand DEF SameView
    <2>2. ASSUME NEW r \in Run, NEW mode \in Mode, RequestRun(r, mode)
          PROVE  PromiseStep
      BY <2>2, PromiseStarts
    <2>3. ASSUME NEW r \in Run, Approve(r) PROVE PromiseStep
      BY <2>3, PromisePermits
    <2>4. ASSUME NEW r \in Run, Reject(r) PROVE PromiseStep
      BY <2>4, ClosingGivesUp
      DEF Reject, CanDecide, Promise!Next, PromiseStep
    <2>. QED  BY <1>3, <2>1, <2>2, <2>3, <2>4 DEF Visitor
  <1>4. CASE Cron
    BY <1>4, ClosingGivesUp
    DEF Cron, WatchActiveRun, Promise!Next, PromiseStep
  <1>5. CASE Heartbeat
    <2>1. CASE HeartbeatIdle \/ \E r \in Run : HeartbeatWaiting(r)
      BY <2>1, ViewsStand
      DEF HeartbeatIdle, HeartbeatWaiting, tables, SameView
    <2>2. CASE \E r \in Run : HeartbeatCleaning(r)
      BY <2>2, ClosingGivesUp
      DEF HeartbeatCleaning, Promise!Next, PromiseStep
    <2>. QED  BY <1>5, <2>1, <2>2 DEF Heartbeat
  <1>6. ASSUME NEW r \in Run, NEW cv, CommandMutation(r, cv) PROVE PromiseStep
    <2>1. CASE \/ RenewLease(r, cv)
               \/ \E iv \in {NoVersion, incident[r].version},
                     age \in 0..StepDeadline : AppendStep(r, cv, iv, age)
      BY <2>1, ViewsStand DEF RenewLease, AppendStep, tables, SameView
    <2>2. CASE FailDemoCommand(r, cv) \/ ClaimExpiredCommand(r, cv)
      BY <2>2, ClosingGivesUp
      DEF FailDemoCommand, ClaimExpiredCommand, CanClaim, Promise!Next,
          PromiseStep
    <2>3. CASE ClaimDemoCommand(r, cv)
      <3>1. incident[r].phase = "none"
        BY <2>3 DEF ClaimDemoCommand, CanClaim, QueuedIsNew
      <3>2. /\ command[r].status \in Live /\ command'[r].status \in Live
            /\ command'[r].mode = command[r].mode
            /\ \A q \in Run \ {r} : SameView(q)
            /\ UNCHANGED <<control, incident>>
        BY <2>3 DEF ClaimDemoCommand, CanClaim, SetCommandStatus, Consistent,
           TablesOK, SameView, Live, Claimed
      <3>. QED  BY <3>1, <3>2, StillDiagnosing
    <2>4. CASE MarkResetApplied(r, cv) \/ MarkFailureConfirmed(r, cv)
      <3>1. /\ command[r].status \in Claimed
            /\ command'[r].status \in Claimed
            /\ command'[r].mode = command[r].mode
            /\ \A q \in Run \ {r} : SameView(q)
            /\ UNCHANGED <<control, incident, recovery>>
        BY <2>4 DEF MarkResetApplied, MarkFailureConfirmed, MarkProgress,
           RequireClaimed, SetCommandStatus, Consistent, TablesOK, SameView,
           Claimed
      <3>2. /\ StageOf(r)' = StageOf(r) /\ Lent' = Lent
            /\ \A q \in Run \ {r} : StageOf(q)' = StageOf(q)
        BY <3>1 DEF StageOf, SameView, Claimed, Lent
      <3>. QED  BY <3>1, <3>2, NoneMoves DEF SameView, PromiseStep
    <2>5. CASE CreateIncident(r, cv)
      <3>1. /\ incident[r].phase = "none"
            /\ incident'[r].phase = "failed_detected"
            /\ \A q \in Run \ {r} : incident'[q] = incident[q]
            /\ command[r].status \in Live
            /\ UNCHANGED <<command, recovery>>
            /\ control'.active = control.active
            /\ control'.restoring = control.restoring
        BY <2>5 DEF CreateIncident, RequireClaimed, Consistent, TablesOK,
           Live, Claimed
      <3>. QED  BY <3>1, StillDiagnosing DEF SameView
    <2>. QED
      BY <1>6, <2>1, <2>2, <2>3, <2>4, <2>5 DEF CommandMutation
  <1>7. ASSUME NEW r \in Run, NEW cv, NEW iv, NEW rv,
               IncidentMutation(r, cv, iv, rv)
        PROVE  PromiseStep
    <2>1. CASE AppendApprovalRequest(r, cv, iv)
      BY <2>1, ViewsStand DEF AppendApprovalRequest, SameView
    <2>2. CASE CreateRecoveryCommand(r, cv, iv)
      <3>1. /\ incident[r].phase = "policy_check"
            /\ command[r].status \in Live
            /\ \A q \in Run \ {r} : recovery'[q] = recovery[q]
            /\ UNCHANGED <<control, command, incident>>
        BY <2>2 DEF CreateRecoveryCommand, RequireIncidentWrite,
           RequireClaimed, Consistent, TablesOK, Live, Claimed
      <3>. QED  BY <3>1, StillDiagnosing DEF SameView
    <2>3. ASSUME NEW to, NEW diagnosis,
                 UpdateIncidentPhase(r, cv, iv, incident[r].phase, to,
                                     diagnosis)
          PROVE  PromiseStep
      <3>1. MovePhase(r, cv, iv, incident[r].phase, to, diagnosis)
            /\ UNCHANGED recovery
            /\ to \notin {"awaiting_approval", "executing", "verifying"}
        BY <2>3 DEF UpdateIncidentPhase
      <3>2. /\ incident'[r].phase = to
            /\ command[r].status = "failure_confirmed"
            /\ to \in NextPhases(incident[r].phase) \ Terminal
            /\ \A q \in Run \ {r} : incident'[q] = incident[q]
            /\ UNCHANGED <<command, control>>
        BY <3>1, PhaseViews
      <3>3. /\ incident[r].phase \in {"failed_detected", "investigating",
                                      "manager_review"}
            /\ to \in {"investigating", "manager_review", "policy_check"}
        BY <3>1, <3>2 DEF NextPhases, Terminal
      <3>. QED
        BY <3>1, <3>2, <3>3, StillDiagnosing DEF SameView, Live, Claimed
    <2>4. CASE AwaitApproval(r, cv, iv, rv)
      BY <2>4, PromiseAsks
    <2>5. CASE EnterExecuting(r, cv, iv, rv, incident[r].phase)
      BY <2>5, PromiseRestarts
    <2>6. CASE EnterVerifying(r, cv, iv, rv)
      BY <2>6, PromiseVerifies
    <2>7. ASSUME NEW terminal \in Terminal,
                 CompleteIncident(r, cv, iv, rv, incident[r].phase, terminal)
          PROVE  PromiseStep
      BY <2>7, PromiseCompletes
    <2>8. CASE \/ ClaimEnvironmentRecovery(r, iv)
               \/ CompleteEnvironmentRecovery(r, iv)
               \/ FailEnvironmentRecovery(r, iv)
      BY <2>8, PromiseRestores
    <2>. QED
      BY <1>7, <2>1, <2>2, <2>3, <2>4, <2>5, <2>6, <2>7, <2>8
      DEF IncidentMutation
  <1>. QED
    BY <1>1, <1>2, <1>3, <1>4, <1>5, <1>6, <1>7 DEF Next, RunnerMutation

\* A live phase is written for a run whose failure is confirmed, and for no
\* other.
LivePhasesNeedFailure ==
  \A q \in Run :
    \/ incident'[q].phase \in Terminal \union {incident[q].phase}
    \/ command[q].status = "failure_confirmed"

\* Every step obeys it.
LEMMA EveryPhaseChange ==
  ASSUME Consistent, [Next]_vars PROVE LivePhasesNeedFailure
  <1> USE DEF LivePhasesNeedFailure
  <1>1. CASE Tick \/ NewDay \/ UNCHANGED vars
    BY <1>1 DEF Tick, NewDay, vars, tables
  <1>2. ASSUME NEW r \in Run, ExpireApproval(r) \/ Reject(r) \/ FailRun(r)
        PROVE  LivePhasesNeedFailure
    BY <1>2 DEF ExpireApproval, Reject, FailRun, FailedPhase, EndIncident,
       Consistent, TablesOK, Terminal
  <1>3. CASE Visitor \/ Cron \/ Heartbeat
    BY <1>2, <1>3 DEF Visitor, SetEnabled, RequestRun, Approve, Cron,
       WatchActiveRun, Heartbeat, HeartbeatIdle, HeartbeatWaiting,
       HeartbeatCleaning, tables
  <1>4. ASSUME NEW r \in Run, NEW cv, CommandMutation(r, cv)
        PROVE  LivePhasesNeedFailure
    <2>1. CASE CreateIncident(r, cv)
      BY <2>1 DEF CreateIncident, RequireClaimed, Consistent, TablesOK
    <2>2. CASE FailRun(r)
      BY <1>2, <2>2
    <2>. QED
      BY <1>4, <2>1, <2>2
      DEF CommandMutation, RenewLease, FailDemoCommand, ClaimDemoCommand,
          ClaimExpiredCommand, MarkResetApplied, MarkFailureConfirmed,
          MarkProgress, AppendStep, tables
  <1>5. ASSUME NEW r \in Run, NEW cv, NEW iv, NEW rv,
               IncidentMutation(r, cv, iv, rv)
        PROVE  LivePhasesNeedFailure
    <2>1. ASSUME NEW from, NEW to, NEW diagnosis,
                 MovePhase(r, cv, iv, from, to, diagnosis)
          PROVE  LivePhasesNeedFailure
      BY <2>1, PhaseViews
    <2>2. ASSUME NEW terminal \in Terminal, NEW from,
                 CompleteIncident(r, cv, iv, rv, from, terminal)
          PROVE  LivePhasesNeedFailure
      BY <2>2 DEF CompleteIncident, EndIncident, Consistent, TablesOK
    <2>3. ASSUME NEW from, NEW to, MoveEnvironment(r, from, to)
          PROVE  LivePhasesNeedFailure
      BY <2>3 DEF MoveEnvironment, Consistent, TablesOK
    <2>. QED
      BY <1>5, <2>1, <2>2, <2>3
      DEF IncidentMutation, AppendApprovalRequest, CreateRecoveryCommand,
          UpdateIncidentPhase, AwaitApproval, EnterExecuting, EnterVerifying,
          ClaimEnvironmentRecovery, CompleteEnvironmentRecovery,
          FailEnvironmentRecovery
  <1>. QED
    BY <1>1, <1>3, <1>4, <1>5 DEF Next, RunnerMutation

\* So a row that waits for its first claim keeps having no incident.
LEMMA QueuedStaysNew ==
  ASSUME Consistent, QueuedIsNew, [Next]_vars PROVE QueuedIsNew'
  <1>1. RunLock' /\ TablesOK'
    BY EveryStep DEF GoodStep, Consistent, Relations
  <1>2. \A q \in Run : command'[q].status \in {"none", "queued"} =>
          /\ incident'[q].phase \notin Terminal
          /\ command[q].status # "failure_confirmed"
          /\ incident[q].phase = "none"
    <2>1. CASE NewDay
      <3>1. \A q \in Run : command'[q].status = command[q].status
        BY <2>1 DEF NewDay, Consistent, TablesOK
      <3>. QED  BY <1>1, <3>1 DEF RunLock, QueuedIsNew
    <2>2. ASSUME NEW r \in Run, NEW mode \in Mode, RequestRun(r, mode)
          PROVE  \A q \in Run : command'[q].status \in {"none", "queued"}
                                => command[q].status \in {"none", "queued"}
      BY <2>2 DEF RequestRun, Consistent, TablesOK
    <2>3. CASE ~NewDay /\ \A r \in Run, mode \in Mode : ~RequestRun(r, mode)
      <3>1. \A q \in Run : command'[q].status \in {"none", "queued"}
                            => command[q].status \in {"none", "queued"}
        BY <2>3, OtherwiseSameDay DEF SameDay
      <3>. QED  BY <1>1, <3>1 DEF RunLock, QueuedIsNew
    <2>. QED  BY <1>1, <2>1, <2>2, <2>3 DEF RunLock, QueuedIsNew
  <1>. QED
    BY <1>2, EveryPhaseChange DEF LivePhasesNeedFailure, QueuedIsNew

-----------------------------------------------------------------------------
(* The ages. *)

Clocks == [Run -> [Stamp -> Nat]]

\* The caps are natural numbers.
LEMMA LimitsAreAges == Limit \in [Stamp -> Nat]
  <1>1. CommandExpiry + 1 \in Nat /\ ClaimLease + 1 \in Nat
        /\ StepDeadline \in Nat /\ ApprovalWindow \in Nat
    BY DeadlinesArePositive
  <1>2. \A s \in Stamp : LimitOf(s) \in Nat
    BY <1>1 DEF LimitOf, Stamp
  <1>. QED  BY <1>2 DEF Limit

\* Restamping and forgetting keep ages natural.
LEMMA ClockWrites ==
  ASSUME since \in Clocks, NEW r \in Run
  PROVE  /\ \A S : Restamp(r, S) => since' \in Clocks
         /\ Forget(r) => since' \in Clocks
         /\ Tick => since' \in Clocks
  <1>1. ASSUME NEW S, Restamp(r, S) PROVE since' \in Clocks
    BY <1>1 DEF Restamp, Clocks
  <1>2. Forget(r) => since' \in Clocks
    BY LimitsAreAges DEF Forget, Clocks
  <1>3. ASSUME Tick PROVE since' \in Clocks
    <2>1. \A age \in Nat, limit \in Nat : Older(age, limit) \in Nat
      BY DEF Older
    <2>2. \A q \in Run, s \in Stamp : Older(since[q][s], Limit[s]) \in Nat
      BY <2>1, LimitsAreAges DEF Clocks
    <2>. QED  BY <1>3, <2>2 DEF Tick, Clocks
  <1>. QED  BY <1>1, <1>2, <1>3

\* No mutation moves a timestamp into the future or an age past its cap.
LEMMA AgesStep ==
  ASSUME TypeOK, [Next]_vars PROVE AgesOK'
  <1> USE DEF Clocks
  <1>1. /\ since \in Clocks
        /\ heartbeatAge \in 0..HeartbeatLoss /\ 0 \in 0..HeartbeatLoss
        /\ requestAge \in 0..RequestCooldown /\ 0 \in 0..RequestCooldown
    BY DeadlinesArePositive DEF TypeOK, AgesOK
  <1>2. CASE Tick
    <2>1. Older(heartbeatAge, HeartbeatLoss) \in 0..HeartbeatLoss
      BY <1>1, DeadlinesArePositive DEF Older
    <2>2. Older(requestAge, RequestCooldown) \in 0..RequestCooldown
      BY <1>1, DeadlinesArePositive DEF Older
    <2>. QED  BY <1>1, <1>2, <2>1, <2>2, ClockWrites DEF Tick, AgesOK
  <1>3. CASE NewDay \/ UNCHANGED vars
    BY <1>1, <1>3 DEF NewDay, vars, ages, AgesOK
  <1>4. CASE Visitor \/ Cron \/ Heartbeat
    BY <1>1, <1>4, ClockWrites
    DEF Visitor, Cron, Heartbeat, SetEnabled, RequestRun, Approve, Reject,
        WatchActiveRun, HeartbeatIdle, HeartbeatWaiting, HeartbeatCleaning,
        FailRun, ExpireApproval, ages, AgesOK
  <1>5. ASSUME NEW r \in Run, CommandMutation(r, command[r].version)
        PROVE  AgesOK'
    <2>1. ASSUME NEW iv, NEW age \in 0..StepDeadline,
                 AppendStep(r, command[r].version, iv, age)
          PROVE  since' \in Clocks
      BY <1>1, <2>1, DeadlinesArePositive DEF AppendStep, Stamp
    <2>. QED
      BY <1>1, <1>5, <2>1, ClockWrites
      DEF CommandMutation, RenewLease, FailDemoCommand, ClaimDemoCommand,
          ClaimExpiredCommand, MarkResetApplied, MarkFailureConfirmed,
          MarkProgress, CreateIncident, AppendStep, FailRun, ages, AgesOK
  <1>6. ASSUME NEW r \in Run, NEW cv, NEW iv, NEW rv,
               IncidentMutation(r, cv, iv, rv)
        PROVE  AgesOK'
    BY <1>1, <1>6, ClockWrites
    DEF IncidentMutation, AppendApprovalRequest, CreateRecoveryCommand,
        UpdateIncidentPhase, AwaitApproval, EnterExecuting, EnterVerifying,
        MovePhase, CompleteIncident, ClaimEnvironmentRecovery,
        CompleteEnvironmentRecovery, FailEnvironmentRecovery,
        MoveEnvironment, ages, AgesOK
  <1>. QED
    BY <1>2, <1>3, <1>4, <1>5, <1>6 DEF Next, RunnerMutation

-----------------------------------------------------------------------------
(* The theorems. *)

\* The inductive invariant holds in every reachable state.
THEOREM TablesConsistent == Spec => []Consistent
  <1>1. Consistent /\ [Next]_vars => Consistent'
    BY EveryStep DEF GoodStep
  <1>. QED  BY EmptyTables, <1>1, PTL DEF Spec

\* Every row and every age stays in its type.
THEOREM TypesHold == Spec => []TypeOK
  <1>1. Init => TypeOK
    <2>1. HeartbeatLoss \in 0..HeartbeatLoss
          /\ RequestCooldown \in 0..RequestCooldown
      BY DeadlinesArePositive
    <2>. QED
      BY <2>1, EmptyTables, LimitsAreAges
      DEF Init, TypeOK, AgesOK, Consistent
  <1>2. TypeOK /\ Consistent /\ [Next]_vars => TypeOK'
    BY EveryStep, AgesStep DEF GoodStep, Consistent, TypeOK
  <1>. QED  BY <1>1, <1>2, TablesConsistent, PTL DEF Spec

\* One run at a time, and the pointers of the lock agree with the rows.
THEOREM OneRunAtATime == Spec => []RunLock
  <1>1. Consistent => RunLock
    BY DEF Consistent, Relations
  <1>. QED  BY <1>1, TablesConsistent, PTL

\* No run starts before the environment of an unresolved one is restored.
THEOREM RestoredBeforeLent == Spec => []RestorationGate
  <1>1. Consistent => RestorationGate
    BY DEF Consistent, Relations
  <1>. QED  BY <1>1, TablesConsistent, PTL

\* Whoever ends a run, the recovery command ends in the status of its phase.
THEOREM RecoveryAgrees == Spec => []RecoveryMatchesPhase
  <1>1. Consistent => RecoveryMatchesPhase
    BY DEF Consistent, Relations
  <1>. QED  BY <1>1, TablesConsistent, PTL

\* Nothing executes without an actionable diagnosis and, in approval mode,
\* without the visitor's approval.
THEOREM NothingUnauthorised == Spec => []ExecutionAuthorised
  <1>1. Consistent => ExecutionAuthorised
    BY DEF Consistent, Relations
  <1>. QED  BY <1>1, TablesConsistent, PTL

\* No day accepts more runs than its cap.
THEOREM CapIsKept == Spec => []DailyCapHolds
  <1>1. Init => Counted
    <2>1. ASSUME Init PROVE CreatedToday = {} /\ RunsToday = 0
      BY <2>1 DEF Init, CreatedToday, NoCommand, RunsToday
    <2>. QED  BY <2>1, FS_EmptySet, DeadlinesArePositive DEF Counted
  <1>2. Consistent /\ Counted /\ [Next]_vars => Counted'
    BY CountStep
  <1>3. Counted => DailyCapHolds
    BY DEF Counted, CreatedToday, DailyCapHolds
  <1>. QED  BY <1>1, <1>2, <1>3, TablesConsistent, PTL DEF Spec

\* No late call changes a finished run.
THEOREM FinishedRunsStay == Spec => OutcomeIsFinal
  <1>1. Consistent /\ [Next]_vars => [\A r \in Run : KeepsOutcome(r)]_vars
    BY EveryStep DEF GoodStep
  <1>. QED  BY <1>1, TablesConsistent, PTL DEF Spec, OutcomeIsFinal

\* No late call changes a decision.
THEOREM FirstDecisionWins == Spec => DecisionIsFinal
  <1>1. Consistent /\ [Next]_vars => [\A r \in Run : KeepsDecision(r)]_vars
    BY EveryStep DEF GoodStep
  <1>. QED  BY <1>1, TablesConsistent, PTL DEF Spec, DecisionIsFinal

\* The tables implement the promise made to a visitor, for any number of runs.
THEOREM TablesImplementPromise == Spec => ImplementsPromise
  <1>1. Init => QueuedIsNew
    BY DEF Init, QueuedIsNew, NoCommand, NoIncident
  <1>2. Init => Promise!Init
    <2>1. ASSUME Init PROVE \A r \in Run : StageOf(r) = "new"
      BY <2>1 DEF Init, StageOf, NoCommand, NoIncident
    <2>2. ASSUME Init PROVE [r \in Run |-> StageOf(r)] = [r \in Run |-> "new"]
      BY <2>1, <2>2
    <2>3. ASSUME Init
          PROVE  [r \in Run |-> command[r].mode] = [r \in Run |-> "autonomous"]
      BY <2>3 DEF Init, NoCommand
    <2>4. Init => control.active = NoRun /\ control.restoring = NoRun
      BY DEF Init
    <2>. QED  BY <2>2, <2>3, <2>4 DEF Promise!Init
  <1>3. Consistent /\ QueuedIsNew /\ [Next]_vars => QueuedIsNew'
    BY QueuedStaysNew
  <1>4. Consistent /\ QueuedIsNew /\ [Next]_vars => [Promise!Next]_Shown
    BY EveryPromiseStep DEF PromiseStep
  <1>. QED
    BY <1>1, <1>2, <1>3, <1>4, TablesConsistent, PTL
    DEF Spec, ImplementsPromise, Promise!Spec, Shown, Lent
=============================================================================
