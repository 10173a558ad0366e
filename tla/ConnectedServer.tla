--------------------------- MODULE ConnectedServer ---------------------------
(***************************************************************************)
(* The server of owner-connected recovery: the mutations of                *)
(* convex/runners.ts that touch one owner's runners, their fixed service   *)
(* and the recovery commands.  A mutation is a transaction and so one      *)
(* action; one that throws has no effect and is no action at all.          *)
(*                                                                         *)
(* Time is reduced to what the code asks of it: a piece of evidence is     *)
(* fresh until it goes stale, a deadline is ahead until it has passed, and *)
(* both may happen at any moment.  Rate limits appear as heartbeats and    *)
(* requests that are not served.                                           *)
(***************************************************************************)
EXTENDS ConnectedProtocol, FiniteSets

CONSTANTS
  Runner,        \* runner identifiers
  NoRunner,      \* not a runner
  HistoryLimit,  \* CONNECTED_TERMINAL_HISTORY_LIMIT
  Instance       \* instances of the service, and NoInstance

ASSUME HistoryAssumption == HistoryLimit \in Nat \ {0}
ASSUME InstanceAssumption == NoInstance \in Instance
ASSUME RunnerAssumption == NoRunner \notin Runner

VARIABLES
  runner,    \* registeredRunners: whether each one is paired or revoked
  fresh,     \* the evidence of each runner that is not stale
  workload,  \* managedWorkloads: the fixed service of each runner
  recovery   \* runnerRecoveryRequests, numbered in order of creation

serverVars == <<runner, fresh, workload, recovery>>

\* lastHeartbeatAt and healthReportedAt.  The agent reports its capability with
\* every heartbeat, so that the two are fresh together.
Evidence == {"heartbeat", "health"}

Active == {"pending_approval", "approved", "claimed"}
Reported == {"succeeded", "failed"}
Terminal == Reported \union
            {"rejected", "expired", "not_needed", "execution_unknown"}

\* A row that does not exist: not created yet, or trimmed from the history.
NoRow(status) ==
  [status |-> status, runner |-> NoRunner,
   decision |-> "none", late |-> FALSE, before |-> NoInstance,
   nonce |-> NoCommand, code |-> NoCode, after |-> NoInstance]

ServerInit ==
  /\ runner = [r \in Runner |-> "unpaired"]
  /\ fresh = [r \in Runner |-> {}]
  /\ workload = [r \in Runner |-> [health |-> "unregistered",
                                   lastHealthy |-> NoInstance]]
  /\ recovery = [c \in Command |-> NoRow("absent")]

-----------------------------------------------------------------------------
(* Time. *)

GoesStale(r, evidence) ==
  /\ evidence \in fresh[r]
  /\ fresh' = [fresh EXCEPT ![r] = @ \ {evidence}]
  /\ UNCHANGED <<runner, workload, recovery>>

DeadlinePasses(c) ==
  /\ recovery[c].status \in Active /\ ~recovery[c].late
  /\ recovery' = [recovery EXCEPT ![c].late = TRUE]
  /\ UNCHANGED <<runner, fresh, workload>>

-----------------------------------------------------------------------------
(* Runners and their service. *)

PairRunner(r) ==
  /\ runner[r] = "unpaired"
  /\ \A other \in Runner : runner[other] # "paired"
  /\ runner' = [runner EXCEPT ![r] = "paired"]
  /\ UNCHANGED <<fresh, workload, recovery>>

RunnerFresh(r) == runner[r] = "paired" /\ "heartbeat" \in fresh[r]

Registered(r) == workload[r].health # "unregistered"

RegisterFixedWorkload(r) ==
  /\ RunnerFresh(r) /\ ~Registered(r)
  /\ workload' = [workload EXCEPT ![r].health = "unknown"]
  /\ UNCHANGED <<runner, fresh, recovery>>

-----------------------------------------------------------------------------
(* Requests and decisions of the owner. *)

\* The service is known to have been healthy and freshly reported unhealthy.
FreshlyUnhealthy(r) ==
  workload[r].health = "unhealthy" /\ "health" \in fresh[r]

Of(r, statuses) ==
  {c \in Command : recovery[c].runner = r /\ recovery[c].status \in statuses}

\* Terminal rows beyond the newest HistoryLimit - 1 make room for a new one.
Trimmed(r) ==
  {c \in Of(r, Terminal) :
     Cardinality({d \in Of(r, Terminal) : d > c}) >= HistoryLimit - 1}

\* Mutant of LatestIsActive: a claimed command does not count as unfinished.
LatestIsWaiting(r) ==
  \E c \in Of(r, Active \ {"claimed"}) :
    \A d \in Of(r, Active \union Terminal) : d <= c

LatestIsActive(r) ==
  \E c \in Of(r, Active) : \A d \in Of(r, Active \union Terminal) : d <= c

NextCommand(c) ==
  /\ recovery[c].status = "absent"
  /\ \A d \in Command : d < c => recovery[d].status # "absent"

RequestFixedRecovery(r) ==
  /\ RunnerFresh(r) /\ FreshlyUnhealthy(r)
  /\ workload[r].lastHealthy # NoInstance
  /\ ~LatestIsActive(r)
  /\ \E c \in Command :
       /\ NextCommand(c)
       /\ recovery' = [d \in Command |->
            IF d = c THEN [NoRow("pending_approval") EXCEPT
                             !.runner = r, !.before = workload[r].lastHealthy]
            ELSE IF d \in Trimmed(r) THEN NoRow("trimmed")
            ELSE recovery[d]]
  /\ UNCHANGED <<runner, fresh, workload>>

Move(c, status) == [recovery EXCEPT ![c].status = status]

StillNeeded(c) ==
  LET r == recovery[c].runner
  IN RunnerFresh(r) /\ FreshlyUnhealthy(r)
     /\ workload[r].lastHealthy = recovery[c].before

DecideFixedRecovery(c, decision) ==
  /\ recovery[c].status = "pending_approval"
  /\ IF recovery[c].late
     THEN recovery' = Move(c, "expired")
     ELSE /\ decision = "approved" => StillNeeded(c)
          /\ recovery' = [recovery EXCEPT ![c].status = decision,
                                          ![c].decision = decision]
  /\ UNCHANGED <<runner, fresh, workload>>

-----------------------------------------------------------------------------
(* The heartbeat.  It stores the result it carries, then the health report,
   and then hands out the approved command, if there still is one. *)

\* The result belongs to a claim of this runner.
Matches(r, result) ==
  /\ result.command \in Of(r, Active \union Terminal)
  /\ recovery[result.command].nonce = result.nonce
  /\ Registered(r)

\* connectedCommandResult, exactly as stored.
Stored(result) ==
  /\ recovery[result.command].code = result.code
  /\ recovery[result.command].after = result.instance

\* Mutants of Disposition: a late result decides about a lost command; and a
\* late result is refused like a wrong one.
DispositionReopening(r, result) ==
  IF result.command = NoCommand THEN "none"
  ELSE IF ~Matches(r, result) THEN "rejected"
  ELSE LET status == recovery[result.command].status
       IN CASE status \in {"claimed", "execution_unknown"} -> "accepted"
            [] status \in Reported /\ Stored(result) -> "duplicate"
            [] OTHER -> "rejected"

DispositionStrict(r, result) ==
  IF result.command = NoCommand THEN "none"
  ELSE IF ~Matches(r, result) THEN "rejected"
  ELSE LET status == recovery[result.command].status
       IN CASE status = "claimed" -> "accepted"
            [] status \in Reported /\ Stored(result) -> "duplicate"
            [] OTHER -> "rejected"

Disposition(r, result) ==
  IF result.command = NoCommand THEN "none"
  ELSE IF ~Matches(r, result) THEN "rejected"
  ELSE LET status == recovery[result.command].status
       IN CASE status = "claimed" -> "accepted"
            [] status \in Reported /\ Stored(result) -> "duplicate"
            [] status = "execution_unknown" -> "ignored"
            [] OTHER -> "rejected"

\* Mutant of Succeeded: every healthy instance will do.
SucceededHealthy(result) ==
  result.code = "restart_succeeded" /\ result.instance # NoInstance

\* Only a healthy instance other than the one before is a success.
Succeeded(result) ==
  /\ result.code = "restart_succeeded"
  /\ result.instance # NoInstance
  /\ result.instance # recovery[result.command].before

Finished(result) ==
  [recovery[result.command] EXCEPT
     !.status = IF Succeeded(result) THEN "succeeded" ELSE "failed",
     !.code = result.code, !.after = result.instance]

AfterResult(r, result) ==
  IF Disposition(r, result) = "accepted"
  THEN [recovery EXCEPT ![result.command] = Finished(result)]
  ELSE recovery

\* Mutants of Candidates: the owner's decision is not awaited; and a failed
\* command is tried again.
CandidatesUndecided(r, result) ==
  {c \in Of(r, {"pending_approval", "approved"}) :
     Disposition(r, result) # "rejected" /\ Registered(r)}

CandidatesRetried(r, result) ==
  {c \in Of(r, {"failed", "approved"}) :
     Disposition(r, result) # "rejected" /\ Registered(r)}

\* The oldest approved command, unless the result was rejected or there is no
\* registered service.
Candidates(r, result) ==
  {c \in Of(r, {"approved"}) :
     /\ Disposition(r, result) # "rejected" /\ Registered(r)
     /\ \A d \in Of(r, {"approved"}) : c <= d}

\* The approved command is claimed, unless it is late or the service it was
\* approved for is no longer the unhealthy one.
Claimable(r, c, report) ==
  /\ ~recovery[c].late
  /\ report = NoInstance
  /\ workload[r].lastHealthy = recovery[c].before

Served(r, c, report) ==
  IF Claimable(r, c, report)
  THEN [recovery[c] EXCEPT !.status = "claimed", !.nonce = c, !.late = FALSE]
  ELSE [recovery[c] EXCEPT
          !.status = IF recovery[c].late THEN "expired" ELSE "not_needed"]

\* The command in the reply.
HandedOut(r, report, result) ==
  {c \in Candidates(r, result) : Claimable(r, c, report)}

RecordHeartbeat(r, report, result) ==
  /\ runner[r] = "paired"
  /\ fresh' = [fresh EXCEPT ![r] =
                 IF Registered(r) THEN Evidence ELSE {"heartbeat"}]
  /\ workload' = [workload EXCEPT ![r] =
       IF ~Registered(r) THEN @
       ELSE IF report = NoInstance THEN [@ EXCEPT !.health = "unhealthy"]
       ELSE [health |-> "healthy", lastHealthy |-> report]]
  /\ recovery' = [c \in Command |->
       IF c \in Candidates(r, result) THEN Served(r, c, report)
                                      ELSE AfterResult(r, result)[c]]
  /\ UNCHANGED runner

-----------------------------------------------------------------------------
(* Endings that no runner reports. *)

Abandoned(c) ==
  [recovery[c] EXCEPT
     !.status = IF @ = "claimed" THEN "execution_unknown" ELSE "expired"]

Revoke(r) ==
  /\ runner[r] = "paired"
  /\ runner' = [runner EXCEPT ![r] = "revoked"]
  /\ recovery' = [c \in Command |-> IF c \in Of(r, Active) THEN Abandoned(c)
                                                          ELSE recovery[c]]
  /\ UNCHANGED <<fresh, workload>>

\* Mutant of Overdue: the lease of a claim is not watched.
OverdueUnclaimed ==
  {c \in Command : recovery[c].status \in Active \ {"claimed"} /\ recovery[c].late}

\* A batch of one owner's commands is never larger than the limit of 25.
Overdue == {c \in Command : recovery[c].status \in Active /\ recovery[c].late}

WatchFixedRecoveryCommands ==
  /\ Overdue # {}
  /\ recovery' = [c \in Command |-> IF c \in Overdue THEN Abandoned(c)
                                                    ELSE recovery[c]]
  /\ UNCHANGED <<runner, fresh, workload>>

-----------------------------------------------------------------------------
(* The server alone: paired runners report what they like. *)

OwnerStep ==
  \/ \E r \in Runner : \/ RegisterFixedWorkload(r)
                       \/ RequestFixedRecovery(r)
                       \/ Revoke(r)
  \/ \E c \in Command, d \in {"approved", "rejected"} : DecideFixedRecovery(c, d)

ServerClock ==
  \/ \E r \in Runner, e \in Evidence : GoesStale(r, e)
  \/ \E c \in Command : DeadlinePasses(c)

RunnerStep(r) ==
  \/ PairRunner(r)
  \/ \E report \in Instance :
       \/ RecordHeartbeat(r, report, NoResult)
       \/ \E c \in Command, code \in ResultCode, found \in Instance :
            RecordHeartbeat(r, report, Result(c, c, code, found))

ServerNext ==
  \/ OwnerStep \/ ServerClock \/ WatchFixedRecoveryCommands
  \/ \E r \in Runner : RunnerStep(r)

ServerSpec == ServerInit /\ [][ServerNext]_serverVars

-----------------------------------------------------------------------------
(* Properties. *)

RecoveryRow ==
  [status: Active \union Terminal \union {"absent", "trimmed"},
   runner: Runner \union {NoRunner}, decision: {"none", "approved", "rejected"}, late: BOOLEAN,
   before: Instance, nonce: Command \union {NoCommand},
   code: ResultCode \union {NoCode}, after: Instance]

ServerTypeOK ==
  /\ runner \in [Runner -> {"unpaired", "paired", "revoked"}]
  /\ fresh \in [Runner -> SUBSET Evidence]
  /\ workload \in [Runner ->
       [health: {"unregistered", "unknown", "healthy", "unhealthy"},
        lastHealthy: Instance]]
  /\ recovery \in [Command -> RecoveryRow]

\* One owner has one runner in force and one unfinished command, which belongs
\* to that runner: requests look at the latest command only, revoking and
\* pairing at the runners only.
OneActive ==
  /\ \A r, s \in Runner : runner[r] = "paired" /\ runner[s] = "paired" => r = s
  /\ \A c \in Command : recovery[c].status \in Active =>
       /\ runner[recovery[c].runner] = "paired"
       /\ \A d \in Command : recovery[d].status \in Active => c = d

\* Only what the owner approved was ever handed out, and a stored outcome is
\* backed by the evidence stored with it: a success by a healthy instance
\* other than the one that failed.
OutcomeHasGrounds ==
  \A c \in Command :
    LET row == recovery[c]
    IN /\ row.nonce # NoCommand => row.decision = "approved"
       /\ row.status \in Reported \union {"claimed", "execution_unknown"} =>
            row.nonce # NoCommand
       /\ row.status \in Reported => row.code # NoCode
       /\ row.status = "succeeded" =>
            row.code = "restart_succeeded"
              /\ row.after \notin {NoInstance, row.before}

\* A terminal command is never reopened or rewritten: not by a late result, a
\* decision, a deadline or a revocation.  It may only be trimmed.
TerminalIsFinal ==
  [][\A c \in Command :
       recovery[c].status \in Terminal =>
         recovery'[c] = recovery[c] \/ recovery'[c].status = "trimmed"]_serverVars
=============================================================================
