-------------------------- MODULE ConnectedRecovery --------------------------
(***************************************************************************)
(* Owner-connected recovery as a whole: the server, the agent on the       *)
(* owner's machine, the heartbeat route between them, and the owner.       *)
(*                                                                         *)
(* A heartbeat may be lost on its way, its answer may be lost, and the     *)
(* agent may give up on a heartbeat that is still on its way and is served *)
(* later, after newer ones.  The server's mutation and the arrival of its  *)
(* answer are one step; what the agent does with the answer comes later.   *)
(***************************************************************************)
EXTENDS ConnectedServer, HostAgent

CONSTANT
  MaxDelayed  \* bound on the heartbeats the agent no longer waits for

ASSUME DelayedAssumption == MaxDelayed \in Nat
ASSUME InstancesAgree == Instance = 0..MaxInstances

VARIABLES
  config,    \* runner.json: the runner that was paired on this machine
  identity,  \* the runner the agent process loaded
  mail       \* heartbeats on their way

hostVars == <<config, identity>>
connectedVars == <<serverVars, agentVars, hostVars, mail>>

\* "awaited" is whether the agent still waits for the answer.
Heartbeat(report, result) ==
  [runner |-> identity, report |-> report, result |-> result, awaited |-> TRUE]

ConnectedInit ==
  /\ ServerInit /\ AgentInit
  /\ config = NoRunner /\ identity = NoRunner
  /\ mail = {}

-----------------------------------------------------------------------------
(* The owner. *)

\* Pairing stores the credential on the machine after the server paired the
\* runner, and may fail to.
Pair(r) ==
  /\ PairRunner(r)
  /\ config' \in {config, r}
  /\ UNCHANGED <<agentVars, identity, mail>>

-----------------------------------------------------------------------------
(* The agent and the route. *)

Delayed == {m \in mail : ~m.awaited}
Awaited == mail \ Delayed

\* A process that ends leaves its heartbeat on the way, or it is lost.
AgentAlone ==
  /\ AgentStep /\ UNCHANGED serverVars
  /\ IF agent.at = "off" /\ agent'.at # "off"
     THEN config # NoRunner /\ identity' = config
     ELSE UNCHANGED identity
  /\ IF agent.at = "waiting" /\ agent'.at # "waiting"
     THEN \/ mail' = Delayed
          \/ /\ Cardinality(Delayed) < MaxDelayed
             /\ mail' = {[m EXCEPT !.awaited = FALSE] : m \in mail}
     ELSE UNCHANGED mail
  /\ UNCHANGED config

\* The result in the journal that the heartbeat carries.
PendingResult ==
  IF Pending = NoCommand THEN NoResult
  ELSE LET e == CHOOSE e \in ToSet(journal) : e.command = Pending
       IN Result(e.command, e.nonce, e.code, e.instance)

Send ==
  /\ \E report \in Seen :
       /\ SendHeartbeat(report)
       /\ mail' = mail \union {Heartbeat(report, PendingResult)}
  /\ UNCHANGED <<serverVars, hostVars>>

\* The heartbeat is lost, or answered with 429 or 5xx.
NotServed ==
  /\ Retry /\ mail' = Delayed
  /\ UNCHANGED <<serverVars, hostVars>>

GiveUp ==
  /\ Retry /\ Cardinality(Delayed) < MaxDelayed
  /\ mail' = {[m EXCEPT !.awaited = FALSE] : m \in mail}
  /\ UNCHANGED <<serverVars, hostVars>>

\* 401: the runner was revoked.
Unauthorised(m) ==
  /\ runner[m.runner] # "paired"
  /\ UNCHANGED serverVars
  /\ IF m.awaited THEN Refused ELSE UNCHANGED agentVars

\* 409 if the result was rejected, although the health report was stored, and
\* otherwise 200 with the command, if one was handed out.
Answered(m) ==
  IF Disposition(m.runner, m.result) = "rejected" THEN Refused
  ELSE LET handed == HandedOut(m.runner, m.report, m.result)
       IN IF handed = {} THEN Accepted(NoCommand, NoCommand)
                         ELSE \E c \in handed : Accepted(c, c)

Serve(m) ==
  /\ \/ Unauthorised(m)
     \/ /\ RecordHeartbeat(m.runner, m.report, m.result)
        /\ IF m.awaited THEN Answered(m) \/ Retry ELSE UNCHANGED agentVars
  /\ mail' = mail \ {m}
  /\ UNCHANGED hostVars

ServerAlone ==
  /\ OwnerStep \/ ServerClock \/ WatchFixedRecoveryCommands
  /\ UNCHANGED <<agentVars, hostVars, mail>>

ConnectedNext ==
  \/ ServerAlone \/ AgentAlone
  \/ \E r \in Runner : Pair(r)
  \/ Send \/ NotServed \/ GiveUp
  \/ \E m \in mail : Serve(m)

ConnectedSpec == ConnectedInit /\ [][ConnectedNext]_connectedVars

\* The scheduler of the backend runs the watchdog, and time passes.
CronStep ==
  /\ WatchFixedRecoveryCommands \/ \E c \in Command : DeadlinePasses(c)
  /\ UNCHANGED <<agentVars, hostVars, mail>>

\* A heartbeat that is served and whose answer arrives.
ServedInTime ==
  \E m \in Awaited :
    /\ \/ Unauthorised(m)
       \/ RecordHeartbeat(m.runner, m.report, m.result) /\ Answered(m)
    /\ mail' = mail \ {m} /\ UNCHANGED hostVars

AgentMoves == AgentAlone /\ (Start \/ Stop \/ AlreadyClaimed \/ ClaimCommand
                             \/ Restart \/ VerifyInVain \/ StoreResult)

\* The process is started again whenever it ended, and neither crashes nor
\* network failures prevent one heartbeat from being answered for ever.
FairAgent ==
  /\ WF_connectedVars(AgentMoves)
  /\ SF_connectedVars(Send)
  /\ SF_connectedVars(ServedInTime)

DeliveringSpec == ConnectedSpec /\ FairAgent

-----------------------------------------------------------------------------
(* Properties. *)

\* What the owner is told is what happened: a reported command was executed,
\* the agent's journal holds the same result, and the instance of a success
\* came up after the one that failed.
ReportIsTrue ==
  \A c \in Command :
    recovery[c].status \in Reported =>
      /\ executions[c] = 1
      /\ recovery[c].status = "succeeded" => recovery[c].after > recovery[c].before
      /\ \A e \in ToSet(journal) :
           e.command = c =>
             e.code = recovery[c].code /\ e.instance = recovery[c].after

\* The server keeps what the agent assumes of its environment, and the agent
\* sends nothing the server alone does not allow for.
AgentContract == AgentSpec

\* A lost order is not over while the agent holds it, even if the server has
\* forgotten the command.
StageOf(c) ==
  CASE recovery[c].status = "absent"            -> "new"
    [] recovery[c].status = "pending_approval"  -> "requested"
    [] recovery[c].status = "approved"          -> "approved"
    [] recovery[c].status = "claimed"           -> "ordered"
    [] recovery[c].status \in Reported          -> "reported"
    [] recovery[c].status = "execution_unknown" -> "lost"
    [] recovery[c].status = "trimmed"           ->
         IF agent.command = c THEN "lost" ELSE "forgotten"
    [] OTHER                                    -> "closed"

Contract(c) ==
  INSTANCE RecoveryContract WITH stage <- StageOf(c), restarts <- executions[c]

\* Server, network and agent together keep the contract of every command.
ContractKept ==
  /\ \A c \in Command : Contract(c)!Init
  /\ [][\A c \in Command :
          [Contract(c)!Next]_<<StageOf(c), executions[c]>>]_connectedVars

\* Every command ends, whatever owner, agent and network do or leave undone.
EveryCommandEnds ==
  \A c \in Command :
    recovery[c].status \in Active ~> recovery[c].status \notin Active

ResultWaits(c) == \E e \in ToSet(journal) : e.command = c /\ Undelivered(e)

ExecutorInForce(c) ==
  \E r \in Runner : recovery[c].runner = r /\ runner[r] = "paired"

\* A stored result reaches the server, through crashes and lost answers, as
\* long as the runner that executed the command is not revoked.
ResultReachesServer ==
  FairAgent =>
    \A c \in Command :
      ResultWaits(c) /\ []ExecutorInForce(c) ~> ~ResultWaits(c)

\* The same of a machine that is paired again after its runner was revoked, in
\* the words of the plan: resent until the server accepts it.
ResentUntilAccepted ==
  <>[](\E r \in Runner : runner[r] = "paired" /\ config = r) =>
    \A c \in Command : ResultWaits(c) ~> ~ResultWaits(c)
=============================================================================
