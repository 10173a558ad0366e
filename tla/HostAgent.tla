------------------------------ MODULE HostAgent ------------------------------
(***************************************************************************)
(* The agent on the owner's machine: runHeartbeatLoop of connect.ts, the   *)
(* service controller of fixed-service.ts with its durable journal, and    *)
(* the service it starts as a child process.                               *)
(*                                                                         *)
(* The journal survives everything; what the process holds in "agent" is   *)
(* lost when it dies, and its child then lives on without an owner.  The   *)
(* process may die between any two steps, so in particular before and      *)
(* after each write of the journal.                                        *)
(*                                                                         *)
(* The module is open: its environment answers the heartbeats.  It may     *)
(* hand out any command, a command handed out before included, as long as  *)
(* the result of that command was not accepted yet.                        *)
(***************************************************************************)
EXTENDS ConnectedProtocol, SequencesExt

CONSTANTS
  MaxInstances,  \* bound on the instances of the service
  JournalLimit   \* JOURNAL_LIMIT

ASSUME InstancesAssumption == MaxInstances \in Nat \ {0}
ASSUME JournalAssumption == JournalLimit \in Nat \ {0}

VARIABLES
  journal,     \* executions.json: claims, results and deliveries
  agent,       \* the process: its place in the loop and what it remembers
  service,     \* the port: which instance answers, and whose child it is
  executions,  \* history: how often the restart of each command was begun
  settled      \* history: commands whose result the server acknowledged

agentVars == <<journal, agent, service, executions, settled>>

\* A claim.  Its result is set once the execution ended.
Entry(c, n) ==
  [command |-> c, nonce |-> n, code |-> NoCode, instance |-> NoInstance,
   delivered |-> FALSE]

\* "at" is the next await of the loop, "sent" the command whose result the
\* heartbeat carries, "command" and "nonce" the order in work, "previous" its
\* previousInstanceId, "code" and "found" the result to be stored.
Process(at) ==
  [at |-> at, lastHealthy |-> NoInstance, sent |-> NoCommand,
   command |-> NoCommand, nonce |-> NoCommand, previous |-> NoInstance,
   code |-> NoCode, found |-> NoInstance]

\* "answering" is the instance that holds the port.  The child of the agent
\* is absent, still starting, or that instance.
AgentInit ==
  /\ journal = <<>>
  /\ agent = Process("off")
  /\ service = [answering |-> NoInstance, child |-> "none", started |-> 0]
  /\ executions = [c \in Command |-> 0]
  /\ settled = {}

-----------------------------------------------------------------------------
(* The service. *)

\* A child that finds the port taken exits.
ChildComesUp ==
  /\ service.child = "starting"
  /\ IF service.answering # NoInstance
     THEN service' = [service EXCEPT !.child = "none"]
     ELSE /\ service.started < MaxInstances
          /\ service' = [answering |-> service.started + 1, child |-> "up",
                         started |-> service.started + 1]
  /\ UNCHANGED <<journal, agent, executions, settled>>

\* It crashes, or somebody seeds a failure.
ServiceDies ==
  /\ service.answering # NoInstance
  /\ service' = [service EXCEPT
                   !.answering = NoInstance,
                   !.child = IF @ = "up" THEN "none" ELSE @]
  /\ UNCHANGED <<journal, agent, executions, settled>>

\* stopChild: an instance that is not its own child stays.
ChildStopped ==
  [service EXCEPT !.child = "none",
                  !.answering = IF service.child = "up" THEN NoInstance ELSE @]

\* A check asks the instance that answers, and may time out.
Seen == {NoInstance, service.answering}

Noted(instance) ==
  IF instance = NoInstance THEN agent.lastHealthy ELSE instance

-----------------------------------------------------------------------------
(* The heartbeat loop. *)

Start ==
  /\ agent.at = "off"
  /\ agent' = Process("check")
  /\ service' = [service EXCEPT !.child = "starting"]
  /\ UNCHANGED <<journal, executions, settled>>

Undelivered(e) == e.code # NoCode /\ ~e.delivered

\* pendingResult: the newest result that is not delivered, or NoCommand.
Pending ==
  LET i == SelectLastInSeq(journal, Undelivered)
  IN IF i = 0 THEN NoCommand ELSE journal[i].command

\* The health report is what the environment gets to see.
SendHeartbeat(report) ==
  /\ agent.at = "check"
  /\ report \in Seen
  /\ agent' = [agent EXCEPT !.at = "waiting", !.lastHealthy = Noted(report),
                            !.sent = Pending]
  /\ UNCHANGED <<journal, service, executions, settled>>

\* No answer within the timeout, a network error, 429 or 5xx.
Retry ==
  /\ agent.at = "waiting"
  /\ agent' = [agent EXCEPT !.at = "check", !.sent = NoCommand]
  /\ UNCHANGED <<journal, service, executions, settled>>

\* 401, 409 and every answer that does not parse: the loop throws.
Refused ==
  /\ agent.at = "waiting"
  /\ agent' = [agent EXCEPT !.at = "stopping"]
  /\ UNCHANGED <<journal, service, executions, settled>>

\* Mutant of Marked: the delivery is not written.
MarkedNowhere == journal

\* markResultDelivered is done before the order, if there is one, is looked at.
Marked ==
  [i \in DOMAIN journal |->
     IF journal[i].command = agent.sent
     THEN [journal[i] EXCEPT !.delivered = TRUE] ELSE journal[i]]

Accepted(c, n) ==
  /\ agent.at = "waiting"
  /\ journal' = Marked
  /\ settled' = settled \union ({agent.sent} \ {NoCommand})
  /\ agent' = [agent EXCEPT
                 !.at = IF c = NoCommand THEN "check" ELSE "claim",
                 !.sent = NoCommand, !.command = c, !.nonce = n]
  /\ UNCHANGED <<service, executions>>

-----------------------------------------------------------------------------
(* execute: claim the order in the journal, restart, verify, store. *)

Journaled(c) == \E i \in DOMAIN journal : journal[i].command = c

NonceUsed(n) == \E i \in DOMAIN journal : journal[i].nonce = n

Done == [Process("check") EXCEPT !.lastHealthy = agent.lastHealthy]

\* Mutant of AlreadyClaimed: a claim without a result is taken up again.
AlreadyClaimedResumed ==
  /\ agent.at = "claim" /\ Journaled(agent.command)
  /\ agent' = [agent EXCEPT !.at = "restart"]
  /\ UNCHANGED <<journal, service, executions, settled>>

\* The order was claimed before: its stored result, if any, is sent again.
AlreadyClaimed ==
  /\ agent.at = "claim" /\ Journaled(agent.command)
  /\ agent' = IF \E i \in DOMAIN journal :
                   /\ journal[i].command = agent.command
                   /\ journal[i].nonce = agent.nonce
              THEN Done ELSE [agent EXCEPT !.at = "stopping"]
  /\ UNCHANGED <<journal, service, executions, settled>>

Delivered(e) == e.delivered

\* Mutant of WithRoom: the oldest entry goes, delivered or not.
WithRoomOldest ==
  IF Len(journal) < JournalLimit THEN journal ELSE Tail(journal)

\* A full journal gives up its oldest delivered entry.
WithRoom ==
  IF Len(journal) < JournalLimit THEN journal
  ELSE RemoveAt(journal, SelectInSeq(journal, Delivered))

Full == Len(journal) >= JournalLimit /\ SelectInSeq(journal, Delivered) = 0

ClaimCommand ==
  /\ agent.at = "claim" /\ ~Journaled(agent.command)
  /\ IF NonceUsed(agent.nonce) \/ Full
     THEN agent' = [agent EXCEPT !.at = "stopping"] /\ UNCHANGED journal
     ELSE /\ journal' = Append(WithRoom, Entry(agent.command, agent.nonce))
          /\ agent' = [agent EXCEPT !.at = "restart"]
  /\ UNCHANGED <<service, executions, settled>>

\* The new child may fail to be spawned.
Restart ==
  /\ agent.at = "restart"
  /\ executions' = [executions EXCEPT ![agent.command] = @ + 1]
  /\ \/ /\ agent' = [agent EXCEPT !.at = "verify", !.code = "restart_succeeded",
                                  !.previous = agent.lastHealthy]
        /\ service' = [ChildStopped EXCEPT !.child = "starting"]
     \/ /\ agent' = [agent EXCEPT !.at = "verify", !.code = "restart_failed",
                                  !.previous = agent.lastHealthy]
        /\ service' = ChildStopped
  /\ UNCHANGED <<journal, settled>>

\* waitForFreshHealth ends with an instance other than the previous one, or
\* at its deadline without one, for checks may time out.
VerifyFresh ==
  /\ agent.at = "verify"
  /\ service.answering \notin {NoInstance, agent.previous}
  /\ agent' = [agent EXCEPT !.at = "store", !.found = service.answering,
                            !.lastHealthy = service.answering]
  /\ UNCHANGED <<journal, service, executions, settled>>

VerifyInVain ==
  /\ agent.at = "verify"
  /\ agent' = [agent EXCEPT !.at = "store"]
  /\ UNCHANGED <<journal, service, executions, settled>>

StoreResult ==
  /\ agent.at = "store"
  /\ journal' = [i \in DOMAIN journal |->
       IF journal[i].command = agent.command
       THEN [journal[i] EXCEPT !.code = agent.code, !.instance = agent.found]
       ELSE journal[i]]
  /\ agent' = Done
  /\ UNCHANGED <<service, executions, settled>>

-----------------------------------------------------------------------------
(* The end of the process. *)

\* SIGTERM is noticed where the loop looks at its signal; a command in work
\* is finished first.
Interrupt ==
  /\ agent.at \in {"check", "waiting"}
  /\ agent' = [agent EXCEPT !.at = "stopping"]
  /\ UNCHANGED <<journal, service, executions, settled>>

\* writeJournal throws, and what it was to write is lost.
WriteFails ==
  /\ agent.at \in {"claim", "store"}
  /\ agent' = [agent EXCEPT !.at = "stopping"]
  /\ UNCHANGED <<journal, service, executions, settled>>

\* stop() ends the child, and the process exits.
Stop ==
  /\ agent.at = "stopping"
  /\ agent' = Process("off")
  /\ service' = ChildStopped
  /\ UNCHANGED <<journal, executions, settled>>

\* The child survives.  One that was starting comes up or does not.
Crash ==
  /\ agent.at # "off"
  /\ agent' = Process("off")
  /\ \/ service' = [service EXCEPT !.child = "none"]
     \/ /\ service.child = "starting" /\ service.answering = NoInstance
        /\ service.started < MaxInstances
        /\ service' = [answering |-> service.started + 1, child |-> "none",
                       started |-> service.started + 1]
  /\ UNCHANGED <<journal, executions, settled>>

\* What the agent and its service do by themselves.
AgentStep ==
  \/ ChildComesUp \/ ServiceDies
  \/ Start \/ AlreadyClaimed \/ ClaimCommand \/ Restart
  \/ VerifyFresh \/ VerifyInVain \/ StoreResult
  \/ Interrupt \/ WriteFails \/ Stop \/ Crash

AgentNext ==
  \/ AgentStep
  \/ \E report \in Seen : SendHeartbeat(report)
  \/ Retry \/ Refused \/ Accepted(NoCommand, NoCommand)
  \/ \E c \in Command \ settled, n \in Command : Accepted(c, n)

AgentSpec == AgentInit /\ [][AgentNext]_agentVars

-----------------------------------------------------------------------------
(* Properties. *)

Rows == [command: Command, nonce: Command, delivered: BOOLEAN,
         code: ResultCode \union {NoCode}, instance: 0..MaxInstances]

Processes ==
  [at: {"off", "check", "waiting", "claim", "restart", "verify", "store",
        "stopping"},
   sent: Command \union {NoCommand}, command: Command \union {NoCommand},
   nonce: Command \union {NoCommand}, code: ResultCode \union {NoCode},
   lastHealthy: 0..MaxInstances, previous: 0..MaxInstances,
   found: 0..MaxInstances]

Services ==
  [answering: 0..MaxInstances, started: 0..MaxInstances,
   child: {"none", "starting", "up"}]

AgentTypeOK ==
  /\ journal \in Seq(Rows) /\ Len(journal) <= JournalLimit
  /\ agent \in Processes /\ service \in Services
  /\ executions \in [Command -> Nat]
  /\ settled \subseteq Command

\* A command is executed at most once, whatever the process loses between two
\* writes of its journal and however often it is handed the command again; and
\* a result in the journal stands for that execution: a claim the process died
\* on never gets a result by being taken up again.
ExecutedOnce ==
  /\ \A c \in Command : executions[c] <= 1
  /\ \A i \in DOMAIN journal :
       journal[i].code # NoCode => executions[journal[i].command] = 1

\* A result that waits for its delivery is the only one: the next command is
\* not begun before the server acknowledged the result of the last one, so
\* that delivering the newest first delivers all of them.
OneUndelivered ==
  \A i, j \in DOMAIN journal :
    Undelivered(journal[i]) /\ Undelivered(journal[j]) => i = j

\* A claim or a result that was not acknowledged is never lost or rewritten.
JournalKeepsResults ==
  [][\A i \in DOMAIN journal :
       ~journal[i].delivered =>
         \E j \in DOMAIN journal' :
           /\ journal'[j].command = journal[i].command
           /\ journal'[j].nonce = journal[i].nonce
           /\ journal[i].code # NoCode =>
                /\ journal'[j].code = journal[i].code
                /\ journal'[j].instance = journal[i].instance]_agentVars
=============================================================================
