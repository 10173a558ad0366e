------------------------------ MODULE Sandbox ------------------------------
(***************************************************************************)
(* The disposable service of the staged demo: the agent in the container   *)
(* (linux-sandbox/agent.ts), the process it supervises, and the calls of   *)
(* the coordinator through runner/linux-sandbox-adapter.ts.                *)
(*                                                                         *)
(* The adapter gives a call up after two seconds, whereas a stop may take  *)
(* four.  What was given up still stands in the agent's mutation queue.    *)
(***************************************************************************)
EXTENDS Naturals, Sequences, SequencesExt

CONSTANTS
  Run,             \* runs of the demo; a run has one execution identifier
  NoRun,
  Process,         \* identifiers of service processes, used again
  NoProcess,
  MaxOutstanding   \* bound on the mutations in the queue at a time

ASSUME SandboxAssumption ==
  /\ NoRun \notin Run /\ NoProcess \notin Process
  /\ MaxOutstanding \in Nat \ {0}

VARIABLES
  agent,         \* the agent process
  child,         \* the process its manager supervises
  process,       \* what became of each process
  processError,  \* an "error" event came since the last spawn
  queue,         \* mutations in the order of their arrival
  ledger,        \* executionLedger
  performed,     \* history: restarts per run since the agent was started
  client,        \* where the coordinator stands, and for which run
  begun          \* runs that were begun

vars == <<agent, child, process, processError, queue, ledger, performed,
          client, begun>>
supervised == <<child, process, processError>>
served == <<agent, supervised, ledger, performed>>
asked == <<client, begun>>

Kind == {"stop", "ensure", "execute", "shutdown"}

Operation ==
  [kind : Kind, run : Run \cup {NoRun}, awaited : BOOLEAN,
   at : {"waiting", "spawning", "terminating", "killing"},
   target : Process \cup {NoProcess}]

\* "kept" was killed and did not exit in time.
ProcessState == {"none", "starting", "up", "term", "kill", "kept"}

Awaiting == {"stopping", "executing", "ensuring"}

ClientAt ==
  {"idle", "reset", "broken", "confirmed", "verify", "dirty", "check"}
    \cup Awaiting

\* The agent is not started; the service was in order before.
Init ==
  /\ agent = "down" /\ child = NoProcess /\ processError = FALSE
  /\ process = [p \in Process |-> "none"]
  /\ queue = <<>> /\ ledger = {}
  /\ performed = [r \in Run |-> 0]
  /\ client = [at |-> "idle", run |-> NoRun] /\ begun = {}

-----------------------------------------------------------------------------
(* The manager: one mutation after the other. *)

Running == child # NoProcess /\ process[child] # "none"

\* inspectSafeState
Status == IF processError THEN "error" ELSE IF Running THEN "running" ELSE "exited"

\* Mutant of Turn: an operation does not wait for the one before it.
TurnAtOnce(i) == i \in DOMAIN queue

\* runMutation starts an operation when the one before it has settled.
Turn(i) == i = 1

Starts(i, kind) == i \in DOMAIN queue /\ Turn(i) /\ queue[i].at = "waiting"
                    /\ queue[i].kind = kind

\* The coordinator reads the answer if it still waits for it.
Reply(at, ok) ==
  IF ~ok THEN "dirty"
  ELSE CASE at = "stopping"  -> "broken"
         [] at = "executing" -> "verify"
         [] at = "ensuring"  -> "check"

Settle(i, ok) ==
  /\ queue' = RemoveAt(queue, i)
  /\ client' = IF queue[i].awaited THEN [client EXCEPT !.at = Reply(@, ok)]
                                   ELSE client
  /\ UNCHANGED begun

Proceed(i, at, target) ==
  /\ queue' = [queue EXCEPT ![i] = [@ EXCEPT !.at = at, !.target = target]]
  /\ UNCHANGED asked

\* startChild, up to the await of the spawn.
StartChild(i) ==
  \E p \in Process :
    /\ process[p] = "none"
    /\ process' = [process EXCEPT ![p] = "starting"]
    /\ child' = p /\ processError' = FALSE
    /\ Proceed(i, "spawning", p)

Spawned(i) ==
  LET op == queue[i] IN
  /\ op.at = "spawning"
  /\ process' = [process EXCEPT ![op.target] = "up"]
  /\ performed' = IF op.kind = "execute"
                    THEN [performed EXCEPT ![op.run] = @ + 1] ELSE performed
  /\ Settle(i, TRUE)
  /\ UNCHANGED <<agent, child, processError, ledger>>

\* The permanent handler of "error" runs before the one of the start-up.
SpawnFails(i) ==
  LET op == queue[i] IN
  /\ op.at = "spawning"
  /\ process' = [process EXCEPT ![op.target] = "none"]
  /\ child' = NoProcess /\ processError' = TRUE
  /\ Settle(i, FALSE)
  /\ UNCHANGED <<agent, ledger, performed>>

\* The restorer accepts a running service only, not one with an error.
Ensure(i) ==
  /\ Starts(i, "ensure")
  /\ IF Running THEN Settle(i, Status = "running") /\ UNCHANGED supervised
                ELSE StartChild(i)
  /\ UNCHANGED <<agent, ledger, performed>>

\* Mutant of MayExecute: the agent does not know what it did before.
MayExecuteAgain(run) == ~Running

MayExecute(run) == run \notin ledger /\ ~Running

Execute(i) ==
  /\ Starts(i, "execute")
  /\ IF MayExecute(queue[i].run)
       THEN StartChild(i) /\ ledger' = ledger \cup {queue[i].run}
       ELSE Settle(i, FALSE) /\ UNCHANGED <<supervised, ledger>>
  /\ UNCHANGED <<agent, performed>>

\* Mutant of Stop: the exit is not awaited.
StopUnawaited(i) ==
  /\ Starts(i, "stop") \/ Starts(i, "shutdown")
  /\ IF Running THEN process' = [process EXCEPT ![child] = "term"]
                ELSE UNCHANGED process
  /\ Settle(i, Running)
  /\ UNCHANGED <<agent, child, processError, ledger, performed>>

\* stopDemoServiceInternal.  A shutdown does nothing when nothing runs.
Stop(i) ==
  /\ Starts(i, "stop") \/ Starts(i, "shutdown")
  /\ IF Running
       THEN /\ process' = [process EXCEPT ![child] = "term"]
            /\ Proceed(i, "terminating", child)
       ELSE Settle(i, FALSE) /\ UNCHANGED process
  /\ UNCHANGED <<agent, child, processError, ledger, performed>>

Stopped(i) ==
  /\ queue[i].at \in {"terminating", "killing"}
  /\ process[queue[i].target] = "none"
  /\ Settle(i, TRUE)
  /\ UNCHANGED served

\* Mutant of GraceOver: a process that ignores SIGTERM is waited for.
NoGrace(i) == FALSE

\* The grace of STOP_GRACE_MS passes twice, once for each signal.
GraceOver(i) ==
  LET p == queue[i].target IN
  /\ queue[i].at \in {"terminating", "killing"} /\ process[p] # "none"
  /\ \/ /\ queue[i].at = "terminating"
        /\ process' = [process EXCEPT ![p] = "kill"]
        /\ Proceed(i, "killing", p)
     \/ /\ queue[i].at = "killing"
        /\ process' = [process EXCEPT ![p] = "kept"]
        /\ Settle(i, FALSE)
  /\ UNCHANGED <<agent, child, processError, ledger, performed>>

ManagerStep ==
  \E i \in DOMAIN queue :
    \/ Spawned(i) \/ SpawnFails(i) \/ Ensure(i) \/ Execute(i)
    \/ Stop(i) \/ Stopped(i) \/ GraceOver(i)

-----------------------------------------------------------------------------
(* The service process and the container. *)

ProcessExits(p) ==
  /\ process[p] \notin {"none", "starting"}
  /\ process' = [process EXCEPT ![p] = "none"]
  /\ child' = IF child = p THEN NoProcess ELSE child
  /\ UNCHANGED <<agent, processError, queue, ledger, performed, asked>>

\* An "error" event of a process that was spawned.
LateError ==
  /\ Running /\ process[child] # "starting" /\ ~processError
  /\ processError' = TRUE
  /\ UNCHANGED <<agent, child, process, queue, ledger, performed, asked>>

\* startSandboxAgent ensures the service and then listens.
AgentStarts ==
  /\ agent = "down"
  /\ \E p \in Process :
       child' = p /\ process' = [process EXCEPT ![p] = "up"]
  /\ agent' = "listening"
  /\ UNCHANGED <<processError, queue, ledger, performed, asked>>

\* SIGTERM: no new connections, and a shutdown behind what is queued.
AgentStops ==
  /\ agent = "listening"
  /\ agent' = "stopping"
  /\ queue' = Append(queue, [kind |-> "shutdown", run |-> NoRun,
                             awaited |-> FALSE, at |-> "waiting",
                             target |-> NoProcess])
  /\ UNCHANGED <<supervised, ledger, performed, asked>>

\* With the container end all of its processes and all that was queued.
AgentEnds ==
  /\ agent # "down"
  /\ agent' = "down" /\ child' = NoProcess /\ processError' = FALSE
  /\ process' = [p \in Process |-> "none"]
  /\ queue' = <<>> /\ ledger' = {} /\ performed' = [r \in Run |-> 0]
  /\ UNCHANGED asked

ContainerStep ==
  \/ \E p \in Process : ProcessExits(p)
  \/ LateError \/ AgentStarts \/ AgentStops \/ AgentEnds

-----------------------------------------------------------------------------
(* The coordinator: a run breaks the service and restarts it, and the      *)
(* restorer comes after every run that was not resolved.                   *)

Goto(at) == client' = [client EXCEPT !.at = at] /\ UNCHANGED begun

\* The connections are served in the order in which they were made.
Send(kind, at) ==
  /\ agent = "listening" /\ Len(queue) < MaxOutstanding
  /\ queue' = Append(queue, [kind |-> kind, run |-> client.run,
                             awaited |-> TRUE, at |-> "waiting",
                             target |-> NoProcess])
  /\ Goto(at)

Abandon == queue' = [i \in DOMAIN queue |-> [queue[i] EXCEPT !.awaited = FALSE]]

\* A process that was told to exit may still answer for a while.
Answering ==
  agent = "listening" /\ Running /\ process[child] \in {"up", "term"}

Begin(r) ==
  /\ client.at = "idle" /\ r \notin begun
  /\ begun' = begun \cup {r}
  /\ client' = [at |-> "reset", run |-> r]
  /\ UNCHANGED <<served, queue>>

\* What was inspected may have changed when the stop is served.
Reset ==
  /\ client.at = "reset" /\ agent = "listening"
  /\ CASE Status = "running" -> Send("stop", "stopping")
       [] Status = "exited"  -> Goto("broken") /\ UNCHANGED queue
       [] OTHER              -> Goto("dirty") /\ UNCHANGED queue
  /\ UNCHANGED served

ConfirmFailure ==
  /\ client.at = "broken"
  /\ Goto("confirmed") \/ (Answering /\ Goto("dirty"))
  /\ UNCHANGED <<served, queue>>

Restart ==
  client.at = "confirmed" /\ Send("execute", "executing") /\ UNCHANGED served

Restore ==
  client.at = "dirty" /\ Send("ensure", "ensuring") /\ UNCHANGED served

\* The run is resolved, or the environment restored.
VerifiedHealthy ==
  /\ client.at \in {"verify", "check"} /\ Answering
  /\ Goto("idle")
  /\ UNCHANGED <<served, queue>>

\* The last attempt saw no healthy service.
NotHealthy ==
  /\ client.at \in {"verify", "check"}
  /\ Goto("dirty")
  /\ UNCHANGED <<served, queue>>

\* A call fails, is given up, or is not sent; or the watchdog ends the run.
GivesUp ==
  /\ client.at \notin {"idle", "dirty"}
  /\ Abandon /\ Goto("dirty")
  /\ UNCHANGED served

\* A request that was not read yet may be lost.
Lost(i) ==
  /\ queue[i].at = "waiting" /\ queue[i].kind # "shutdown"
  /\ queue' = RemoveAt(queue, i)
  /\ UNCHANGED <<served, asked>>

\* The coordinator process is started again.  That a restart is not sent
\* twice is its server's doing; here the agent is on its own.
ClientRestarts ==
  /\ client.at \in {"stopping", "executing"}
  /\ Abandon
  /\ Goto(IF client.at = "stopping" THEN "reset" ELSE "confirmed")
  /\ UNCHANGED served

ClientStep ==
  \/ \E r \in Run : Begin(r)
  \/ Reset \/ ConfirmFailure \/ Restart \/ Restore \/ VerifiedHealthy
  \/ NotHealthy \/ GivesUp \/ ClientRestarts
  \/ \E i \in DOMAIN queue : Lost(i)

Next == ManagerStep \/ ContainerStep \/ ClientStep

Spec == Init /\ [][Next]_vars

\* The call was lost, or the agent that knew it has ended.
Unanswered ==
  client.at \in Awaiting /\ \A i \in DOMAIN queue : ~queue[i].awaited

\* The agent's own steps are taken, a killed process exits, and a container
\* that is told to stop ends and is started again.  A call that gets no answer
\* times out, and the restorer tries until a verification succeeds that may.
Fairness ==
  /\ WF_vars(ManagerStep) /\ WF_vars(AgentStarts)
  /\ WF_vars(agent = "stopping" /\ AgentEnds)
  /\ \A p \in Process :
       WF_vars(process[p] \in {"kill", "kept"} /\ ProcessExits(p))
  /\ WF_vars(Restore) /\ WF_vars(Unanswered /\ GivesUp)
  /\ WF_vars(NotHealthy) /\ SF_vars(VerifiedHealthy)

\* What nobody can be sure of.
Disturbance ==
  \/ ~Unanswered /\ GivesUp
  \/ LateError \/ AgentStops \/ AgentEnds
  \/ \E i \in DOMAIN queue : SpawnFails(i) \/ Lost(i)
  \/ \E p \in Process : process[p] = "up" /\ ProcessExits(p)

FairSpec == Spec /\ Fairness

-----------------------------------------------------------------------------
(* Properties. *)

\* Types.  The manager supervises a process that exists, and no other process
\* exists; one mutation at most is under way, and one call awaited.
TypeOK ==
  /\ agent \in {"down", "listening", "stopping"}
  /\ child \in Process \cup {NoProcess}
  /\ process \in [Process -> ProcessState]
  /\ processError \in BOOLEAN
  /\ queue \in Seq(Operation) /\ Len(queue) <= MaxOutstanding + 1
  /\ ledger \subseteq Run /\ begun \subseteq Run
  /\ performed \in [Run -> Nat]
  /\ client \in [at : ClientAt, run : Run \cup {NoRun}]
  /\ \A p \in Process : process[p] # "none" <=> p = child

\* A restart is performed once in the life of the agent, though the call is
\* sent again by a coordinator that does not know whether it was performed.
PerformedOnce == \A r \in Run : performed[r] <= 1

\* The service is told to exit only while its run is broken on purpose or is
\* being cleaned up after.  A stop that the coordinator gave up on cannot take
\* a service down that was restarted or restored since.
NoStrayStop ==
  [][\A p \in Process :
       process[p] = "up" /\ process'[p] = "term"
         => agent = "stopping"
            \/ client.at \in {"reset", "stopping", "dirty", "ensuring"}]_vars

\* What is reported as recovered or restored is not on its way down.
RecoveredIsNotEnding ==
  [][client.at \in {"verify", "check"} /\ client'.at = "idle"
       => process[child] = "up"]_vars

\* A restart that the coordinator gave up on, or left behind when it died, may
\* still be performed while its environment is already being restored, yet never
\* after: behind it in the queue, the restoration's own call is not answered
\* before it, so that no restart falls into the time in which the service is
\* called recovered or restored, or into a later run.
LateRestartContained ==
  [][\A r \in Run : performed'[r] > performed[r] =>
       /\ client.run = r
       /\ client.at \in {"confirmed", "executing", "dirty", "ensuring"}]_vars

\* When the disturbances have an end, so has every restoration, whatever they
\* left in the queue.  One trap remains: a service that runs and has reported
\* an error is never accepted, and nobody stops it.
EnvironmentRestored ==
  <>[][~Disturbance]_vars
    => (client.at = "dirty" ~> (client.at = "idle" \/ (Running /\ processError)))

=============================================================================
