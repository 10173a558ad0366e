# Verification of the recovery control plane

TLA+ models, TLC configurations and TLAPS proofs for the agent in this repository.
This file says what the system is made of, what each module models, what each run
and theorem shows, what was assumed, and what is not modelled.

## 1. The system

Two recovery flows share one Convex backend. Convex runs a mutation as one
serializable transaction and rolls it back when its handler throws.

**A. The staged demo.** A visitor asks for a run; the backend records a command; one
coordinator process on the operator's machine claims it, breaks the disposable
sandbox service, opens an incident, asks Codex for a diagnosis, restarts the service
and verifies it. Depending on the mode the restart needs the visitor's approval. A
cron job closes runs that stop making progress. An unresolved run leaves the sandbox
dirty, and no new run starts before the coordinator has restored it.

**B. Owner-connected recovery.** An owner pairs a host agent with an account; the
agent reports the health of one fixed service, picks up commands in the reply of its
heartbeat and keeps a durable journal of what it executed.

| component | state | operations | partners |
|---|---|---|---|
| control plane, `convex/runner.ts`, `demo.ts`, `crons.ts` | `demoControl`, `demoCommands`, `incidents`, `recoveryCommands`, `steps` | request, decide, claim, mark, open incident, propose, move phase, complete, restore, heartbeat, watchdog | visitor routes, coordinator, cron |
| coordinator, `runner/orchestrator.ts`, `index.ts`, `environment-restorer.ts`, `convex-client.ts` | place in the current run, last delivered snapshot, lease timer | claims and drives one command at a time, heartbeats every 2 s, restores the sandbox | control plane, sandbox |
| sandbox, `linux-sandbox/agent.ts`, `runner/linux-sandbox-adapter.ts` | child process, mutation queue, execution ledger | stop, ensure, execute, inspect, health, shutdown | coordinator |
| runner process, `runner/index.ts` | heartbeat timer, subscription, pending snapshot, drain loop, count of changes in progress | start, beat, drain, restore, stop with a grace period | coordinator, control plane |
| connected server, `convex/runners.ts`, `api/runners/*` | `registeredRunners`, `managedWorkloads`, `runnerRecoveryRequests` | pair, register, request, decide, heartbeat, revoke, watchdog | owner, host agent |
| enrollment, `convex/runners.ts`, `api/runners/pair`, `host-agent/pair.ts` | pairing codes, runners, rate-limit buckets and their counter, `runner.json` | create a code, pair, revoke, count, clean | owner, host agent |
| host agent, `host-agent/*` | `runner.json`, journal, service child | heartbeat loop, claim, execute, deliver | connected server |
| pure rules, `lib/incident-state.ts`, `lib/policy.ts` | none | transition and policy checks | tests only |
| diagnosis, `runner/codex-investigator.ts` | child process, temporary directory, two timers | one bounded investigation | coordinator |
| web application, scripts | rendering, cookies | | control plane |

What is hard, and what would make each component correct:

* *Control plane.* Five different writes end a run (completion, rejection, approval
  expiry, watchdog, lost runner), and each must leave five tables in agreement while
  the others race it. Correct: one run at a time, first decision wins, outcomes are
  final, nothing executes without authority, a dirty environment is never lent.
* *Coordinator.* It drives the run from copies of a snapshot that was stale when it
  arrived, its lease can expire at any await, and it can die before or after the one
  action that must not be repeated. Correct: one permitted restart per run, none
  sent beside or behind the restoration, every accepted run ends, every dirty environment
  comes back.
* *Runner process.* A snapshot, a heartbeat that orders a restoration, and `stop()` meet at
  any await, and `stop()` may be called while either changes the workload. Correct: after
  the client is closed nobody changes the workload, `stop()` ends, no snapshot is left
  lying.
* *Diagnosis.* The child may ignore signals, write too much, or not take a signal, while
  its time-out, the caller's abort and its own exit race. Correct: one answer, a success
  only from a child that ended by itself, a directory that is gone.
* *Sandbox.* The coordinator gives a call up after two seconds, while the agent's queue
  keeps what it accepted and a stop may take four. Correct: a restart is performed once,
  a forgotten one not after the restoration behind it, a forgotten stop hurts nobody, and
  the environment can be brought back whatever the queue still holds.
* *Connected server.* It hears of an execution only through heartbeats that are lost,
  delayed or repeated. Correct: one unfinished command per owner, final outcomes,
  outcomes with evidence, every command ends.
* *Enrollment.* Codes are asked for, typed, cancelled and expire around a runner that is
  paired or revoked, and the answer that carries the credential may be lost; a counter
  stands beside the table it counts. Correct: an owner has one way in, a code brings in
  one runner for one machine, the counter is the size of the table.
* *Host agent.* Correct: no command runs twice whatever the process loses between two
  writes of its journal, no unacknowledged result is dropped, results get through.
* *Pure rules.* They stand twice: in one checker that nothing calls, and spread over the
  handlers. Correct: the two agree on every step the program takes.

## 2. Modules

```
StagedRecovery  (promise of a run)        RecoveryContract (promise of a command)
      ^ implements                               ^ implements
ControlPlane <-- ControlPlaneProofs       ConnectedRecovery <-- ConnectedRecoveryProofs
      ^                    ^                 |          |
Coordinator  <-- CoordinatorProofs    ConnectedServer  HostAgent <-- HostAgentProofs
   |                                   ^     \          /
   |                                   |      ConnectedProtocol
IncidentRules                          ConnectedServerProofs

Sandbox <-- SandboxProofs             Enrollment <-- EnrollmentProofs
Investigation <-- RunnerLoop <-- RunnerLoopProofs
```

The `MC*` modules add symmetry and two restricted next-state relations; the `.cfg` files
give the bounds. Operators whose comment begins with "Mutant of" are plausible
mistakes in the code; no specification uses them. For each property there is one that
breaks it, which shows that the property depends on the code.

**`ControlPlane`.** The tables of the staged demo as functions on `Run`: one
`demoCommand`, its incident and its recovery command each exist at most once. One
action per mutation of `runner.ts` and `demo.ts` and one for the cron; a mutation that
throws has no step. The callers are open: any mutation may arrive at any time, so that
its properties hold for every client. Idempotent replays change nothing here and are
modelled where they matter, in `Coordinator` (`Replayed`).

**`Coordinator`.** Extends `ControlPlane` by the runner process. `step` is the await at
which `orchestrator.run` stands, `local` its copies, `flags` what it remembers besides,
`restorer` the place of `restoreEnvironment`, `restarts` a history variable. One server
call is one action: the mutation and the assignment of its reply. `Crash` is enabled
everywhere, so a crash right after a call is a lost reply; most calls may also throw.
`late` is the runs whose restart was given up, or left by a crash, and still stands in the
agent's queue (`Unanswered`). `LateRestart` performs it at any later moment, also while
the environment is being restored; it has no fairness, since the agent may end first.

**`IncidentRules`.** `attemptIncidentTransition` and `evaluateRecoveryPolicy`, as
operators. `Coordinator!RulesKept` compares every change of phase and every recovery
command of the running program with them, with the decision and the executions that are
really there. Runs closed by the server are the exception: no rule foresees them.

**`RunnerLoop`.** `startRunnerLoop` around the run: `main` is the start of the process,
`heart` the heartbeat and its restoration, `drain` the loop over snapshots, `feed` the
subscription, `stopping` the progress of `stop()`. Callbacks run one at a time, so an
action is all that happens between two awaits. `orchestrator.run` is reduced to awaiting,
investigating and changing the workload.

**`Investigation`.** Extended by `RunnerLoop`: one call of `investigate`, from the
directory it makes to the answer, with a child that is not trusted, `SIGTERM`, `SIGKILL`
and the limit on its output.

**`StagedRecovery`.** What a visitor is promised, without tables, versions or clocks.
`ControlPlane!ImplementsPromise` is its specification under a refinement mapping.

**`Sandbox`.** The agent in the container and the process it supervises. `queue` holds
the mutations that were accepted, the first of which may be under way: it waits for a
spawn or, with `SIGTERM` and then `SIGKILL`, for an exit. `Turn` is the chaining of
promises in `runMutation`. The client is the coordinator reduced to its calls: a run
stops the service, checks that it is down, restarts and verifies it, and whatever ends
the run otherwise leads to the restorer. `GivesUp` and `ClientRestarts` leave what was
sent in the queue, without anyone to read the answer. It stands beside `Coordinator`,
whose sandbox is nondeterministic, and shows what that nondeterminism is made of; how
late a `LateRestart` may come is decided here, by the order of the queue.

**`ConnectedServer`.** The mutations of `convex/runners.ts` for one owner. Runners are
`unpaired`, `paired` or `revoked`; commands are numbered in the order they are created.
`RecordHeartbeat` is the whole handler: it stores the result, then the health report,
then serves the oldest approved command.

**`Enrollment`.** `createEnrollment`, `pairRunner`, `revoke` and the rate limits in front
of them, with the pairing route and `pair.ts`. Time is what is left of each window. A
`reply` is a credential on its way to the machine, `config` the one that was saved; only
its digest is kept by the server, so a lost reply is a runner nobody can speak for.
`limits` holds the buckets, the counter beside them, and how many callers were refused
for want of room.

**`HostAgent`.** `agent.at` is the await of `runHeartbeatLoop` or of `execute`;
`journal` is `executions.json`; `service` tells which instance holds the port and whether
it is this agent's child. A crash leaves the child alive as an orphan: the next child
then finds the port taken and exits, and the agent supervises an instance it cannot
stop. `executions` and `settled` are history variables. The environment is open: it
may hand out any command, also one handed out before and under another nonce, as long
as the agent has not seen its result acknowledged.

**`ConnectedRecovery`.** Composes the two with the heartbeat route: heartbeats are lost
before or after they are served, and may be served after the agent gave them up and
sent newer ones. `AgentContract` states that the composition gives the agent no more
than `HostAgent` allows for; `ContractKept` that each command implements
`RecoveryContract`.

## 3. Runs

| run | question | bounds | distinct states |
|---|---|---|---|
| `two_runs` | do the tables agree while two runs compete or follow each other, with open callers? | 2 runs (symmetric), all deadlines 1, cap 1 | 939 k |
| `deadlines` | which deadline comes first, and is the promise implemented? | 1 run, seven distinct deadlines | 120 k |
| `coordinator` | one run against a coordinator that is stale, aborted or dead at any await; do handlers and pure rules agree? | deadlines 1 to 3 | 671 k |
| `liveness` | does every run end, and every dirty environment come back? | 1 run, deadlines 1 | 107 k |
| `runner_loop` | what do snapshots, restorations, an investigation and `stop()` do to each other? | 2 incidents, 3 results of the query | 158 k |
| `cooldown_claim` | a sentence of the repository's plan, refuted | cooldown longer than the run | |
| `sandbox` | what do calls that were given up do to the service, and does restoring end? | 2 runs, 2 process ids, 3 outstanding mutations | 23 k |
| `enrollment` | codes, machines and revocations in any order, with a rate-limit table that fills up | 2 owners, 3 codes, 2 runners, 2 machines (symmetric), 1 address, 3 buckets | 196 k |
| `host_agent` | the agent against an environment that replays orders | 3 commands, 2 instances, journal of 2 | 1 309 k |
| `connected` | server, network and agent: the server's invariants, the truth told to the owner, and the contract of each command | 1 runner, 2 commands, 2 instances, history of 1, 1 delayed heartbeat | 1 257 k |
| `connected_liveness` | does every command end and every result arrive? | 1 runner, 1 command, 1 delayed heartbeat | 184 k |
| `resend_claim` | a sentence of the repository's plan, refuted | 2 runners, 1 command, 1 instance | |

Why the bounds are enough for what they are used for. *Staged demo.* A run interacts
with another one only through `demoControl`: the active run, the restoration slot, the
cooldown and the daily count; two runs fill each of them and make the second one wait.
With all deadlines one tick, each may have passed or not in every state, in any
combination the code can tell apart; `deadlines` keeps seven distinct ones, in the
order the source has them where the code relies on it (`DeadlineOrder`).
*Connected.* `host_agent` has three commands and a journal of two, the smallest that must
trim while one claim is open. `connected` has a journal of one, so that the second
command trims the result of the first, and a history of one, so that the second request
trims the row of the first, whether or not the agent still holds its order; two commands
are one that is finished but undelivered and the next. It and `connected_liveness` use
`FreshNext`, in which no evidence goes stale: staleness only forbids the owner to request
or to approve, which the owner need not do anyway. Invariants of the server are checked
here, where runners report what the agent really does; that they hold whatever runners
report is proved. Two runners, one revoked and one in force, are in `resend_claim` and,
for every number, in the proofs. That the one active command is one *per owner* across
runners is therefore shown by the proof of `OneActive` alone; and `connected_liveness` has
one command, so that no request ever trims the row a result is for, which `connected` does
for the safety of it.
*Liveness.* `liveness` uses `EnabledNext`: whether the demo is enabled is read by
`RequestRun` alone, so that an accepted run does not notice that it is disabled again.
*Enrollment.* Two owners compete for a table of three buckets, of which each pairing and
each heartbeat wants two; the third code is one asked for again after a revocation; a
batch of one row leaves expired rows behind after a cleaning.
*Runner loop.* Three snapshots are one taken, one pending and one that overtakes it; two
incidents are one that was restored before and one that was not.
*Sandbox.* Two process identifiers suffice, since one is free again when its process is
gone; two runs leave a stop of the first in the queue of the second; three mutations are
a stop, a restart and a restoration of which two were given up. The queue takes a
shutdown beyond that bound. Model values are not symmetric here, because of liveness.
`MaxOutstanding`, `MaxIncidentVersion`, `MaxCommands`, `MaxInstances`, `MaxDelayed`,
`MaxSnapshots` and `MaxDenied` only end counting.
Deadlock is checked in `host_agent`, where the process can always be started again; the
other systems stop when the bounded runs or commands are used up.

### The properties that carry most

* `RunLock`, `RestorationGate`, `RecoveryMatchesPhase`: whoever ends a run, all tables
  tell the same story, and the dirty environment holds the lock's place.
* `ExecutionAuthorised`, `RestartNeedsPermission`, `RestartedOnce`: the one real action
  is permitted, and done once, through stale copies and lost replies.
* `OneHandOnTheSandbox`, `RestartsSentBeforeRestoration`, `LateRestartContained`: draining
  a run closes the account of what it sends and awaits, and of no more. A restart that was
  given up after two seconds, or whose caller died, is performed when the agent comes to
  it, which may be after the restoration was claimed. The first two say that no call of a
  run is awaited then and no restart sent; the third that what was left behind is performed before the
  restoration, which stands behind it in the queue, is answered: never on an environment
  that counts as restored, and never in a later run.
* `WaitingCanBeClosed`: heartbeat, cron and visitor all throw when an open decision has
  no open `approval_requested` step, unless the run is still on its way to ask; only the
  coordinator's order of calls keeps such a run from holding the lock for ever.
* `NoStrayStop`, `RecoveredIsNotEnding`: no call carries the name of a process, and yet a
  stop that is served late never takes the next service down, because the queue is in
  order and a run is only broken when nothing runs.
* `EnvironmentRestored`: the two grace periods bound each stop, so that a restoration
  behind forgotten mutations is served.
* `OneActive`: requests look at the latest command of the current runner only, and yet
  there is one unfinished command.
* `ExecutedOnce` and `JournalKeepsResults` on the agent alone, against orders given again,
  and `AgentContract` on the composition: at-most-once has two defences, the server's claim
  and the journal. Each is checked where it is the only one.
* `ReportIsTrue`: a success names an instance that came up after the failed one, though
  late heartbeats overwrite what the server holds to be the last healthy instance.
* `NoOpenDecision`: `completeIncident` never looks at the decision, so a coordinator that
  gives a run up from a stale copy could leave one open.
* `RulesKept`: what incident-state.ts and policy.ts would say of every step taken.
* `QuietOnceClosed`: the counts and promises `stop()` waits for cover every change of the
  workload, the ones a restoration begins while it waits included.
* `BucketsCounted`, `RefusedOnlyWhenFull`: the counter is patched on four paths, and a
  cleaning that stops half-way must not turn anybody away.

### Fairness

`FairCloud` and `CronStep`: the backend's clock runs and its scheduler runs the cron,
whatever runner or agent do. `EveryRunEnds` and `EveryCommandEnds` assume nothing else.

`FairRunner` (only for `EnvironmentComesBack`): the operator starts the process again
when it died; an await returns or throws; and crashes or failing calls do not hit the
same step of the restoration for ever, hence strong fairness on these steps.

`FairProcess` of `RunnerLoop`: promises that are settled are taken up, a call of the
sandbox returns (each has a time-out), and timers fire. Nothing is assumed of the server,
of the child or of a run. `FairNetwork` is a premise of `NewestIsTaken` and of the
second half of `StopEnds`: the server answers or fails, and a run ends. The first half
says what holds without it: only a restoration, which calls the server in the middle of
its change, holds up a stop.

`Fairness` of `Sandbox` (only for `EnvironmentRestored`): the agent's promises and timers
go on, a killed process exits, a container that is told to stop ends and is started
again, an unanswered call times out, and the restorer tries again. That a verification
which is possible again and again succeeds is strong fairness: the restorer has no limit
of attempts. The property is about the time after the last disturbance (`Disturbance`: a
failed spawn, a lost request, an exit or an error of the process, the end of the
container, a call given up though it is in the queue). It names a trap too: a service
that runs and has reported an `error` event is never accepted by `ensure`, which does not
restart it either.

`FairAgent` (only for `ResultReachesServer`): the process is started again, and since
the loop retries without a limit, some heartbeat is sent, served and answered if that
is possible again and again. The premise that the runner stays in force is part of the
property: `resend_claim` shows what happens otherwise.

### Disagreements with the documentation

* `cooldown_claim`: the plan says that closing an overdue run expires the cooldown; the
  code leaves `lastRequestedAt` alone.
* `resend_claim`: the plan says that a stored result is resent until the server accepts
  it. If the owner revokes the runner while its agent executes, and pairs the machine
  again, the journal's result is sent under the new runner, refused with 409, and the
  agent throws and stops its service; and again at each start.

## 4. Proofs

All theorems are about every number of runs, runners, commands and instances and about
every positive deadline. They use the named assumptions on the constants, which TLC
evaluates in each run, and nothing else.

**`ControlPlaneProofs`.** `Consistent` is the conjunction of the type of the tables and
the four relations `RunLock`, `RestorationGate`, `RecoveryMatchesPhase` and
`ExecutionAuthorised`. They are inductive together and not alone: a run is requested
safely because the first two hold, and a terminal write keeps the third because the
fourth rules other decisions out. There is one lemma per write and a step per action.
`OutcomeIsFinal` and `DecisionIsFinal` follow from the same lemmas (`GoodStep`).
`CapIsKept` needs that the count in `demoControl` is the number of runs created on the day
it was taken for (`Counted`). `TablesImplementPromise` is the refinement of
`StagedRecovery`: each step maps to a step of the promise or to a stutter, which needs
that a queued run has no incident yet (`QueuedIsNew`).

**`CoordinatorProofs`.** `CoordinatorIsAControlPlaneUser`: the composition implements
the open control plane, so that all of the above holds of it. `CoordinatorSound` adds
what the copies are (`ProgramOK`), where the restart is recorded (`RestartRecorded`),
where it may still come, awaited or left behind (`RestartPending`), and that the restorer
waits (`DrainedFirst`).
The argument: a program that stands before the restart has itself moved the incident to
"executing"; nobody moves an incident out of that phase and back; and a program that
finds the phase there never restarts. From it follow `AtMostOneRestart`,
`RestartsArePermitted`, `OneHand` and `NoRestartSentAfterClaim`; and `CoordinatorKeepsPromise`
carries the refinement of `StagedRecovery` over.

`WaitsAreClosable` and `DecisionsAreClosed` are false of the open control plane, which
lets a runner wait for a decision it never asked for. `Deciding` adds to `Sound` what the
rows of the request and of the decision have to do with each other (`RowOK`, `Asking`),
what is still true of a stale copy (`Faithful`), and what a run knows at its place
(`Placed`). The argument: what copies say of a decision never comes undone (`RowFlow`). A
request that was made, a recovery that was proposed, an approval and, from policy_check
on, the diagnosis stay as they are, so that a stale copy is true, if incomplete. Steps are
then either `Calm`, in that they open no decision and close what they end, or one of the
four that move the decision on.

`RulesAreKept` compares every step with the two pure judges. `RightlyMoved` says what the
transition checker asks beyond the phases it foresees, and `CheckerAllows` that it asks no
more; then there is one lemma per write. It rests on both invariants. That no execution
came before is `RestartRecorded`. That a waiting run becomes "needs_human" only by a
rejection or an expiry is `Placed`: `completeIncident` would accept it of an approved run,
and the coordinator has a branch that asks for it, for a diagnosis that is not actionable;
that branch is dead, since the copies hold a recovery, and there is no recovery of such a
diagnosis.

**`ConnectedServerProofs`.** `ServerInv`: that there is one unfinished command is not
inductive, since a request looks at one row. It needs that an unfinished command is the
latest of its runner (`ActiveIsLatest`), that this runner is the one in force
(`ActiveInForce`, `OnePaired`), and that rows are created in order (`CreatedInOrder`).
`Grounded` adds to `OutcomeHasGrounds` what it needs of the statuses before. A heartbeat
and the two ways to abandon commands are described row by row (`HeartbeatRows`,
`EndedRows`), from which `EndedCommandsStay` follows too.

**`HostAgentProofs`.** `AgentInv`: of the journal, that a command has one row, that a
delivered row is one the environment has settled, and that every execution is in it or
settled (`JournalInv`); of the process at its place in the loop, which result it carries,
which order it holds and which claim it works on (`PlaceInv`). `OneUndelivered` needs the
place, since a result is only written while none other waits.

**`ConnectedRecoveryProofs`.** `ConnectedInv` has the invariants of the two parts, and what
holds between them. The composition is a behaviour of the server alone (`ServerWithin`) and
of the agent alone (`AgentContractKept`), so that what is proved of either holds of both
together, as `CommandsRunOnce` does. The second is the harder one, for `HostAgent` assumes
that a result which was acknowledged is not ordered again: the server has handed out
whatever the agent has met, and what was acknowledged is no longer claimed (`OrdersOK`);
and at most one heartbeat is awaited, which carries what the agent knows it sent
(`MailOK`), so that an answer acknowledges the result the journal holds. `ReportsAreTrue`
and `ContractsKept` need one idea more. A result is *backed* wherever it is found, in the
journal, in a heartbeat on its way or in a row of the server (`JournalBacked`,
`MailBacked`, `ReportBacked`): it stands for the only execution of its command, on which
the agent no longer works, names no instance older than the failure, and no row of the
journal says otherwise. So it does not matter which of its copies arrives, how late, or
how often. Instances are numbered as they come up and nobody knows a later one
(`InstancesOK`), so that what is found after a restart is no older than what failed
(`WorkOK`), though a late heartbeat may overwrite what the server holds to be the last
healthy instance; that it is another one is checked by the server. A step is summarised
by what it may do to each of these places (`Flows`), which then keeps all of them at
once (`FlowsKeep`).

**`EnrollmentProofs`.** `EnrollmentInv`: that the counter is the number of rows
(`Counted`) is shown once for inserting, resetting, cleaning and refusing, for any set of
rows a cleaning takes. `OneCodeOneRunner` needs that a runner the server does not know is
in no reply and no file (`FreshIds`).

**`RunnerLoopProofs`.** `RunnerLoopInv`: which promises may be under way together, and
what must be over when the client is closed (`LoopInv`); what a watched child and a child
nobody watches have behind them (`ProbeOK`).

**`SandboxProofs`.** `Inv` has two parts that carry the argument. `Ending`: a process that
was told to exit has its stop at the head of the queue. `Leftover`: what may be in the
queue at each place of the coordinator; where a restart is due or under way, a forgotten
stop stands before every restart and there is no process for it. They are inductive with
`LastAwaited`, since the end of a call moves the coordinator only if that call was the
last one it made. There is a lemma for each way the queue changes, one per action, and
each of these also proves `SafeStep`, the first two action properties. On top of it
`LateRestartsAreContained` needs `Owned`: a restart in the queue is one of the run the
coordinator is at, which has not yet been resolved or restored. For `Leftover` keeps
restarts out of the queue wherever a run begins or is closed, and only a run whose service
was seen broken calls for one.

Type invariants and the daily cap (`DailyCapHolds`) are proved rather than run: each type
invariant is part of the inductive invariant of its component, and a theorem of its own.

Only model-checked: liveness, which is out of the prover's reach: `EveryRunEnds`,
`EnvironmentComesBack`, `EnvironmentRestored`, `EveryCommandEnds`, `ResultReachesServer`,
`StopEnds` and `NewestIsTaken`. Every other property of a passing run has a theorem. Of
`EveryRunEnds` the part that is safety is proved: `WaitsAreClosable` says that the guard
of the write that ends an overdue run is never false.

## 5. Abstractions

* Staged time is kept as ages in ticks, capped where no guard can tell them apart, with
  one clock. The code writes some timestamps with the runner's clock and compares them
  with the server's; `AppendStep` takes any age up to the step deadline, but a runner
  clock that is ahead is not modelled.
* Connected time is reduced to what the code asks: evidence is fresh until it goes
  stale, a deadline is ahead until it has passed, both at any moment. The agent reports
  its capability with every heartbeat, so the two are fresh together; agents of version
  0.1.0, which report none, are left out.
* A diagnosis is `none`, `actionable` or `unsafe`: complete, confident and proposing the
  fixed restart, or any other.
* There is one `approval_requested` step per run because its nonce is fixed. Which other
  nonces a snapshot lists is nondeterministic, and so is what the sandbox remembers.
* There is one coordinator process. In `Coordinator` the end of the process is `Crash`, the
  live query is merged with the one-slot `pendingCommand` it feeds, and a diagnosis takes
  one step; `RunnerLoop` takes these three apart.
* The sandbox agent serves requests in the order in which they were sent, those of a
  coordinator that died included; one overtaken by another that was sent at least two
  seconds later is not modelled, and `LateRestartContained` and `NoStrayStop` rest on that. The adapter has a
  ledger of its own, which refuses a second restart within one coordinator process; it is
  left out, so that only the agent's is relied on. The health check of the service is
  `Answering`; log buffer, request schemas and the container manager are left out.
* In `ConnectedServer` rate limits appear as requests and heartbeats that are not served,
  and invites are reduced to `PairRunner`, possible whenever no runner is in force;
  `Enrollment` has both, and is not composed with it. It leaves out the buckets
  `fixed_recovery:...`, one per owner and workload, which a recovery request takes through
  the same `consumeRateLimitBucket` and the same counter.
* A trimmed command is "lost" to `RecoveryContract` while the agent holds its order, and
  "forgotten" otherwise: the row of the server is gone in both cases.
* One machine and one owner. The watchdog's batch of 25 is never exceeded by one owner.
* A nonce stands for the claim it names: a command is claimed once, at one version. Random
  instance identifiers are numbered as the instances come up, and the code compares them
  for equality only. A hanging service is not modelled; a check that times out is.

## 6. Not modelled

* *Two clocks.* Verification evidence written with the runner's clock is compared with the
  server's without tolerance. A refusal is among the throws of `Verified`; which skew
  causes it is a question of numbers and not of interleavings.
* *`Coordinator` over `Sandbox`.* Each has its own abstraction of the other: `Coordinator`
  lets a call fail before, after or long before its effect, `Sandbox` reduces the coordinator to
  its calls. The product of the two is beyond TLC at bounds at which either is of interest.
* *Diagnosis.* Its arguments, its environment, the prompt and the parsing of its output:
  what the child prints is a diagnosis or is not.
* *Sandbox.* The log buffer, the routes and schemas, and the container manager, whose only
  part in the model is that a container is started again.
* *Web application, sanitising, scripts and evaluations, legacy Docker adapter.* Rendering,
  cookies, text and operator tooling keep no protocol state of their own; the adapter is
  kept for a proof script and is used by neither coordinator nor host agent.
