----------------------------- MODULE RunnerLoop -----------------------------
(***************************************************************************)
(* startRunnerLoop of runner/index.ts: the start of the process, the       *)
(* heartbeats and the restorations they order, the subscription and the    *)
(* loop that drains it, and stop() with its grace period.                  *)
(*                                                                         *)
(* orchestrator.run is what Coordinator takes apart; here it only matters  *)
(* that it awaits something, may run an investigation, and may be in the   *)
(* middle of a change to the workload.  Callbacks run one at a time, so an *)
(* action is all that happens between two awaits.                          *)
(***************************************************************************)
EXTENDS Investigation, Integers

CONSTANTS
  Incident,     \* incidents whose environment may have to be restored
  None,         \* no incident
  MaxSnapshots  \* bound on the results of the subscribed query

ASSUME NoneAssumption == None \notin Incident
ASSUME SnapshotsAssumption == MaxSnapshots \in Nat \ {0}

VARIABLES
  main,      \* "starting", "verifying", "running", or "failed"
  stopping,  \* stop(): "no", "waiting" or "closed"
  grace,     \* whether shutdownGraceMs has passed
  heart,     \* the heartbeat: "off", "armed", "calling", and its restoration
  asked,     \* the incident being restored
  done,      \* completedEnvironmentRecoveries
  restoring, \* restorationInProgress
  critical,  \* criticalMutationCount
  feed,      \* the query: its newest result, and the newest one delivered
  pending,   \* pendingCommand, or 0
  drain      \* the loop of drainCommands and its run

loopVars == <<main, stopping, grace, heart, asked, done, restoring, critical,
              feed, pending, drain>>
vars == <<loopVars, probe>>

Snapshots == 1..MaxSnapshots

\* No drainPromise.
NoDrain == [at |-> "none", aborted |-> FALSE]

\* "empty" are the results that say there is no active command.
Init ==
  /\ main = "starting" /\ stopping = "no" /\ grace = FALSE
  /\ heart = "calling" /\ asked = None /\ done = {}
  /\ restoring = FALSE /\ critical = 0
  /\ feed = [latest |-> 0, delivered |-> 0, empty |-> {}]
  /\ pending = 0 /\ drain = NoDrain
  /\ probe = Idle

-----------------------------------------------------------------------------
(* drainCommands. *)

\* The test of the loop and what it leads to.  The last moment, "exited", is
\* that between the end of the loop and the callback of its promise.
Taken(next) ==
  [at |-> IF next = 0 \/ next \in feed.empty THEN "exited" ELSE "running",
   aborted |-> FALSE]

\* A call of drainCommands with "next" pending.
Drained(next, busy) ==
  IF drain.at # "none" \/ busy \/ next = 0
  THEN pending' = next /\ UNCHANGED drain
  ELSE pending' = 0 /\ drain' = Taken(next)

\* orchestrator.run returns or throws, and the loop goes on.
RunEnds ==
  /\ drain.at = "running" /\ ~Investigating
  /\ IF stopping # "no" \/ restoring
     THEN drain' = [drain EXCEPT !.at = "exited"] /\ UNCHANGED pending
     ELSE drain' = Taken(pending) /\ pending' = 0
  /\ probe' = Idle
  /\ UNCHANGED <<main, stopping, grace, heart, asked, done, restoring, critical,
                 feed>>

\* Mutant of DrainSettles: a snapshot that came in after the last test of the
\* loop waits for the next one.
DrainSettles_Leaves ==
  /\ drain.at = "exited"
  /\ drain' = NoDrain
  /\ UNCHANGED <<main, stopping, grace, heart, asked, done, restoring, critical,
                 feed, pending, probe>>

DrainSettles ==
  /\ drain.at = "exited"
  /\ IF stopping # "no" \/ pending = 0 \/ restoring
     THEN drain' = NoDrain /\ UNCHANGED pending
     ELSE drain' = Taken(pending) /\ pending' = 0
  /\ UNCHANGED <<main, stopping, grace, heart, asked, done, restoring, critical,
                 feed, probe>>

\* Mutant of MayChange: the observer lets a change begin after stop().
MayChange_Always == TRUE

MayChange == stopping = "no"

\* A run that was not cancelled changes the workload.
ChangeBegins ==
  /\ drain.at = "running" /\ ~drain.aborted /\ ~Investigating
  /\ MayChange
  /\ drain' = [drain EXCEPT !.at = "changing"]
  /\ critical' = critical + 1
  /\ UNCHANGED <<main, stopping, grace, heart, asked, done, restoring, feed,
                 pending, probe>>

ChangeEnds ==
  /\ drain.at = "changing"
  /\ drain' = [drain EXCEPT !.at = "running"]
  /\ critical' = critical - 1
  /\ UNCHANGED <<main, stopping, grace, heart, asked, done, restoring, feed,
                 pending, probe>>

\* A run begins an investigation, and looks at its result.
RunInvestigates ==
  /\ drain.at = "running"
  /\ \/ Investigate(drain.aborted)
     \/ probe.at = "returned" /\ probe' = Idle
  /\ UNCHANGED loopVars

InvestigationStep ==
  /\ \/ Spawn(drain.aborted) \/ Timers
     \/ Overflow \/ StreamError \/ ChildCloses
  /\ UNCHANGED loopVars

\* activeAbortController.abort(), whose listeners are called at once.
Aborted == drain' = [drain EXCEPT !.aborted = drain.at \in {"running", "changing"}]

-----------------------------------------------------------------------------
(* The subscription. *)

Publish ==
  /\ feed.latest < MaxSnapshots
  /\ \E none \in BOOLEAN :
       feed' = [feed EXCEPT !.latest = @ + 1,
                            !.empty = IF none THEN @ \cup {feed.latest + 1} ELSE @]
  /\ UNCHANGED <<main, stopping, grace, heart, asked, done, restoring, critical,
                 pending, drain, probe>>

\* Results in between may be skipped.
Deliver ==
  /\ main = "running" /\ stopping = "no"
  /\ \E v \in Snapshots :
       /\ feed.delivered < v /\ v <= feed.latest
       /\ feed' = [feed EXCEPT !.delivered = v]
       /\ Drained(v, restoring)
  /\ UNCHANGED <<main, stopping, grace, heart, asked, done, restoring, critical,
                 probe>>

-----------------------------------------------------------------------------
(* Heartbeats and restorations. *)

\* The next heartbeat, and at the start what comes after the first.
Beaten == IF main # "running" \/ stopping # "no" THEN "off" ELSE "armed"

TimerFires ==
  /\ heart = "armed"
  /\ heart' = "calling"
  /\ UNCHANGED <<main, stopping, grace, asked, done, restoring, critical, feed,
                 pending, drain, probe>>

NothingToRestore ==
  /\ heart = "calling"
  /\ heart' = Beaten
  /\ main' = IF main = "starting" THEN "verifying" ELSE main
  /\ UNCHANGED <<stopping, grace, asked, done, restoring, critical, feed,
                 pending, drain, probe>>

\* The first heartbeat has to succeed.
HeartbeatFails ==
  /\ heart = "calling"
  /\ heart' = Beaten
  /\ main' = IF main = "starting" THEN "failed" ELSE main
  /\ UNCHANGED <<stopping, grace, asked, done, restoring, critical, feed,
                 pending, drain, probe>>

\* restoreEnvironment gives up the snapshot, the run and its investigation,
\* and waits for the loop.  What was restored before is not touched again.
RestorationAsked(i) ==
  /\ heart = "calling" /\ i \notin done
  /\ heart' = "parting" /\ asked' = i
  /\ restoring' = TRUE /\ pending' = 0
  /\ Aborted /\ probe' \in Cancelled(probe)
  /\ UNCHANGED <<main, stopping, grace, done, critical, feed>>

\* onCriticalMutationStart throws once the process is stopping, and the
\* restoration is over before it began.
RestorationBegins ==
  /\ heart = "parting" /\ drain.at = "none"
  /\ IF MayChange
     THEN heart' = "restoring" /\ critical' = critical + 1 /\ UNCHANGED asked
     ELSE heart' = Beaten /\ asked' = None /\ UNCHANGED critical
  /\ UNCHANGED <<main, stopping, grace, done, restoring, feed, pending, drain,
                 probe>>

AfterRestoration ==
  IF main = "running" /\ stopping = "no" THEN Drained(pending, FALSE)
  ELSE UNCHANGED <<pending, drain>>

\* "failed" and "threw" leave the incident to be asked for again.  At the
\* start the first is a reason not to look whether the workload is healthy.
RestorationEnds(outcome) ==
  /\ heart = "restoring"
  /\ done' = IF outcome = "restored" THEN done \cup {asked} ELSE done
  /\ critical' = critical - 1 /\ restoring' = FALSE
  /\ AfterRestoration
  /\ asked' = None
  /\ IF main = "starting"
     THEN CASE outcome = "restored" -> main' = "verifying" /\ heart' = "off"
            [] outcome = "failed"   -> main' = "running" /\ heart' = "armed"
            [] OTHER                -> main' = "failed" /\ heart' = "off"
     ELSE UNCHANGED main /\ heart' = Beaten
  /\ UNCHANGED <<stopping, grace, feed, probe>>

-----------------------------------------------------------------------------
(* The start and the end. *)

\* verifyStartupReady or a subscription throws, or both subscriptions and the
\* timer are set up.
Verified(ready) ==
  /\ main = "verifying"
  /\ main' = IF ready THEN "running" ELSE "failed"
  /\ heart' = IF ready THEN "armed" ELSE "off"
  /\ UNCHANGED <<stopping, grace, asked, done, restoring, critical, feed,
                 pending, drain, probe>>

Stop ==
  /\ main = "running" /\ stopping = "no"
  /\ stopping' = "waiting" /\ pending' = 0
  /\ Aborted /\ probe' \in Cancelled(probe)
  /\ heart' = IF heart = "armed" THEN "off" ELSE heart
  /\ UNCHANGED <<main, grace, asked, done, restoring, critical, feed>>

GracePasses ==
  /\ stopping = "waiting" /\ ~grace
  /\ grace' = TRUE
  /\ UNCHANGED <<main, stopping, heart, asked, done, restoring, critical, feed,
                 pending, drain, probe>>

\* heartbeatPromise and drainPromise.
AllSettled == heart = "off" /\ drain.at = "none"

\* Mutant of MayClose: what is in flight is waited for, however long it takes.
MayClose_NoGrace == AllSettled /\ critical = 0

\* The client is closed after the grace period, or when nothing is left to
\* wait for, but not before the change in progress is over.
MayClose == (grace \/ AllSettled) /\ critical = 0

Close ==
  /\ stopping = "waiting" /\ MayClose
  /\ stopping' = "closed"
  /\ UNCHANGED <<main, grace, heart, asked, done, restoring, critical, feed,
                 pending, drain, probe>>

-----------------------------------------------------------------------------
RestorationOver ==
  \E outcome \in {"restored", "failed", "threw"} : RestorationEnds(outcome)

HeartbeatAnswered ==
  \/ NothingToRestore \/ HeartbeatFails
  \/ \E i \in Incident : RestorationAsked(i)

Next ==
  \/ RunEnds \/ DrainSettles \/ ChangeBegins \/ ChangeEnds
  \/ RunInvestigates \/ InvestigationStep
  \/ Publish \/ Deliver
  \/ TimerFires \/ HeartbeatAnswered \/ RestorationBegins \/ RestorationOver
  \/ \E ready \in BOOLEAN : Verified(ready)
  \/ Stop \/ GracePasses \/ Close

\* What needs nobody but this machine, and a change of the workload by a run,
\* which is one call with a time-out.
FairProcess ==
  /\ WF_vars(DrainSettles) /\ WF_vars(ChangeEnds)
  /\ WF_vars(RestorationBegins)
  /\ WF_vars(GracePasses) /\ WF_vars(Close)
  /\ WF_vars(Timers /\ UNCHANGED loopVars)
  /\ WF_vars(Spawn(drain.aborted) /\ UNCHANGED loopVars)

Spec == Init /\ [][Next]_vars /\ FairProcess

\* Calls of the server are answered or fail, those of a restoration included.
\* A run, which is a finite program, ends unless it waits for ever.
FairNetwork ==
  /\ SF_vars(RunEnds) /\ WF_vars(RestorationOver)
  /\ WF_vars(HeartbeatAnswered) /\ WF_vars(Deliver)

-----------------------------------------------------------------------------
(* Properties. *)

RunnerLoopTypeOK ==
  /\ main \in {"starting", "verifying", "running", "failed"}
  /\ stopping \in {"no", "waiting", "closed"}
  /\ grace \in BOOLEAN /\ restoring \in BOOLEAN
  /\ heart \in {"off", "armed", "calling", "parting", "restoring"}
  /\ asked \in Incident \cup {None} /\ done \subseteq Incident
  /\ critical \in Int /\ pending \in 0..MaxSnapshots
  /\ drain \in [at: {"none", "running", "changing", "exited"}, aborted: BOOLEAN]

Changing == {a \in {"run", "restoration"} :
               \/ a = "run" /\ drain.at = "changing"
               \/ a = "restoration" /\ heart = "restoring"}

Closed == stopping = "closed" \/ main = "failed"

\* The count kept by the activity observer is that of the changes in progress;
\* a run and a restoration never change the workload together; and once the
\* client is closed nobody does or will, so that no change is cut off by the
\* exit of the process or goes unreported for want of a connection.
QuietOnceClosed ==
  /\ \A a, b \in Changing : a = b
  /\ critical = IF Changing = {} THEN 0 ELSE 1
  /\ Closed => Changing = {}

\* stop() comes to its end though no heartbeat and no run ever does, for want
\* of an answer or of an investigation that ends.  The one thing that holds it
\* up is a restoration, which calls the server in the middle of the change:
\* then the server has to answer.
StopEnds ==
  /\ stopping = "waiting" ~> stopping = "closed" \/ heart = "restoring"
  /\ FairNetwork => (stopping = "waiting" ~> stopping = "closed")

\* No snapshot is left lying: wherever the loop, a restoration or the callback
\* of the loop's promise stands when it comes in, it is taken, or overtaken by
\* a newer one, or given up by a restoration or the stop.
NewestIsTaken ==
  FairNetwork => \A v \in Snapshots : pending = v ~> pending # v
=============================================================================
