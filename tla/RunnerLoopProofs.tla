--------------------------- MODULE RunnerLoopProofs ---------------------------
(***************************************************************************)
(* What the runner process keeps for any number of incidents and           *)
(* snapshots: nobody changes the workload behind stop()'s back, and no     *)
(* diagnosis is taken from a child that was told to stop.                  *)
(***************************************************************************)
EXTENDS RunnerLoop, TLAPS

-----------------------------------------------------------------------------
(* The investigation. *)

Probes ==
  [at : {"idle", "preparing", "watching", "removing", "returned"},
   child : {"none", "alive", "gone"}, shutdown : {"none", "term", "kill"},
   cause : {"none", "timeout", "overflow", "error"},
   overflow : BOOLEAN, unsignalled : BOOLEAN, tidy : BOOLEAN,
   result : {"none", "succeeded", "timeout", "process_failed", "invalid_output"}]

\* A child that is watched was told to end for one cause or not at all, and an
\* overflow is a cause.
Watched(p) ==
  /\ p.child = "alive" /\ ~p.unsignalled
  /\ p.shutdown = "none" <=> p.cause = "none"
  /\ p.overflow => p.shutdown # "none"
  /\ p.cause = "overflow" => p.overflow

\* What may be said of a child nobody watches any more.
Judged(p) ==
  /\ p.result = "succeeded" =>
       p.child = "gone" /\ p.shutdown = "none" /\ ~p.overflow
  /\ p.child = "alive" => p.shutdown = "kill" \/ p.unsignalled

\* Before it is spawned nothing has happened to it.
Unborn(p) ==
  /\ p.child = "none" /\ p.shutdown = "none" /\ p.cause = "none"
  /\ ~p.overflow /\ ~p.unsignalled

ProbeOK(p) ==
  /\ p \in Probes
  /\ p.at = "preparing" => Unborn(p)
  /\ p.at = "watching" => Watched(p)
  /\ p.at \in {"removing", "returned"} => Judged(p)
  /\ p.at = "returned" /\ p.result = "succeeded" => p.tidy

\* finish: a result that is believed has no cause, no error and no overflow.
LEMMA FinishedOK ==
  ASSUME NEW p \in Probes, NEW exit, NEW error \in BOOLEAN,
         NEW q \in Finished(p, exit, error),
         p.cause # "timeout" /\ ~error /\ exit = "zero" /\ ~p.overflow =>
           p.child = "gone" /\ p.shutdown = "none",
         p.child = "alive" => p.shutdown = "kill" \/ p.unsignalled
  PROVE  ProbeOK(q)
<1>1. PICK r \in Classified(p, exit, error) :
        q = [p EXCEPT !.at = "removing", !.result = r]
  BY DEF Finished
<1>2. /\ r \in {"succeeded", "timeout", "process_failed", "invalid_output"}
      /\ r = "succeeded" => /\ p.cause # "timeout" /\ ~error /\ exit = "zero"
                            /\ ~p.overflow
  BY <1>1 DEF Classified, Parsed
<1> QED
  BY <1>1, <1>2 DEF ProbeOK, Judged, Probes

\* beginShutdown: told once, for the first cause.
LEMMA ShutdownOK ==
  ASSUME NEW p \in Probes, NEW cause \in {"timeout", "overflow", "error"},
         p.at # "watching" => ProbeOK(p),
         p.at = "watching" => p.child = "alive" /\ ~p.unsignalled,
         p.at = "watching" /\ p.shutdown # "none" => ProbeOK(p),
         p.at = "watching" /\ p.shutdown = "none" =>
           /\ p.cause = "none"
           /\ cause = "overflow" <=> p.overflow,
         NEW q \in Shutdown(p, cause)
  PROVE  ProbeOK(q)
<1>1. CASE p.at # "watching" \/ p.shutdown # "none"
  BY <1>1 DEF Shutdown
<1>2. CASE p.at = "watching" /\ p.shutdown = "none"
  <2> DEFINE told == [p EXCEPT !.shutdown = "term", !.cause = cause]
             lost == [told EXCEPT !.unsignalled = TRUE]
  <2>1. /\ told \in Probes /\ told.at = "watching" /\ told.child = "alive"
        /\ told.shutdown = "term" /\ told.cause = cause
        /\ told.overflow = p.overflow /\ told.unsignalled = FALSE
    BY <1>2 DEF Probes
  <2>2. q = told \/ q \in Finished(lost, "none", TRUE)
    BY <1>2 DEF Shutdown, Unsent
  <2> HIDE DEF told
  <2>3. lost \in Probes /\ lost.unsignalled
    BY <2>1 DEF Probes
  <2>4. CASE q = told
    BY <1>2, <2>1, <2>4 DEF ProbeOK, Watched
  <2> HIDE DEF lost
  <2>5. CASE q \in Finished(lost, "none", TRUE)
    BY <2>3, <2>5, FinishedOK
  <2> QED
    BY <2>2, <2>4, <2>5
<1> QED
  BY <1>1, <1>2

LEMMA CancelledOK ==
  ASSUME ProbeOK(probe), NEW q \in Cancelled(probe)
  PROVE  ProbeOK(q)
<1>1. probe \in Probes
  BY DEF ProbeOK
<1>2. q \in Shutdown(probe, "error")
  BY DEF Cancelled
<1>3. /\ probe.at = "watching" => probe.child = "alive" /\ ~probe.unsignalled
      /\ probe.at = "watching" /\ probe.shutdown = "none" =>
           probe.cause = "none" /\ ~probe.overflow
  BY DEF ProbeOK, Watched
<1> QED
  BY <1>1, <1>2, <1>3, ShutdownOK

\* The timers, the streams and the child.
LEMMA TimersOK ==
  ASSUME ProbeOK(probe), Timers
  PROVE  ProbeOK(probe')
<1>1. probe \in Probes
  BY DEF ProbeOK
<1>2. CASE TimeOut
  <2>1. /\ probe.child = "alive" /\ ~probe.unsignalled /\ probe.cause = "none"
        /\ ~probe.overflow /\ probe' \in Shutdown(probe, "timeout")
    BY <1>2 DEF ProbeOK, Watched, TimeOut
  <2> QED
    BY <1>1, <2>1, ShutdownOK
<1>3. CASE ForceKill
  <2> DEFINE told == [probe EXCEPT !.shutdown = "kill"]
             lost == [probe EXCEPT !.unsignalled = TRUE]
  <2>1. probe.at = "watching" /\ probe.shutdown = "term" /\ Watched(probe)
    BY <1>3 DEF ForceKill, ProbeOK
  <2>2. told \in Probes /\ ProbeOK(told)
    BY <1>1, <2>1 DEF Probes, ProbeOK, Watched
  <2>3. lost \in Probes /\ lost.unsignalled
    BY <1>1 DEF Probes
  <2>4. probe' = told \/ probe' \in Finished(lost, "none", TRUE)
    BY <1>3 DEF ForceKill, Unsent
  <2> HIDE DEF told, lost
  <2> QED
    BY <2>2, <2>3, <2>4, FinishedOK
<1>4. CASE Abandon
  <2>1. /\ probe.shutdown = "kill"
        /\ probe' \in Finished(probe, "none", probe.cause = "error")
    BY <1>4 DEF Abandon
  <2> QED
    BY <1>1, <2>1, FinishedOK
<1>5. CASE Remove
  BY <1>1, <1>5 DEF Remove, ProbeOK, Judged, Probes
<1> QED
  BY <1>2, <1>3, <1>4, <1>5 DEF Timers

LEMMA ChildOK ==
  ASSUME ProbeOK(probe), Overflow \/ StreamError \/ ChildCloses
  PROVE  ProbeOK(probe')
<1>1. probe \in Probes
  BY DEF ProbeOK
<1>2. CASE Overflow
  <2> DEFINE p == [probe EXCEPT !.overflow = TRUE]
  <2>1. probe.at = "watching" /\ Watched(probe) /\ probe' \in Shutdown(p, "overflow")
    BY <1>2 DEF Overflow, ProbeOK
  <2>2. /\ p \in Probes /\ p.at = "watching" /\ p.overflow
        /\ p.child = "alive" /\ ~p.unsignalled
        /\ p.shutdown = probe.shutdown /\ p.cause = probe.cause
    BY <1>1, <2>1 DEF Probes, Watched
  <2> HIDE DEF p
  <2>3. p.shutdown # "none" => ProbeOK(p)
    BY <2>1, <2>2 DEF ProbeOK, Watched
  <2>4. p.shutdown = "none" => p.cause = "none"
    BY <2>1, <2>2 DEF Watched
  <2> QED
    BY <2>1, <2>2, <2>3, <2>4, ShutdownOK
<1>3. CASE StreamError
  <2>1. probe' \in Cancelled(probe)
    BY <1>3 DEF StreamError, Cancelled
  <2> QED
    BY <2>1, CancelledOK
<1>4. CASE ChildCloses
  <2> DEFINE p == [probe EXCEPT !.child = "gone"]
  <2>1. probe.at = "watching" /\ Watched(probe)
    BY <1>4 DEF ChildCloses, ProbeOK
  <2>2. PICK exit \in {"zero", "other"} :
          probe' \in Finished(p, exit, probe.cause = "error")
    BY <1>4 DEF ChildCloses
  <2>3. /\ p \in Probes /\ p.child = "gone" /\ p.cause = probe.cause
        /\ p.shutdown = probe.shutdown /\ p.overflow = probe.overflow
    BY <1>1 DEF Probes
  <2> HIDE DEF p
  <2>4. p.cause # "timeout" /\ ~(probe.cause = "error") /\ ~p.overflow =>
          p.shutdown = "none"
    BY <1>1, <2>1, <2>3 DEF Watched, Probes
  <2> QED
    BY <2>2, <2>3, <2>4, FinishedOK
<1> QED
  BY <1>2, <1>3, <1>4

LEMMA IdleOK == ProbeOK(Idle)
  BY DEF ProbeOK, Idle, Probes

LEMMA BeginOK ==
  ASSUME ProbeOK(probe), NEW aborted, Investigate(aborted) \/ Spawn(aborted)
  PROVE  ProbeOK(probe')
<1>1. CASE Investigate(aborted)
  BY <1>1 DEF Investigate, ProbeOK, Judged, Unborn, Idle, Probes
<1>2. CASE Spawn(aborted)
  BY <1>2 DEF Spawn, ProbeOK, Judged, Watched, Unborn, Probes
<1> QED
  BY <1>1, <1>2

-----------------------------------------------------------------------------
(* The process. *)

\* Who may change the workload, and what must be over when the client closes.
LoopInv ==
  /\ critical = IF drain.at = "changing" \/ heart = "restoring" THEN 1 ELSE 0
  /\ heart \in {"parting", "restoring"} => restoring
  /\ heart = "restoring" => drain.at = "none"
  /\ heart = "restoring" => asked \in Incident
  /\ heart = "parting" => asked \in Incident
  /\ main # "running" => drain.at = "none" /\ stopping = "no"
  /\ main \in {"verifying", "failed"} => heart = "off"
  /\ stopping = "closed" => drain.at # "changing" /\ heart # "restoring"

Feeds == [latest : 0..MaxSnapshots, delivered : 0..MaxSnapshots,
          empty : SUBSET Snapshots]

RunnerLoopInv ==
  /\ RunnerLoopTypeOK
  /\ feed \in Feeds
  /\ LoopInv
  /\ ProbeOK(probe)

Drains == [at : {"none", "running", "changing", "exited"}, aborted : BOOLEAN]

LEMMA InitHolds == Init => RunnerLoopInv
<1> SUFFICES ASSUME Init PROVE RunnerLoopInv
  OBVIOUS
<1>1. feed \in Feeds
  BY SnapshotsAssumption DEF Init, Feeds
<1>2. drain \in Drains /\ drain.at = "none"
  BY DEF Init, NoDrain, Drains
<1>3. RunnerLoopTypeOK
  <2>1. pending \in 0..MaxSnapshots /\ critical \in Int
    BY SnapshotsAssumption DEF Init
  <2>2. asked \in Incident \cup {None} /\ done \subseteq Incident
    BY DEF Init
  <2> QED
    BY <1>2, <2>1, <2>2 DEF Init, RunnerLoopTypeOK, Drains
<1>4. LoopInv
  BY <1>2 DEF Init, LoopInv
<1> QED
  BY <1>1, <1>3, <1>4, IdleOK DEF Init, RunnerLoopInv

LEMMA TakenIs ==
  ASSUME NEW next
  PROVE  Taken(next) \in Drains /\ Taken(next).at # "changing"
<1>1. CASE next = 0 \/ next \in feed.empty
  BY <1>1 DEF Taken, Drains
<1>2. CASE ~(next = 0 \/ next \in feed.empty)
  BY <1>2 DEF Taken, Drains
<1> QED
  BY <1>1, <1>2

\* What is pending and what is run after a call of drainCommands.
LEMMA DrainedIs ==
  ASSUME RunnerLoopTypeOK, NEW next \in 0..MaxSnapshots, NEW busy \in BOOLEAN,
         Drained(next, busy)
  PROVE  /\ pending' \in 0..MaxSnapshots
         /\ drain' \in Drains
         /\ drain' = drain \/ (drain.at = "none" /\ ~busy)
         /\ drain'.at = "changing" => drain.at = "changing"
<1>1. drain \in Drains
  BY DEF RunnerLoopTypeOK, Drains
<1>2. CASE drain.at # "none" \/ busy \/ next = 0
  <2>1. pending' = next /\ drain' = drain
    BY <1>2 DEF Drained
  <2> QED
    BY <1>1, <2>1
<1>3. CASE ~(drain.at # "none" \/ busy \/ next = 0)
  <2>1. pending' = 0 /\ drain' = Taken(next)
    BY <1>3 DEF Drained
  <2> QED
    BY <1>3, <2>1, TakenIs, SnapshotsAssumption
<1> QED
  BY <1>2, <1>3

\* The loop by itself.
LEMMA DrainKeeps ==
  ASSUME RunnerLoopInv, RunEnds \/ DrainSettles
  PROVE  RunnerLoopInv'
<1> USE DEF RunnerLoopInv, RunnerLoopTypeOK, LoopInv, Drains
<1>1. /\ pending' \in 0..MaxSnapshots
      /\ drain' \in Drains
      /\ drain'.at # "changing" /\ drain.at \in {"running", "exited"}
  <2>1. /\ [drain EXCEPT !.at = "exited"] \in Drains
        /\ [drain EXCEPT !.at = "exited"].at = "exited"
    OBVIOUS
  <2>2. NoDrain \in Drains /\ NoDrain.at = "none"
    BY DEF NoDrain
  <2> QED
    BY <2>1, <2>2, TakenIs, SnapshotsAssumption DEF RunEnds, DrainSettles
<1>2. probe' = probe \/ probe' = Idle
  BY DEF RunEnds, DrainSettles
<1>3. ProbeOK(probe')
  BY <1>2, IdleOK
<1>4. UNCHANGED <<main, stopping, grace, heart, asked, done, restoring,
                  critical, feed>>
  BY DEF RunEnds, DrainSettles
<1> QED
  BY <1>1, <1>3, <1>4

LEMMA ChangeKeeps ==
  ASSUME RunnerLoopInv, ChangeBegins \/ ChangeEnds
  PROVE  RunnerLoopInv'
<1> USE DEF RunnerLoopInv, RunnerLoopTypeOK, LoopInv, Drains
<1>1. CASE ChangeBegins
  BY <1>1 DEF ChangeBegins, MayChange
<1>2. CASE ChangeEnds
  BY <1>2 DEF ChangeEnds
<1> QED
  BY <1>1, <1>2

\* An abort changes nothing but the flag of the run.
LEMMA AbortedIs ==
  ASSUME RunnerLoopTypeOK, Aborted
  PROVE  /\ drain' \in Drains
         /\ drain'.at = drain.at
<1> DEFINE f == drain.at \in {"running", "changing"}
<1>1. drain \in Drains
  BY DEF RunnerLoopTypeOK, Drains
<1>2. f \in BOOLEAN /\ drain' = [drain EXCEPT !.aborted = f]
  BY DEF Aborted
<1> HIDE DEF f
<1> QED
  BY <1>1, <1>2 DEF Drains

LEMMA FeedKeeps ==
  ASSUME RunnerLoopInv, Publish \/ Deliver
  PROVE  RunnerLoopInv'
<1> USE DEF RunnerLoopInv, RunnerLoopTypeOK, LoopInv, Drains
<1>1. CASE Publish
  <2>1. feed' \in Feeds
    <3>1. PICK none \in BOOLEAN :
            feed' = [feed EXCEPT !.latest = feed.latest + 1,
                       !.empty = IF none THEN feed.empty \cup {feed.latest + 1}
                                 ELSE feed.empty]
      BY <1>1 DEF Publish
    <3> DEFINE n == feed.latest + 1
               e == IF none THEN feed.empty \cup {n} ELSE feed.empty
    <3>2. n \in 1..MaxSnapshots
      <4>1. feed.latest \in 0..MaxSnapshots
        BY DEF Feeds
      <4>2. feed.latest < MaxSnapshots
        BY <1>1 DEF Publish
      <4> QED
        BY <4>1, <4>2, SnapshotsAssumption
    <3>4. n \in 0..MaxSnapshots
      BY <3>2
    <3>5. e \in SUBSET Snapshots
      <4>1. feed.empty \in SUBSET Snapshots
        BY DEF Feeds
      <4> HIDE DEF n
      <4> QED
        BY <3>2, <4>1 DEF Snapshots
    <3>3. feed' = [feed EXCEPT !.latest = n, !.empty = e]
      BY <3>1
    <3> HIDE DEF n, e
    <3> QED
      BY <3>3, <3>4, <3>5 DEF Feeds
  <2> QED
    BY <1>1, <2>1 DEF Publish
<1>2. CASE Deliver
  <2>1. PICK v \in Snapshots : /\ feed' = [feed EXCEPT !.delivered = v]
                              /\ Drained(v, restoring)
    BY <1>2 DEF Deliver
  <2>2. v \in 0..MaxSnapshots /\ feed' \in Feeds
    BY <2>1, SnapshotsAssumption DEF Feeds, Snapshots
  <2>3. /\ pending' \in 0..MaxSnapshots
        /\ drain' \in Drains
        /\ drain' = drain \/ (drain.at = "none" /\ ~restoring)
        /\ drain'.at = "changing" => drain.at = "changing"
    BY <2>1, <2>2, DrainedIs
  <2>4. UNCHANGED <<main, stopping, grace, heart, asked, done, restoring,
                    critical, probe>> /\ main = "running"
    BY <1>2 DEF Deliver
  <2> QED
    BY <2>2, <2>3, <2>4
<1> QED
  BY <1>1, <1>2

LEMMA BeatKeeps ==
  ASSUME RunnerLoopInv, TimerFires \/ NothingToRestore \/ HeartbeatFails
  PROVE  RunnerLoopInv'
  BY DEF RunnerLoopInv, RunnerLoopTypeOK, LoopInv, TimerFires,
         NothingToRestore, HeartbeatFails, Beaten

LEMMA AskingKeeps ==
  ASSUME RunnerLoopInv, NEW i \in Incident, RestorationAsked(i)
  PROVE  RunnerLoopInv'
<1> USE DEF RunnerLoopInv, RunnerLoopTypeOK, LoopInv, Drains
<1>1. /\ drain' \in Drains
      /\ drain'.at = drain.at
  BY AbortedIs DEF RestorationAsked
<1>2. ProbeOK(probe')
  BY CancelledOK DEF RestorationAsked
<1> QED
  BY <1>1, <1>2, SnapshotsAssumption DEF RestorationAsked

LEMMA BeginningKeeps ==
  ASSUME RunnerLoopInv, RestorationBegins
  PROVE  RunnerLoopInv'
  BY DEF RunnerLoopInv, RunnerLoopTypeOK, LoopInv, RestorationBegins,
         MayChange, Beaten

LEMMA EndingKeeps ==
  ASSUME RunnerLoopInv, NEW outcome \in {"restored", "failed", "threw"},
         RestorationEnds(outcome)
  PROVE  RunnerLoopInv'
<1> USE DEF RunnerLoopInv, RunnerLoopTypeOK, LoopInv, Drains
<1>1. /\ heart = "restoring" /\ drain.at = "none" /\ critical = 1
      /\ asked \in Incident
  BY DEF RestorationEnds
<1>2. /\ pending' \in 0..MaxSnapshots
      /\ drain' \in Drains
      /\ drain'.at # "changing"
      /\ main # "running" => drain' = drain
  <2>1. CASE main = "running" /\ stopping = "no"
    <3>1. Drained(pending, FALSE)
      BY <2>1 DEF RestorationEnds, AfterRestoration
    <3> QED
      BY <1>1, <2>1, <3>1, DrainedIs
  <2>2. CASE ~(main = "running" /\ stopping = "no")
    BY <1>1, <2>2 DEF RestorationEnds, AfterRestoration
  <2> QED
    BY <2>1, <2>2
<1>3. /\ main' \in {"verifying", "running", "failed"}
      /\ heart' \in {"off", "armed"}
      /\ main' \in {"verifying", "failed"} => heart' = "off"
      /\ main' # "running" => main # "running"
  <2>1. CASE main = "starting"
    BY <1>1, <2>1 DEF RestorationEnds
  <2>2. CASE main # "starting"
    BY <1>1, <2>2 DEF RestorationEnds, Beaten
  <2> QED
    BY <2>1, <2>2
<1>4. /\ done' \subseteq Incident /\ critical' = 0 /\ restoring' = FALSE
      /\ asked' = None
      /\ UNCHANGED <<stopping, grace, feed, probe>>
  BY <1>1 DEF RestorationEnds
<1>5. RunnerLoopTypeOK'
  <2>1. /\ main' \in {"starting", "verifying", "running", "failed"}
        /\ heart' \in {"off", "armed", "calling", "parting", "restoring"}
    BY <1>3
  <2>3. asked' \in Incident \cup {None} /\ critical' \in Int
    BY <1>4
  <2>4. restoring' \in BOOLEAN
    BY <1>4
  <2>2. stopping' \in {"no", "waiting", "closed"} /\ grace' \in BOOLEAN
    BY <1>4
  <2> QED
    BY <1>2, <1>4, <2>1, <2>2, <2>3, <2>4
<1>6. LoopInv'
  BY <1>1, <1>2, <1>3, <1>4
<1> QED
  BY <1>4, <1>5, <1>6

LEMMA EdgesKeep ==
  ASSUME RunnerLoopInv,
         (\E ready \in BOOLEAN : Verified(ready)) \/ Stop \/ GracePasses \/ Close
  PROVE  RunnerLoopInv'
<1> USE DEF RunnerLoopInv, RunnerLoopTypeOK, LoopInv, Drains
<1>1. ASSUME NEW ready \in BOOLEAN, Verified(ready)
      PROVE  RunnerLoopInv'
  BY <1>1 DEF Verified
<1>2. CASE Stop
  <2>1. /\ drain' \in Drains
        /\ drain'.at = drain.at
    BY <1>2, AbortedIs DEF Stop
  <2>2. ProbeOK(probe')
    BY <1>2, CancelledOK DEF Stop
  <2> QED
    BY <1>2, <2>1, <2>2, SnapshotsAssumption DEF Stop
<1>3. CASE GracePasses
  BY <1>3 DEF GracePasses
<1>4. CASE Close
  BY <1>4 DEF Close, MayClose
<1> QED
  BY <1>1, <1>2, <1>3, <1>4

LEMMA ProbingKeeps ==
  ASSUME RunnerLoopInv, RunInvestigates \/ InvestigationStep
  PROVE  RunnerLoopInv'
<1>1. UNCHANGED loopVars
  BY DEF RunInvestigates, InvestigationStep
<1>2. ProbeOK(probe')
  <2>1. ProbeOK(probe)
    BY DEF RunnerLoopInv
  <2> QED
    BY <2>1, BeginOK, IdleOK, TimersOK, ChildOK
       DEF RunInvestigates, InvestigationStep
<1> QED
  BY <1>1, <1>2
     DEF RunnerLoopInv, RunnerLoopTypeOK, LoopInv, loopVars

LEMMA StepHolds == RunnerLoopInv /\ [Next]_vars => RunnerLoopInv'
<1>1. CASE UNCHANGED vars
  BY <1>1 DEF vars, loopVars, RunnerLoopInv, RunnerLoopTypeOK, LoopInv
<1> QED
  BY <1>1, DrainKeeps, ChangeKeeps, ProbingKeeps, FeedKeeps, BeatKeeps,
     AskingKeeps, BeginningKeeps, EndingKeeps, EdgesKeep
     DEF Next, HeartbeatAnswered, RestorationOver

-----------------------------------------------------------------------------
(* The theorems. *)

\* Types, the count of changes, who may make one, and the state of an
\* investigation, in every reachable state.
THEOREM RunnerLoopSound == Spec => []RunnerLoopInv
  BY InitHolds, StepHolds, PTL DEF Spec

\* Type correctness of the process.
THEOREM RunnerLoopTypes == Spec => []RunnerLoopTypeOK
<1>1. RunnerLoopInv => RunnerLoopTypeOK
  BY DEF RunnerLoopInv
<1> QED
  BY RunnerLoopSound, <1>1, PTL

\* One change of the workload at a time, counted by the activity observer, and
\* none once the client is closed.
THEOREM QuietAfterClosing == Spec => []QuietOnceClosed
<1>1. RunnerLoopInv => QuietOnceClosed
  <2> SUFFICES ASSUME RunnerLoopInv PROVE QuietOnceClosed
    OBVIOUS
  <2> USE DEF RunnerLoopInv, RunnerLoopTypeOK, LoopInv
  <2>1. Changing = (IF drain.at = "changing" THEN {"run"} ELSE {})
                     \cup (IF heart = "restoring" THEN {"restoration"} ELSE {})
    BY DEF Changing
  <2> QED
    BY <2>1 DEF QuietOnceClosed, Closed
<1> QED
  BY RunnerLoopSound, <1>1, PTL

\* A diagnosis is believed only of a child that ended by itself, and a child
\* that is given up was killed or could not be signalled.
THEOREM DiagnosesAreSound == Spec => []InvestigationSound
<1>1. RunnerLoopInv => InvestigationSound
  BY DEF RunnerLoopInv, ProbeOK, Judged, InvestigationSound
<1> QED
  BY RunnerLoopSound, <1>1, PTL
=============================================================================
