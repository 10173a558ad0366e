---------------------------- MODULE Investigation ----------------------------
(***************************************************************************)
(* createCodexInvestigator: a diagnosis is the output of a child process   *)
(* in a temporary directory, with its own time-out, a limit on its output, *)
(* and a caller that may give up on it.                                    *)
(*                                                                         *)
(* The child is not trusted.  It may exit by itself with any code, write   *)
(* too much, ignore the signals it is sent, or not take one at all.        *)
(***************************************************************************)

VARIABLE probe  \* the investigation in work

\* "at" is where investigate stands.  "cause" is why the child was told to
\* end, if it was; "unsignalled" that a signal could not be sent; "tidy" that
\* the directory is gone.
Idle ==
  [at |-> "idle", child |-> "none", shutdown |-> "none", cause |-> "none",
   overflow |-> FALSE, unsignalled |-> FALSE, tidy |-> TRUE, result |-> "none"]

-----------------------------------------------------------------------------
(* The process. *)

\* What the child printed is a diagnosis that cites the evidence, or is not.
Parsed == {"succeeded", "invalid_output"}

\* Mutant of Classified: what the exit code says is all that counts.
Classified_ExitOnly(p, exit, error) ==
  IF exit = "zero" THEN Parsed ELSE {"process_failed"}

\* The order of the tests in investigate.
Classified(p, exit, error) ==
  IF p.cause = "timeout" THEN {"timeout"}
  ELSE IF error \/ exit # "zero" THEN {"process_failed"}
  ELSE IF p.overflow THEN {"invalid_output"}
  ELSE Parsed

\* finish: whatever the child is doing, nobody listens to it any more.
Finished(p, exit, error) ==
  {[p EXCEPT !.at = "removing", !.result = r] : r \in Classified(p, exit, error)}

\* The signal throws.
Unsent(p) == Finished([p EXCEPT !.unsignalled = TRUE], "none", TRUE)

\* beginShutdown, which only the first cause gets through.
Shutdown(p, cause) ==
  IF p.at # "watching" \/ p.shutdown # "none" THEN {p}
  ELSE LET told == [p EXCEPT !.shutdown = "term", !.cause = cause]
       IN {told} \cup Unsent(told)

\* The abort signal of the caller.
Cancelled(p) == Shutdown(p, "error")

TimeOut ==
  /\ probe.at = "watching" /\ probe.shutdown = "none"
  /\ probe' \in Shutdown(probe, "timeout")

Overflow ==
  /\ probe.at = "watching" /\ ~probe.overflow
  /\ probe' \in Shutdown([probe EXCEPT !.overflow = TRUE], "overflow")

\* An error event of the child or of one of its streams.
StreamError ==
  /\ probe.at = "watching" /\ probe.shutdown = "none"
  /\ probe' \in Shutdown(probe, "error")

\* The child is gone and its streams are closed.
ChildCloses ==
  /\ probe.at = "watching"
  /\ \E exit \in {"zero", "other"} :
       probe' \in Finished([probe EXCEPT !.child = "gone"], exit,
                           probe.cause = "error")

ForceKill ==
  /\ probe.at = "watching" /\ probe.shutdown = "term"
  /\ probe' \in {[probe EXCEPT !.shutdown = "kill"]} \cup Unsent(probe)

\* A child that does not even end when killed is left alone.
Abandon ==
  /\ probe.at = "watching" /\ probe.shutdown = "kill"
  /\ probe' \in Finished(probe, "none", probe.cause = "error")

-----------------------------------------------------------------------------
(* Around it. *)

\* An aborted caller, evidence that does not parse and a directory that
\* cannot be made end it before there is anything to clean up.
Investigate(aborted) ==
  /\ probe.at = "idle"
  /\ \/ \E r \in {"process_failed", "invalid_output"} :
          probe' = [Idle EXCEPT !.at = "returned", !.result = r]
     \/ ~aborted /\ probe' = [Idle EXCEPT !.at = "preparing", !.tidy = FALSE]

\* The directories, the link to the login and the spawning of the child.
Spawn(aborted) ==
  /\ probe.at = "preparing"
  /\ \/ probe' = [probe EXCEPT !.at = "removing", !.result = "process_failed"]
     \/ /\ ~aborted
        /\ probe' = [probe EXCEPT !.at = "watching", !.child = "alive"]

\* rm; a result whose directory stays is not reported.
Remove ==
  /\ probe.at = "removing"
  /\ probe' \in {[probe EXCEPT !.at = "returned", !.tidy = TRUE],
                 [probe EXCEPT !.at = "returned", !.result = "process_failed"]}

Timers == TimeOut \/ ForceKill \/ Abandon \/ Remove

Investigating == probe.at \notin {"idle", "returned"}

-----------------------------------------------------------------------------
(* Properties. *)

\* A diagnosis is believed only of a child that came to its end by itself,
\* was never told to stop and kept to the limit, and whose directory, with the
\* link to the operator's login in it, is gone.  A child that is still alive
\* when the answer is given was killed, or could not be signalled.
InvestigationSound ==
  probe.at = "returned" =>
    /\ probe.result = "succeeded" =>
         /\ probe.child = "gone" /\ probe.shutdown = "none"
         /\ ~probe.overflow /\ probe.tidy
    /\ probe.child = "alive" => probe.shutdown = "kill" \/ probe.unsignalled
=============================================================================
