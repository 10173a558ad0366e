------------------------ MODULE ConnectedServerProofs ------------------------
(***************************************************************************)
(* Proofs about the server of owner-connected recovery, for any number of  *)
(* runners, commands and instances, whatever the runners report.           *)
(*                                                                         *)
(* That an owner has one unfinished command is not inductive: a request    *)
(* looks at the latest command of the runner in force only.  It needs that *)
(* an unfinished command is the latest of its runner, that this runner is  *)
(* the one in force, and that commands are created in order.               *)
(***************************************************************************)
EXTENDS ConnectedServer, TLAPS

Exists == Active \union Terminal

OnePaired ==
  \A r, s \in Runner : runner[r] = "paired" /\ runner[s] = "paired" => r = s

ActiveInForce ==
  \A c \in Command :
    recovery[c].status \in Active =>
      recovery[c].runner \in Runner /\ runner[recovery[c].runner] = "paired"

ActiveIsLatest ==
  \A c, d \in Command :
    /\ recovery[c].status \in Active
    /\ recovery[d].status \in Exists
    /\ recovery[d].runner = recovery[c].runner
    => d <= c

CreatedInOrder ==
  \A c, d \in Command :
    recovery[c].status = "absent" /\ c < d => recovery[d].status = "absent"

\* OutcomeHasGrounds of one row, and what it needs of the rows before.
Grounded(row) ==
  /\ row.status = "pending_approval" => row.nonce = NoCommand
  /\ row.status = "approved" => row.decision = "approved"
  /\ row.nonce # NoCommand => row.decision = "approved"
  /\ row.status \in Reported \union {"claimed", "execution_unknown"} =>
       row.nonce # NoCommand
  /\ row.status \in Reported => row.code # NoCode
  /\ row.status = "succeeded" =>
       row.code = "restart_succeeded" /\ row.after \notin {NoInstance, row.before}

AllGrounded == \A c \in Command : Grounded(recovery[c])

ServerInv ==
  /\ ServerTypeOK
  /\ OnePaired /\ ActiveInForce /\ ActiveIsLatest /\ CreatedInOrder
  /\ AllGrounded

\* No row is created and none is given to another runner.
Continues ==
  \A c \in Command :
    /\ recovery'[c].runner = recovery[c].runner
    /\ recovery'[c].status \in Active => recovery[c].status \in Active
    /\ recovery'[c].status \in Exists => recovery[c].status \in Exists
    /\ recovery'[c].status = "absent" <=> recovery[c].status = "absent"

\* Then the order of the rows stays as it is.
LEMMA OrderKept ==
  ASSUME ActiveIsLatest, CreatedInOrder, Continues
  PROVE  ActiveIsLatest' /\ CreatedInOrder'
  BY DEF ActiveIsLatest, CreatedInOrder, Continues

\* And so is the place of the unfinished ones, if the runners are unchanged.
LEMMA ForceKept ==
  ASSUME ActiveInForce, Continues, UNCHANGED runner
  PROVE  ActiveInForce'
  BY DEF ActiveInForce, Continues

-----------------------------------------------------------------------------
(* One row. *)

\* A status that says nothing about an execution.
Plain == {"rejected", "expired", "not_needed"}

LEMMA MovedRow ==
  ASSUME NEW row \in RecoveryRow, Grounded(row), NEW status \in Plain
  PROVE  /\ [row EXCEPT !.status = status] \in RecoveryRow
         /\ Grounded([row EXCEPT !.status = status])
  BY DEF RecoveryRow, Grounded, Plain, Active, Terminal, Reported

\* Revocation and watchdog.
LEMMA AbandonedRow ==
  ASSUME NEW c \in Command, recovery[c] \in RecoveryRow, Grounded(recovery[c]),
         recovery[c].status \in Active
  PROVE  /\ Abandoned(c) \in RecoveryRow /\ Grounded(Abandoned(c))
         /\ Abandoned(c).status \in {"expired", "execution_unknown"}
         /\ Abandoned(c).runner = recovery[c].runner
  BY DEF Abandoned, RecoveryRow, Grounded, Active, Terminal, Reported

\* A command handed out, or found not to be needed any more.
LEMMA ServedRow ==
  ASSUME NEW c \in Command, recovery[c] \in RecoveryRow, Grounded(recovery[c]),
         recovery[c].status = "approved", NEW r \in Runner, NEW report
  PROVE  /\ Served(r, c, report) \in RecoveryRow /\ Grounded(Served(r, c, report))
         /\ Served(r, c, report).status \in {"claimed", "expired", "not_needed"}
         /\ Served(r, c, report).runner = recovery[c].runner
<1>1. CASE Claimable(r, c, report)
  <2>1. c # NoCommand
    BY DEF Command, NoCommand
  <2>2. recovery[c].decision = "approved"
    BY DEF Grounded
  <2>3. Served(r, c, report) =
          [recovery[c] EXCEPT !.status = "claimed", !.nonce = c, !.late = FALSE]
    BY <1>1 DEF Served
  <2>4. Served(r, c, report) \in RecoveryRow
    BY <2>3 DEF RecoveryRow, Active
  <2>5. /\ Served(r, c, report).status = "claimed"
        /\ Served(r, c, report).nonce = c
        /\ Served(r, c, report).decision = recovery[c].decision
        /\ Served(r, c, report).runner = recovery[c].runner
    BY <2>3 DEF RecoveryRow
  <2> QED
    BY <2>1, <2>2, <2>4, <2>5 DEF Grounded, Reported
<1>2. CASE ~Claimable(r, c, report)
  BY <1>2 DEF Served, RecoveryRow, Grounded, Active, Terminal, Reported
<1> QED BY <1>1, <1>2

\* A result that was accepted.
LEMMA FinishedRow ==
  ASSUME NEW c \in Command, recovery[c] \in RecoveryRow, Grounded(recovery[c]),
         recovery[c].status = "claimed",
         NEW n, NEW code \in ResultCode, NEW found \in Instance
  PROVE  LET row == Finished(Result(c, n, code, found))
         IN /\ row \in RecoveryRow /\ Grounded(row)
            /\ row.status \in Reported
            /\ row.runner = recovery[c].runner
  BY DEF Finished, Succeeded, Result, RecoveryRow, Grounded, Active, Terminal,
     Reported, ResultCode, NoCode

-----------------------------------------------------------------------------
(* The actions. *)

LEMMA TimeStep ==
  ASSUME ServerInv, ServerClock
  PROVE  ServerInv'
<1>1. ASSUME NEW r \in Runner, NEW e \in Evidence, GoesStale(r, e)
      PROVE  ServerInv'
  BY <1>1 DEF GoesStale, ServerInv, ServerTypeOK, OnePaired, ActiveInForce,
     ActiveIsLatest, CreatedInOrder, AllGrounded, Grounded
<1>2. ASSUME NEW c \in Command, DeadlinePasses(c)
      PROVE  ServerInv'
  <2> DEFINE row == [recovery[c] EXCEPT !.late = TRUE]
  <2>1. recovery' = [recovery EXCEPT ![c] = row]
    BY <1>2 DEF DeadlinePasses, ServerInv, ServerTypeOK
  <2>2. recovery[c] \in RecoveryRow /\ Grounded(recovery[c])
    BY DEF ServerInv, ServerTypeOK, AllGrounded
  <2>3. /\ row \in RecoveryRow /\ Grounded(row)
        /\ row.status = recovery[c].status /\ row.runner = recovery[c].runner
    BY <2>2 DEF RecoveryRow, Grounded
  <2> HIDE DEF row
  <2>4. ServerTypeOK'
    BY <1>2, <2>1, <2>3 DEF DeadlinePasses, ServerInv, ServerTypeOK
  <2>5. Continues
    BY <2>1, <2>3 DEF Continues, ServerInv, ServerTypeOK
  <2>6. AllGrounded'
    BY <2>1, <2>3 DEF AllGrounded, ServerInv, ServerTypeOK
  <2> QED
    BY <1>2, <2>4, <2>5, <2>6, OrderKept, ForceKept
    DEF DeadlinePasses, ServerInv, OnePaired
<1> QED BY <1>1, <1>2 DEF ServerClock

LEMMA PairStep ==
  ASSUME ServerInv, NEW r \in Runner, PairRunner(r)
  PROVE  ServerInv'
<1>1. ServerTypeOK' /\ OnePaired'
  BY DEF PairRunner, ServerInv, ServerTypeOK, OnePaired
<1>2. ActiveInForce'
  BY DEF PairRunner, ServerInv, ServerTypeOK, ActiveInForce
<1> QED
  BY <1>1, <1>2
  DEF PairRunner, ServerInv, ActiveIsLatest, CreatedInOrder, AllGrounded, Grounded

LEMMA RegisterStep ==
  ASSUME ServerInv, NEW r \in Runner, RegisterFixedWorkload(r)
  PROVE  ServerInv'
<1>1. ServerTypeOK'
  BY DEF RegisterFixedWorkload, ServerInv, ServerTypeOK
<1> QED
  BY <1>1
  DEF RegisterFixedWorkload, ServerInv, OnePaired, ActiveInForce, ActiveIsLatest,
      CreatedInOrder, AllGrounded, Grounded

\* The latest row of the runner in force is finished, so all rows are.
LEMMA NothingUnfinished ==
  ASSUME ServerInv, NEW r \in Runner, runner[r] = "paired", ~LatestIsActive(r)
  PROVE  \A c \in Command : recovery[c].status \notin Active
<1> SUFFICES ASSUME NEW c \in Command, recovery[c].status \in Active
             PROVE  FALSE
  OBVIOUS
<1>1. recovery[c].runner = r
  BY DEF ServerInv, ActiveInForce, OnePaired
<1>2. c \in Of(r, Active)
  BY <1>1 DEF Of
<1>3. \A d \in Of(r, Active \union Terminal) : d <= c
  BY <1>1 DEF Of, ServerInv, ActiveIsLatest, Exists
<1> QED BY <1>2, <1>3 DEF LatestIsActive

LEMMA RequestStep ==
  ASSUME ServerInv, NEW r \in Runner, RequestFixedRecovery(r)
  PROVE  ServerInv'
<1>1. PICK k \in Command :
        /\ NextCommand(k)
        /\ recovery' = [d \in Command |->
             IF d = k THEN [NoRow("pending_approval") EXCEPT
                              !.runner = r, !.before = workload[r].lastHealthy]
             ELSE IF d \in Trimmed(r) THEN NoRow("trimmed")
             ELSE recovery[d]]
  BY DEF RequestFixedRecovery
<1>2. /\ runner[r] = "paired" /\ ~LatestIsActive(r)
      /\ UNCHANGED <<runner, fresh, workload>>
  BY DEF RequestFixedRecovery, RunnerFresh
<1>3. \A c \in Command : recovery[c].status \notin Active
  BY <1>2, NothingUnfinished
<1> DEFINE new == [NoRow("pending_approval") EXCEPT
                     !.runner = r, !.before = workload[r].lastHealthy]
<1>4. /\ new \in RecoveryRow /\ Grounded(new)
      /\ new.status = "pending_approval" /\ new.runner = r
  BY InstanceAssumption
  DEF NoRow, RecoveryRow, Active, Terminal, Reported, Grounded, ServerInv, ServerTypeOK
<1>5. /\ NoRow("trimmed") \in RecoveryRow /\ Grounded(NoRow("trimmed"))
      /\ NoRow("trimmed").status = "trimmed"
  BY InstanceAssumption DEF NoRow, RecoveryRow, Grounded, Reported
<1> HIDE DEF new
<1>6. recovery' = [d \in Command |-> IF d = k THEN new
                                     ELSE IF d \in Trimmed(r) THEN NoRow("trimmed")
                                     ELSE recovery[d]]
  BY <1>1 DEF new
<1>7. \A d \in Trimmed(r) : recovery[d].status \in Exists
  BY DEF Trimmed, Of, Exists
<1>8. \A d \in Command :
        \/ d = k /\ recovery'[d] = new
        \/ d # k /\ recovery'[d] = recovery[d]
        \/ d # k /\ recovery[d].status \in Exists /\ recovery'[d] = NoRow("trimmed")
  BY <1>6, <1>7
<1>9. ServerTypeOK'
  BY <1>2, <1>4, <1>5, <1>6 DEF ServerInv, ServerTypeOK
<1>10. OnePaired' /\ ActiveInForce'
  BY <1>2, <1>3, <1>4, <1>5, <1>8 DEF ServerInv, OnePaired, ActiveInForce, Active
<1>11. \A d \in Command : recovery[d].status \in Exists => d < k
  BY <1>1 DEF NextCommand, ServerInv, CreatedInOrder, Exists, Active, Terminal,
     Reported, Command
<1>12. ActiveIsLatest'
  <2> SUFFICES ASSUME NEW c \in Command, NEW d \in Command,
                      recovery'[c].status \in Active, recovery'[d].status \in Exists
               PROVE  d <= c
    BY DEF ActiveIsLatest
  <2>1. c = k
    BY <1>3, <1>5, <1>8 DEF Active
  <2>2. d = k \/ recovery[d].status \in Exists
    BY <1>8
  <2> QED BY <2>1, <2>2, <1>11 DEF Command
<1>13. CreatedInOrder'
  <2> SUFFICES ASSUME NEW c \in Command, NEW d \in Command, c < d,
                      recovery'[c].status = "absent"
               PROVE  recovery'[d].status = "absent"
    BY DEF CreatedInOrder
  <2>1. c # k /\ recovery[c].status = "absent"
    BY <1>4, <1>5, <1>8
  <2>2. d # k
    BY <1>1, <2>1 DEF NextCommand
  <2>3. recovery[d].status = "absent"
    BY <2>1 DEF ServerInv, CreatedInOrder
  <2> QED BY <1>8, <2>2, <2>3 DEF Exists, Active, Terminal, Reported
<1>14. AllGrounded'
  BY <1>4, <1>5, <1>8 DEF ServerInv, AllGrounded
<1> QED BY <1>9, <1>10, <1>12, <1>13, <1>14 DEF ServerInv

LEMMA DecideStep ==
  ASSUME ServerInv, NEW c \in Command, NEW decision \in {"approved", "rejected"},
         DecideFixedRecovery(c, decision)
  PROVE  ServerInv'
<1>1. recovery[c].status = "pending_approval" /\ UNCHANGED <<runner, fresh, workload>>
  BY DEF DecideFixedRecovery
<1>2. recovery[c] \in RecoveryRow /\ Grounded(recovery[c])
  BY DEF ServerInv, ServerTypeOK, AllGrounded
<1>3. PICK row \in RecoveryRow :
        /\ recovery' = [recovery EXCEPT ![c] = row] /\ Grounded(row)
        /\ row.status \in {"approved", "rejected", "expired"}
        /\ row.runner = recovery[c].runner
  <2>1. CASE recovery[c].late
    <3> DEFINE row == [recovery[c] EXCEPT !.status = "expired"]
    <3>1. recovery' = [recovery EXCEPT ![c] = row]
      BY <2>1 DEF DecideFixedRecovery, Move
    <3>2. row \in RecoveryRow /\ Grounded(row)
      BY <1>2, MovedRow DEF Plain
    <3>3. row.status = "expired" /\ row.runner = recovery[c].runner
      BY <1>2 DEF RecoveryRow
    <3> QED BY <3>1, <3>2, <3>3
  <2>2. CASE ~recovery[c].late
    <3> DEFINE row == [recovery[c] EXCEPT !.status = decision, !.decision = decision]
    <3>1. recovery' = [recovery EXCEPT ![c] = row]
      BY <2>2 DEF DecideFixedRecovery, ServerInv, ServerTypeOK
    <3>2. row \in RecoveryRow /\ Grounded(row)
      BY <1>1, <1>2 DEF RecoveryRow, Grounded, Active, Terminal, Reported
    <3>3. row.status = decision /\ row.runner = recovery[c].runner
      BY <1>2 DEF RecoveryRow
    <3> QED BY <3>1, <3>2, <3>3
  <2> QED BY <2>1, <2>2
<1>4. ServerTypeOK'
  BY <1>1, <1>3 DEF ServerInv, ServerTypeOK
<1>5. Continues
  BY <1>1, <1>3 DEF Continues, ServerInv, ServerTypeOK, Active, Terminal, Exists
<1>6. AllGrounded'
  BY <1>3 DEF AllGrounded, ServerInv, ServerTypeOK
<1> QED
  BY <1>1, <1>4, <1>5, <1>6, OrderKept, ForceKept DEF ServerInv, OnePaired

\* What the heartbeat does to each row.
LEMMA HeartbeatRows ==
  ASSUME ServerInv, NEW r \in Runner, NEW report \in Instance,
         NEW c \in Command, NEW code \in ResultCode, NEW found \in Instance,
         NEW result, result = NoResult \/ result = Result(c, c, code, found),
         RecordHeartbeat(r, report, result),
         NEW d \in Command
  PROVE  \/ recovery'[d] = recovery[d]
         \/ /\ recovery[d].status \in {"approved", "claimed"}
            /\ recovery'[d] \in RecoveryRow /\ Grounded(recovery'[d])
            /\ recovery'[d].status \in
                 Reported \union {"claimed", "expired", "not_needed"}
            /\ recovery'[d].runner = recovery[d].runner
<1>1. recovery[d] \in RecoveryRow /\ Grounded(recovery[d])
  BY DEF ServerInv, ServerTypeOK, AllGrounded
<1>2. recovery'[d] = IF d \in Candidates(r, result) THEN Served(r, d, report)
                     ELSE AfterResult(r, result)[d]
  BY DEF RecordHeartbeat
<1>3. CASE d \in Candidates(r, result)
  <2>1. recovery[d].status = "approved"
    BY <1>3 DEF Candidates, Of
  <2> QED BY <1>1, <1>2, <1>3, <2>1, ServedRow
<1>4. CASE d \notin Candidates(r, result) /\ Disposition(r, result) # "accepted"
  BY <1>2, <1>4 DEF AfterResult
<1>5. CASE d \notin Candidates(r, result) /\ Disposition(r, result) = "accepted"
  <2>1. result = Result(c, c, code, found) /\ result.command = c
    BY <1>5 DEF Disposition, NoResult, Result
  <2>2. recovery[c].status = "claimed"
    BY <1>5, <2>1 DEF Disposition
  <2>3. recovery'[d] = IF d = c THEN Finished(result) ELSE recovery[d]
    BY <1>2, <1>5, <2>1 DEF AfterResult, ServerInv, ServerTypeOK
  <2>4. CASE d # c
    BY <2>3, <2>4
  <2>5. CASE d = c
    BY <1>1, <2>1, <2>2, <2>3, <2>5, FinishedRow
  <2> QED BY <2>4, <2>5
<1> QED BY <1>3, <1>4, <1>5

LEMMA HeartbeatStep ==
  ASSUME ServerInv, NEW r \in Runner, NEW report \in Instance,
         NEW c \in Command, NEW code \in ResultCode, NEW found \in Instance,
         NEW result, result = NoResult \/ result = Result(c, c, code, found),
         RecordHeartbeat(r, report, result)
  PROVE  ServerInv'
<1>1. /\ runner' = runner
      /\ fresh' \in [Runner -> SUBSET Evidence]
  BY DEF RecordHeartbeat, ServerInv, ServerTypeOK, Evidence
<1> DEFINE Health == {"unregistered", "unknown", "healthy", "unhealthy"}
           kept == IF ~Registered(r) THEN workload[r]
                   ELSE IF report = NoInstance
                        THEN [workload[r] EXCEPT !.health = "unhealthy"]
                        ELSE [health |-> "healthy", lastHealthy |-> report]
<1>2. kept \in [health: Health, lastHealthy: Instance]
  BY DEF ServerInv, ServerTypeOK
<1>3. workload' = [workload EXCEPT ![r] = kept]
  BY DEF RecordHeartbeat
<1> HIDE DEF kept
<1>4. workload' \in [Runner -> [health: Health, lastHealthy: Instance]]
  BY <1>2, <1>3 DEF ServerInv, ServerTypeOK
<1>5. \A d \in Command :
        \/ recovery'[d] = recovery[d]
        \/ /\ recovery[d].status \in {"approved", "claimed"}
           /\ recovery'[d] \in RecoveryRow /\ Grounded(recovery'[d])
           /\ recovery'[d].status \in
                Reported \union {"claimed", "expired", "not_needed"}
           /\ recovery'[d].runner = recovery[d].runner
  BY HeartbeatRows
<1>6. recovery' \in [Command -> RecoveryRow]
  <2>1. \A d \in Command : recovery'[d] \in RecoveryRow
    BY <1>5 DEF ServerInv, ServerTypeOK
  <2>2. recovery' = [d \in Command |-> recovery'[d]]
    BY DEF RecordHeartbeat
  <2> QED BY <2>1, <2>2
<1>7. ServerTypeOK'
  BY <1>1, <1>4, <1>6 DEF ServerInv, ServerTypeOK
<1>8. Continues
  BY <1>5 DEF Continues, Active, Terminal, Reported, Exists
<1>9. AllGrounded'
  BY <1>5 DEF ServerInv, AllGrounded
<1> QED
  BY <1>1, <1>7, <1>8, <1>9, OrderKept, ForceKept DEF ServerInv, OnePaired

\* What revocation and watchdog do to the rows they end.
Ended(ends) ==
  recovery' = [c \in Command |-> IF c \in ends THEN Abandoned(c) ELSE recovery[c]]

LEMMA EndedRows ==
  ASSUME ServerInv, NEW ends, Ended(ends),
         \A c \in ends : c \in Command /\ recovery[c].status \in Active
  PROVE  /\ recovery' \in [Command -> RecoveryRow]
         /\ Continues /\ AllGrounded'
         /\ \A c \in Command \ ends : recovery'[c] = recovery[c]
         /\ \A c \in ends : recovery'[c].status \in Terminal
<1>1. \A c \in Command :
        /\ c \notin ends => recovery'[c] = recovery[c]
        /\ c \in ends =>
             /\ recovery[c].status \in Active
             /\ recovery'[c] \in RecoveryRow /\ Grounded(recovery'[c])
             /\ recovery'[c].status \in {"expired", "execution_unknown"}
             /\ recovery'[c].runner = recovery[c].runner
  <2> SUFFICES ASSUME NEW c \in Command
               PROVE  /\ c \notin ends => recovery'[c] = recovery[c]
                      /\ c \in ends =>
                           /\ recovery[c].status \in Active
                           /\ recovery'[c] \in RecoveryRow /\ Grounded(recovery'[c])
                           /\ recovery'[c].status \in {"expired", "execution_unknown"}
                           /\ recovery'[c].runner = recovery[c].runner
    OBVIOUS
  <2>1. recovery[c] \in RecoveryRow /\ Grounded(recovery[c])
    BY DEF ServerInv, ServerTypeOK, AllGrounded
  <2>2. recovery'[c] = IF c \in ends THEN Abandoned(c) ELSE recovery[c]
    BY DEF Ended
  <2> QED BY <2>1, <2>2, AbandonedRow
<1>2. recovery' \in [Command -> RecoveryRow]
  <2>1. \A c \in Command : recovery'[c] \in RecoveryRow
    BY <1>1 DEF ServerInv, ServerTypeOK
  <2>2. recovery' = [c \in Command |-> recovery'[c]]
    BY DEF Ended
  <2> QED BY <2>1, <2>2
<1>3. Continues
  BY <1>1 DEF Continues, Active, Terminal, Reported, Exists
<1>4. AllGrounded'
  BY <1>1 DEF ServerInv, AllGrounded
<1> QED BY <1>1, <1>2, <1>3, <1>4 DEF Terminal

LEMMA RevokeStep ==
  ASSUME ServerInv, NEW r \in Runner, Revoke(r)
  PROVE  ServerInv'
<1>1. /\ runner' = [runner EXCEPT ![r] = "revoked"] /\ runner[r] = "paired"
      /\ UNCHANGED <<fresh, workload>>
      /\ Ended(Of(r, Active))
  BY DEF Revoke, Ended
<1>2. \A c \in Of(r, Active) : c \in Command /\ recovery[c].status \in Active
  BY DEF Of
<1>3. /\ recovery' \in [Command -> RecoveryRow]
      /\ Continues /\ AllGrounded'
      /\ \A c \in Command \ Of(r, Active) : recovery'[c] = recovery[c]
      /\ \A c \in Of(r, Active) : recovery'[c].status \in Terminal
  BY <1>1, <1>2, EndedRows
<1>4. ServerTypeOK' /\ OnePaired'
  BY <1>1, <1>3 DEF ServerInv, ServerTypeOK, OnePaired
<1>5. \A c \in Command : recovery[c].status \in Active => c \in Of(r, Active)
  BY <1>1 DEF ServerInv, ActiveInForce, OnePaired, Of
<1>6. ActiveInForce'
  <2>1. \A c \in Command : recovery'[c].status \notin Active
    BY <1>3, <1>5 DEF Active, Terminal, Reported, Continues
  <2> QED BY <2>1 DEF ActiveInForce
<1> QED BY <1>3, <1>4, <1>6, OrderKept DEF ServerInv

LEMMA WatchStep ==
  ASSUME ServerInv, WatchFixedRecoveryCommands
  PROVE  ServerInv'
<1>1. UNCHANGED <<runner, fresh, workload>> /\ Ended(Overdue)
  BY DEF WatchFixedRecoveryCommands, Ended
<1>2. \A c \in Overdue : c \in Command /\ recovery[c].status \in Active
  BY DEF Overdue
<1>3. recovery' \in [Command -> RecoveryRow] /\ Continues /\ AllGrounded'
  BY <1>1, <1>2, EndedRows
<1> QED
  BY <1>1, <1>3, OrderKept, ForceKept DEF ServerInv, ServerTypeOK, OnePaired

-----------------------------------------------------------------------------
(* All steps. *)

LEMMA ServerInitInv == ServerInit => ServerInv
<1> SUFFICES ASSUME ServerInit PROVE ServerInv
  OBVIOUS
<1>1. \A c \in Command :
        /\ recovery[c] = NoRow("absent")
        /\ NoRow("absent") \in RecoveryRow /\ Grounded(NoRow("absent"))
        /\ recovery[c].status = "absent"
  BY InstanceAssumption DEF ServerInit, NoRow, RecoveryRow, Grounded, Reported
<1>2. ServerTypeOK
  BY <1>1, InstanceAssumption DEF ServerInit, ServerTypeOK
<1>3. AllGrounded
  BY <1>1 DEF AllGrounded
<1>4. \A c \in Command : recovery[c].status \notin Active
  BY <1>1 DEF Active
<1> QED
  BY <1>1, <1>2, <1>3, <1>4
  DEF ServerInit, ServerInv, OnePaired, ActiveInForce, ActiveIsLatest,
      CreatedInOrder

\* A heartbeat carries no result or the result of a claimed command.
Carriable(result) ==
  \E c \in Command, code \in ResultCode, found \in Instance :
    result = NoResult \/ result = Result(c, c, code, found)

LEMMA RunnerSteps ==
  ASSUME NEW r \in Runner, RunnerStep(r)
  PROVE  \/ PairRunner(r)
         \/ \E report \in Instance : \E result :
              Carriable(result) /\ RecordHeartbeat(r, report, result)
<1>1. CASE PairRunner(r)
  BY <1>1
<1>2. ASSUME NEW report \in Instance, RecordHeartbeat(r, report, NoResult)
      PROVE  Carriable(NoResult)
  <2>1. 1 \in Command /\ "restart_failed" \in ResultCode
    BY MaxCommandsAssumption DEF Command, ResultCode
  <2> QED BY <2>1, InstanceAssumption DEF Carriable
<1>3. ASSUME NEW report \in Instance, NEW c \in Command, NEW code \in ResultCode,
             NEW found \in Instance,
             RecordHeartbeat(r, report, Result(c, c, code, found))
      PROVE  Carriable(Result(c, c, code, found))
  BY DEF Carriable
<1> QED BY <1>1, <1>2, <1>3 DEF RunnerStep

LEMMA ServerNextInv == ServerInv /\ [ServerNext]_serverVars => ServerInv'
<1> SUFFICES ASSUME ServerInv, [ServerNext]_serverVars
             PROVE  ServerInv'
  OBVIOUS
<1>1. CASE OwnerStep
  BY <1>1, RegisterStep, RequestStep, RevokeStep, DecideStep DEF OwnerStep
<1>2. CASE ServerClock
  BY <1>2, TimeStep
<1>3. CASE WatchFixedRecoveryCommands
  BY <1>3, WatchStep
<1>4. ASSUME NEW r \in Runner, RunnerStep(r)
      PROVE  ServerInv'
  BY <1>4, RunnerSteps, PairStep, HeartbeatStep DEF Carriable
<1>5. CASE UNCHANGED serverVars
  BY <1>5 DEF serverVars, ServerInv, ServerTypeOK, OnePaired, ActiveInForce,
     ActiveIsLatest, CreatedInOrder, AllGrounded, Grounded
<1> QED BY <1>1, <1>2, <1>3, <1>4, <1>5 DEF ServerNext

\* TerminalIsFinal, of one step.
TerminalStays ==
  \A c \in Command :
    recovery[c].status \in Terminal =>
      recovery'[c] = recovery[c] \/ recovery'[c].status = "trimmed"

LEMMA NextKeepsTerminal ==
  ServerInv /\ [ServerNext]_serverVars => TerminalStays
<1> SUFFICES ASSUME ServerInv, [ServerNext]_serverVars,
                    NEW d \in Command, recovery[d].status \in Terminal
             PROVE  recovery'[d] = recovery[d] \/ recovery'[d].status = "trimmed"
  BY DEF TerminalStays
<1>1. /\ recovery[d].status \notin Active
      /\ recovery[d].status # "absent"
  BY DEF Active, Terminal, Reported
<1> USE DEF ServerInv, ServerTypeOK
<1>2. CASE OwnerStep
  <2>1. ASSUME NEW r \in Runner, RegisterFixedWorkload(r)
        PROVE  recovery'[d] = recovery[d]
    BY <2>1 DEF RegisterFixedWorkload
  <2>2. ASSUME NEW r \in Runner, RequestFixedRecovery(r)
        PROVE  recovery'[d] = recovery[d] \/ recovery'[d].status = "trimmed"
    BY <1>1, <2>2 DEF RequestFixedRecovery, NextCommand, NoRow
  <2>3. ASSUME NEW r \in Runner, Revoke(r)
        PROVE  recovery'[d] = recovery[d]
    BY <1>1, <2>3 DEF Revoke, Of
  <2>4. ASSUME NEW c \in Command, NEW decision \in {"approved", "rejected"},
               DecideFixedRecovery(c, decision)
        PROVE  recovery'[d] = recovery[d]
    <3>1. c # d
      BY <1>1, <2>4 DEF DecideFixedRecovery, Active
    <3> QED BY <2>4, <3>1 DEF DecideFixedRecovery, Move
  <2> QED BY <1>2, <2>1, <2>2, <2>3, <2>4 DEF OwnerStep
<1>3. CASE ServerClock
  BY <1>1, <1>3 DEF ServerClock, GoesStale, DeadlinePasses
<1>4. CASE WatchFixedRecoveryCommands
  BY <1>1, <1>4 DEF WatchFixedRecoveryCommands, Overdue
<1>5. ASSUME NEW r \in Runner, RunnerStep(r)
      PROVE  recovery'[d] = recovery[d]
  <2>1. CASE PairRunner(r)
    BY <2>1 DEF PairRunner
  <2>2. ASSUME NEW report \in Instance, NEW result, Carriable(result),
               RecordHeartbeat(r, report, result)
        PROVE  recovery'[d] = recovery[d]
    <3>1. recovery[d].status \notin {"approved", "claimed"}
      BY <1>1 DEF Active
    <3> QED BY <2>2, <3>1, HeartbeatRows DEF Carriable
  <2> QED BY <1>5, <2>1, <2>2, RunnerSteps
<1>6. CASE UNCHANGED serverVars
  BY <1>6 DEF serverVars
<1> QED BY <1>2, <1>3, <1>4, <1>5, <1>6 DEF ServerNext

-----------------------------------------------------------------------------
(* The theorems. *)

\* The inductive invariant holds in every reachable state.
THEOREM ServerSound == ServerSpec => []ServerInv
<1> QED BY ServerInitInv, ServerNextInv, PTL DEF ServerSpec

\* Every row of the four tables stays in its type.
THEOREM ServerTypes == ServerSpec => []ServerTypeOK
<1>1. ServerInv => ServerTypeOK
  BY DEF ServerInv
<1> QED BY <1>1, ServerSound, PTL

\* An owner has one runner in force, and at most one unfinished command, which
\* is that runner's, though requestFixedRecovery looks at one row only.
THEOREM OneUnfinishedCommand == ServerSpec => []OneActive
<1>1. ServerInv => OneActive
  <2> SUFFICES ASSUME ServerInv PROVE OneActive
    OBVIOUS
  <2>1. \A c, d \in Command :
          recovery[c].status \in Active /\ recovery[d].status \in Active
            => c <= d /\ d <= c
    <3> SUFFICES ASSUME NEW c \in Command, NEW d \in Command,
                        recovery[c].status \in Active,
                        recovery[d].status \in Active
                 PROVE  c <= d /\ d <= c
      OBVIOUS
    <3>1. recovery[c].runner = recovery[d].runner
      BY DEF ServerInv, ActiveInForce, OnePaired
    <3> QED BY <3>1 DEF ServerInv, ActiveIsLatest, Exists
  <2>2. \A c, d \in Command : c <= d /\ d <= c => c = d
    BY DEF Command
  <2> QED BY <2>1, <2>2 DEF ServerInv, OneActive, OnePaired, ActiveInForce
<1> QED BY <1>1, ServerSound, PTL

\* Nothing is handed out without approval, and no recordHeartbeat stores a
\* success whose evidence is missing or is the failed instance itself.
THEOREM OutcomesGrounded == ServerSpec => []OutcomeHasGrounds
<1>1. ServerInv => OutcomeHasGrounds
  BY DEF ServerInv, AllGrounded, Grounded, OutcomeHasGrounds
<1> QED BY <1>1, ServerSound, PTL

\* No mutation rewrites a command that has ended.
THEOREM EndedCommandsStay == ServerSpec => TerminalIsFinal
<1>1. ServerInv /\ [ServerNext]_serverVars =>
        [\A c \in Command :
           recovery[c].status \in Terminal =>
             recovery'[c] = recovery[c] \/ recovery'[c].status = "trimmed"]_serverVars
  BY NextKeepsTerminal DEF TerminalStays
<1> QED BY <1>1, ServerSound, PTL DEF ServerSpec, TerminalIsFinal

=============================================================================
