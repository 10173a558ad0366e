----------------------- MODULE ConnectedRecoveryProofs -----------------------
(***************************************************************************)
(* Server, network and agent together, for every number of runners,        *)
(* commands, instances and delayed heartbeats.                             *)
(*                                                                         *)
(* Each part keeps what was proved of it alone: the composition is a       *)
(* behaviour of ConnectedServer and one of HostAgent.  The second is not   *)
(* obvious, for HostAgent assumes that no order comes after its result was *)
(* acknowledged.  What is said of the two together needs one idea: a       *)
(* result is "backed" wherever it is found, in the journal, in a heartbeat *)
(* on its way or in a row of the server, by the one execution it stands    *)
(* for.                                                                    *)
(***************************************************************************)
EXTENDS ConnectedRecovery, ConnectedServerProofs, HostAgentProofs

-----------------------------------------------------------------------------
(* The inductive invariant. *)

HostOK ==
  /\ config \in Runner \union {NoRunner} /\ identity \in Runner \union {NoRunner}
  /\ agent.at # "off" => identity \in Runner

\* What the agent may carry, and what a heartbeat is.
Results ==
  [command : Command \union {NoCommand}, nonce : Command \union {NoCommand},
   code : ResultCode \union {NoCode}, instance : Instance]

Heartbeats ==
  [runner : Runner, report : Instance, result : Results, awaited : BOOLEAN]

MailOK ==
  /\ mail \subseteq Heartbeats
  /\ \A m \in mail :
       m.awaited => agent.at = "waiting" /\ agent.sent = m.result.command
  /\ \A m, n \in mail : m.awaited /\ n.awaited => m = n

\* Instances are numbered as they come up, so that nobody knows a later one.
InstancesOK ==
  /\ service.answering \in {NoInstance, service.started}
  /\ \A r \in Runner : workload[r].lastHealthy <= service.started
  /\ \A c \in Command : recovery[c].before <= service.started
  /\ \A m \in mail : m.report <= service.started

\* A result stands for the only execution of its command, which is over; it
\* names no instance older than the failure; and no row of the journal says
\* otherwise.
Backed(x) ==
  /\ x.nonce = x.command /\ x.code \in ResultCode
  /\ executions[x.command] = 1 /\ agent.command # x.command
  /\ x.instance # NoInstance => x.instance >= recovery[x.command].before
  /\ \A i \in DOMAIN journal :
       journal[i].command = x.command =>
         journal[i].code = x.code /\ journal[i].instance = x.instance

JournalBacked ==
  \A i \in DOMAIN journal :
    /\ journal[i].nonce = journal[i].command
    /\ journal[i].code # NoCode => Backed(journal[i])

MailBacked ==
  \A m \in mail :
    m.result # NoResult => m.result.command \in Command /\ Backed(m.result)

Told(c) == Result(c, c, recovery[c].code, recovery[c].after)

ReportBacked ==
  \A c \in Command : recovery[c].status \in Reported => Backed(Told(c))

\* The server handed out whatever the agent knows of.
GivenOut == Reported \union {"claimed", "execution_unknown", "trimmed"}

Met(c) == executions[c] > 0 \/ Journaled(c) \/ c \in settled \/ agent.command = c

OrdersOK ==
  \A c \in Command :
    /\ Met(c) => recovery[c].status \in GivenOut
    /\ c \in settled => recovery[c].status # "claimed"

\* The order in work, and the instance that was found for it.
WorkOK ==
  /\ agent.nonce = agent.command
  /\ agent.at \in {"off", "check", "waiting"} => agent.command = NoCommand
  /\ agent.found # NoInstance =>
       agent.command \in Command /\ agent.found >= recovery[agent.command].before

ConnectedInv ==
  /\ ServerInv /\ AgentInv /\ HostOK /\ MailOK /\ InstancesOK
  /\ JournalBacked /\ MailBacked /\ ReportBacked /\ OrdersOK /\ WorkOK

-----------------------------------------------------------------------------
(* What a step of the server does to a row. *)

\* Without a heartbeat, and by one.
QuietMoves ==
  ({"absent"} \X {"pending_approval"}) \union
  ({"pending_approval"} \X {"approved", "rejected", "expired"}) \union
  {<<"approved", "expired">>, <<"claimed", "execution_unknown">>} \union
  (Terminal \X {"trimmed"})

ServedMoves ==
  ({"approved"} \X {"claimed", "expired", "not_needed"}) \union
  ({"claimed"} \X Reported)

RowMoves(c, moves) ==
  /\ \/ /\ recovery'[c].status = recovery[c].status
        /\ recovery[c].status \in Reported => recovery'[c] = recovery[c]
     \/ <<recovery[c].status, recovery'[c].status>> \in moves
  /\ recovery[c].status # "absent" =>
       recovery'[c].before \in {recovery[c].before, NoInstance}

\* The instances a server knows of are up.
Known(k) ==
  /\ \A r \in Runner : workload[r].lastHealthy <= k
  /\ \A c \in Command : recovery[c].before <= k

LEMMA QuietRows ==
  ASSUME ServerInv, NEW k \in Nat, Known(k),
         \/ OwnerStep \/ ServerClock \/ WatchFixedRecoveryCommands
         \/ \E r \in Runner : PairRunner(r)
  PROVE  (\A c \in Command : RowMoves(c, QuietMoves)) /\ Known(k)'
<1> USE DEF ServerInv, ServerTypeOK
<1>1. CASE UNCHANGED recovery /\ UNCHANGED workload
  BY <1>1 DEF RowMoves, Known
<1>2. ASSUME NEW r \in Runner, RegisterFixedWorkload(r)
      PROVE  UNCHANGED recovery /\ Known(k)'
  BY <1>2 DEF RegisterFixedWorkload, Known
<1>3. ASSUME NEW r \in Runner, RequestFixedRecovery(r)
      PROVE  (\A c \in Command : RowMoves(c, QuietMoves)) /\ Known(k)'
  <2>1. PICK x \in Command :
          /\ NextCommand(x)
          /\ recovery' = [d \in Command |->
               IF d = x THEN [NoRow("pending_approval") EXCEPT
                                !.runner = r, !.before = workload[r].lastHealthy]
               ELSE IF d \in Trimmed(r) THEN NoRow("trimmed")
               ELSE recovery[d]]
    BY <1>3 DEF RequestFixedRecovery
  <2>2. /\ recovery'[x].status = "pending_approval"
        /\ recovery'[x].before = workload[r].lastHealthy
        /\ recovery[x].status = "absent"
    BY <2>1 DEF NoRow, NextCommand
  <2>3. ASSUME NEW c \in Command, c # x
        PROVE  \/ recovery'[c] = recovery[c]
               \/ /\ recovery[c].status \in Terminal
                  /\ recovery'[c].status = "trimmed"
                  /\ recovery'[c].before = NoInstance
    BY <2>1, <2>3 DEF NoRow, Trimmed, Of
  <2>4. \A c \in Command : RowMoves(c, QuietMoves)
    BY <2>2, <2>3 DEF RowMoves, QuietMoves
  <2>5. UNCHANGED workload
    BY <1>3 DEF RequestFixedRecovery
  <2>6. ASSUME NEW c \in Command
        PROVE  recovery'[c].before <= k
    <3>1. CASE c = x
      BY <2>2, <3>1 DEF Known
    <3>2. CASE c # x
      BY <2>3, <3>2 DEF Known, NoInstance
    <3> QED BY <3>1, <3>2
  <2> QED BY <2>4, <2>5, <2>6 DEF Known
<1>4. ASSUME NEW c \in Command, NEW d \in {"approved", "rejected"},
             DecideFixedRecovery(c, d)
      PROVE  (\A x \in Command : RowMoves(x, QuietMoves)) /\ Known(k)'
  <2>1. /\ \A x \in Command : x # c => recovery'[x] = recovery[x]
        /\ recovery[c].status = "pending_approval"
        /\ recovery'[c].status \in {"approved", "rejected", "expired"}
        /\ recovery'[c].before = recovery[c].before
        /\ UNCHANGED workload
    BY <1>4 DEF DecideFixedRecovery, Move, RecoveryRow
  <2> QED BY <2>1 DEF RowMoves, QuietMoves, Known
<1>5. ASSUME NEW c \in Command, DeadlinePasses(c)
      PROVE  (\A x \in Command : RowMoves(x, QuietMoves)) /\ Known(k)'
  <2>1. /\ \A x \in Command : x # c => recovery'[x] = recovery[x]
        /\ recovery[c].status \in Active
        /\ recovery'[c].status = recovery[c].status
        /\ recovery'[c].before = recovery[c].before
        /\ UNCHANGED workload
    BY <1>5 DEF DeadlinePasses, RecoveryRow
  <2> QED BY <2>1 DEF RowMoves, Known, Active, Reported
<1>6. ASSUME NEW ends, Ended(ends), UNCHANGED workload,
             \A c \in ends : c \in Command /\ recovery[c].status \in Active
      PROVE  (\A c \in Command : RowMoves(c, QuietMoves)) /\ Known(k)'
  <2>1. \A c \in Command :
          \/ recovery'[c] = recovery[c]
          \/ /\ recovery[c].status \in Active
             /\ recovery'[c].status =
                  IF recovery[c].status = "claimed" THEN "execution_unknown"
                                                    ELSE "expired"
             /\ recovery'[c].before = recovery[c].before
    BY <1>6 DEF Ended, Abandoned, RecoveryRow
  <2> QED BY <1>6, <2>1 DEF RowMoves, QuietMoves, Known, Active
<1>7. ASSUME NEW r \in Runner, Revoke(r)
      PROVE  (\A c \in Command : RowMoves(c, QuietMoves)) /\ Known(k)'
  <2>1. UNCHANGED workload /\ Ended(Of(r, Active))
    BY <1>7 DEF Revoke, Ended
  <2>2. \A c \in Of(r, Active) : c \in Command /\ recovery[c].status \in Active
    BY DEF Of
  <2> QED BY <1>6, <2>1, <2>2
<1>8. CASE WatchFixedRecoveryCommands
  <2>1. UNCHANGED workload /\ Ended(Overdue)
    BY <1>8 DEF WatchFixedRecoveryCommands, Ended
  <2>2. \A c \in Overdue : c \in Command /\ recovery[c].status \in Active
    BY DEF Overdue
  <2> QED BY <1>6, <2>1, <2>2
<1>9. CASE OwnerStep
  <2>1. ASSUME NEW r \in Runner, RegisterFixedWorkload(r)
        PROVE  \A c \in Command : RowMoves(c, QuietMoves)
    BY <1>2, <2>1 DEF RowMoves
  <2> QED BY <1>2, <1>3, <1>4, <1>7, <1>9, <2>1 DEF OwnerStep
<1>10. CASE ServerClock
  BY <1>1, <1>5, <1>10 DEF ServerClock, GoesStale
<1>11. CASE \E r \in Runner : PairRunner(r)
  BY <1>1, <1>11 DEF PairRunner
<1> QED BY <1>8, <1>9, <1>10, <1>11

\* A heartbeat ends the command whose result it carries, hands out an approved
\* one, and touches no other.
LEMMA ServedRows ==
  ASSUME ServerInv, NEW r \in Runner, NEW report \in Instance,
         NEW c \in Command, NEW code \in ResultCode, NEW found \in Instance,
         NEW result, result = NoResult \/ result = Result(c, c, code, found),
         RecordHeartbeat(r, report, result), NEW d \in Command
  PROVE  /\ RowMoves(d, ServedMoves)
         /\ recovery[d].status = "claimed" /\ recovery'[d].status \in Reported =>
              result = Result(d, d, recovery'[d].code, recovery'[d].after)
         /\ recovery'[d].before = recovery[d].before
         /\ d \in HandedOut(r, report, result) =>
              recovery[d].status = "approved" /\ recovery'[d].status = "claimed"
         /\ Disposition(r, result) # "rejected" /\ result.command = d =>
              recovery'[d].status \in Reported \union {"execution_unknown"}
<1>1. recovery[d] \in RecoveryRow
  BY DEF ServerInv, ServerTypeOK
<1>2. recovery'[d] = IF d \in Candidates(r, result) THEN Served(r, d, report)
                     ELSE AfterResult(r, result)[d]
  BY DEF RecordHeartbeat
<1>3. NoResult.command \notin Command
  BY DEF NoResult, Result, Command, NoCommand
<1>4. d \in Candidates(r, result) => recovery[d].status = "approved"
  BY DEF Candidates, Of
<1>5. Disposition(r, result) # "rejected" /\ result.command = d =>
        \/ Disposition(r, result) = "accepted" /\ recovery[d].status = "claimed"
        \/ /\ Disposition(r, result) # "accepted"
           /\ recovery[d].status \in Reported \union {"execution_unknown"}
  <2>1. d # NoCommand
    BY DEF Command, NoCommand
  <2> QED BY <2>1 DEF Disposition, Reported
<1>6. Disposition(r, result) = "accepted" =>
        /\ result = Result(c, c, code, found) /\ result.command = c
        /\ recovery[c].status = "claimed"
  BY DEF Disposition, NoResult, Result
<1>7. CASE d \in Candidates(r, result)
  <2>1. /\ recovery'[d].status =
             IF Claimable(r, d, report) THEN "claimed"
             ELSE IF recovery[d].late THEN "expired" ELSE "not_needed"
        /\ recovery'[d].before = recovery[d].before
    BY <1>1, <1>2, <1>7 DEF Served, RecoveryRow
  <2>2. /\ recovery[d].status = "approved"
        /\ ~(Disposition(r, result) # "rejected" /\ result.command = d)
    BY <1>4, <1>5, <1>7 DEF Reported
  <2> QED BY <2>1, <2>2 DEF RowMoves, ServedMoves, HandedOut
<1>8. CASE /\ d \notin Candidates(r, result)
           /\ Disposition(r, result) = "accepted" /\ d = c
  <2>1. recovery'[d] = Finished(result)
    BY <1>2, <1>6, <1>8 DEF AfterResult, ServerInv, ServerTypeOK
  <2>2. /\ recovery'[d].status \in Reported
        /\ recovery'[d].code = code /\ recovery'[d].after = found
        /\ recovery'[d].before = recovery[d].before
    BY <1>1, <1>6, <1>8, <2>1 DEF Finished, RecoveryRow, Result, Reported
  <2> QED
    BY <1>6, <1>8, <2>2 DEF RowMoves, ServedMoves, HandedOut, Reported
<1>9. CASE /\ d \notin Candidates(r, result)
           /\ ~(Disposition(r, result) = "accepted" /\ d = c)
  <2>1. recovery'[d] = recovery[d]
    BY <1>2, <1>6, <1>9 DEF AfterResult, ServerInv, ServerTypeOK
  <2>2. ~(Disposition(r, result) = "accepted" /\ result.command = d)
    BY <1>6, <1>9
  <2> QED
    BY <1>5, <1>9, <2>1, <2>2 DEF RowMoves, HandedOut, Reported
<1> QED BY <1>7, <1>8, <1>9

LEMMA ServedKnown ==
  ASSUME ServerInv, NEW k \in Nat, Known(k), NEW r \in Runner,
         NEW report \in Instance, report <= k, NEW result,
         RecordHeartbeat(r, report, result),
         \A d \in Command : recovery'[d].before = recovery[d].before
  PROVE  Known(k)'
<1>1. \A s \in Runner : \/ workload'[s].lastHealthy = workload[s].lastHealthy
                        \/ workload'[s].lastHealthy = report
  BY DEF RecordHeartbeat, ServerInv, ServerTypeOK
<1> QED BY <1>1 DEF Known

-----------------------------------------------------------------------------
(* What a step does to the results, wherever they are. *)

SameResult(x, y) ==
  /\ x.command = y.command /\ x.nonce = y.nonce
  /\ x.code = y.code /\ x.instance = y.instance

\* The server does not go back on an order, nor raise what it compares with.
Onward ==
  \A c \in Command :
    recovery[c].status \in GivenOut =>
      /\ recovery'[c].status \in GivenOut
      /\ recovery[c].status # "claimed" => recovery'[c].status # "claimed"
      /\ recovery'[c].before \in {recovery[c].before, NoInstance}

\* A row of the journal was there before, or is of the order in work: its
\* claim, or its result, with which the work ends.
RowFlows(row) ==
  \/ \E j \in DOMAIN journal : SameResult(row, journal[j])
  \/ /\ agent.command \in Command
     /\ row.command = agent.command /\ row.nonce = agent.command
     /\ row.code # NoCode =>
          /\ row.code \in ResultCode
          /\ executions'[row.command] = 1 /\ agent'.command # row.command
          /\ row.instance # NoInstance =>
               row.instance >= recovery'[row.command].before

JournalFlows == \A i \in DOMAIN journal' : RowFlows(journal'[i])

\* The agent works on the order in hand, or takes one that was just handed out.
WorkFlows ==
  /\ \A c \in Command : executions'[c] # executions[c] => c = agent.command
  /\ agent'.command \in {agent.command, NoCommand}
       \/ /\ agent'.command \in Command
          /\ recovery[agent'.command].status = "approved"
          /\ recovery'[agent'.command].status = "claimed"
  /\ settled' # settled =>
       \A c \in settled' \ settled : recovery'[c].status \in GivenOut \ {"claimed"}

\* A heartbeat carries what another did, or what is in the journal.
MailFlows ==
  \A m \in mail' :
    \/ m.result = NoResult
    \/ \E n \in mail : m.result = n.result
    \/ \E i \in DOMAIN journal :
         journal[i].code # NoCode /\ SameResult(m.result, journal[i])

\* The server is told by a heartbeat.
ReportFlows ==
  \A c \in Command :
    recovery'[c].status \in Reported =>
      \/ recovery[c].status \in Reported /\ recovery'[c] = recovery[c]
      \/ \E m \in mail :
           m.result = Result(c, c, recovery'[c].code, recovery'[c].after)

Flows == Onward /\ JournalFlows /\ WorkFlows /\ MailFlows /\ ReportFlows

LEMMA MetIsGivenOut ==
  ASSUME ConnectedInv, NEW c \in Command, Met(c)
  PROVE  recovery[c].status \in GivenOut /\ recovery[c].status # "approved"
BY DEF ConnectedInv, OrdersOK, GivenOut, Reported

LEMMA BackedIsMet ==
  ASSUME NEW x, Backed(x)
  PROVE  Met(x.command)
<1>1. executions[x.command] = 1
  BY DEF Backed
<1> QED BY <1>1 DEF Met

\* What backs a result stays.
LEMMA BackedStays ==
  ASSUME ConnectedInv, Onward, JournalFlows, WorkFlows,
         NEW x, x.command \in Command, x.instance \in Instance, Backed(x)
  PROVE  Backed(x)'
<1>1. recovery[x.command].status \in GivenOut \ {"approved"}
  BY BackedIsMet, MetIsGivenOut
<1>2. agent.command # x.command /\ executions'[x.command] = 1
  BY DEF Backed, WorkFlows
<1>3. agent'.command # x.command
  <2>1. x.command # NoCommand
    BY CommandsAreNumbers
  <2> QED BY <1>1, <1>2, <2>1 DEF WorkFlows
<1>4. x.instance # NoInstance => x.instance >= recovery'[x.command].before
  <2>1. recovery'[x.command].before \in {recovery[x.command].before, NoInstance}
    BY <1>1 DEF Onward
  <2>2. x.instance >= NoInstance
    BY InstancesAgree, InstancesAssumption DEF NoInstance
  <2> QED BY <2>1, <2>2 DEF Backed
<1>5. ASSUME NEW i \in DOMAIN journal', journal'[i].command = x.command
      PROVE  journal'[i].code = x.code /\ journal'[i].instance = x.instance
  <2>1. PICK j \in DOMAIN journal : SameResult(journal'[i], journal[j])
    BY <1>2, <1>5 DEF JournalFlows, RowFlows
  <2> QED BY <1>5, <2>1 DEF Backed, SameResult
<1> QED BY <1>2, <1>3, <1>4, <1>5 DEF Backed

LEMMA SameBacking ==
  ASSUME NEW x, NEW y, SameResult(x, y)
  PROVE  Backed(x) <=> Backed(y)
BY DEF SameResult, Backed

LEMMA JournalTyped ==
  ASSUME ConnectedInv, NEW i \in DOMAIN journal
  PROVE  /\ journal[i] \in Rows
         /\ journal[i].command \in Command /\ journal[i].instance \in Instance
<1>1. journal \in Seq(Rows)
  BY DEF ConnectedInv, AgentInv, AgentTypeOK
<1>2. journal[i] \in Rows
  BY <1>1, LenProperties, ElementOfSeq
<1> QED BY <1>2, InstancesAgree DEF Rows

-----------------------------------------------------------------------------
(* What flows like that is backed. *)

LEMMA MailStaysBacked ==
  ASSUME ConnectedInv, Flows
  PROVE  MailBacked'
<1> SUFFICES ASSUME NEW m \in mail', m.result # NoResult
             PROVE  m.result.command \in Command /\ Backed(m.result)'
  BY DEF MailBacked
<1>1. ConnectedInv /\ Onward /\ JournalFlows /\ WorkFlows
  BY DEF Flows
<1>2. CASE \E n \in mail : m.result = n.result
  <2>1. PICK n \in mail : m.result = n.result
    BY <1>2
  <2>2. n.result.command \in Command /\ Backed(n.result)
    BY <2>1 DEF ConnectedInv, MailBacked
  <2>3. n.result.instance \in Instance
    <3>1. n \in Heartbeats
      BY DEF ConnectedInv, MailOK
    <3> QED BY <3>1 DEF Heartbeats, Results
  <2>4. Backed(m.result)'
    BY <1>1, <2>1, <2>2, <2>3, BackedStays
  <2> QED BY <2>1, <2>2, <2>4
<1>3. CASE \E i \in DOMAIN journal :
             journal[i].code # NoCode /\ SameResult(m.result, journal[i])
  <2>1. PICK i \in DOMAIN journal :
          journal[i].code # NoCode /\ SameResult(m.result, journal[i])
    BY <1>3
  <2>2. Backed(journal[i])
    BY <2>1 DEF ConnectedInv, JournalBacked
  <2>3. Backed(m.result)
    BY <2>1, <2>2, SameBacking
  <2>4. m.result.command \in Command /\ m.result.instance \in Instance
    BY <2>1, JournalTyped DEF SameResult
  <2> QED BY <1>1, <2>3, <2>4, BackedStays
<1> QED BY <1>2, <1>3 DEF Flows, MailFlows

LEMMA ReportsStayBacked ==
  ASSUME ConnectedInv, ServerTypeOK', Flows
  PROVE  ReportBacked'
<1> SUFFICES ASSUME NEW c \in Command, recovery'[c].status \in Reported
             PROVE  Backed(Told(c))'
  BY DEF ReportBacked
<1>1. ConnectedInv /\ Onward /\ JournalFlows /\ WorkFlows
  BY DEF Flows
<1>2. PICK x : x = Result(c, c, recovery'[c].code, recovery'[c].after)
  OBVIOUS
<1>3. x.command \in Command /\ x.instance \in Instance
  BY <1>2 DEF Result, ServerTypeOK, RecoveryRow
<1>4. Backed(x)
  <2>1. CASE recovery[c].status \in Reported /\ recovery'[c] = recovery[c]
    BY <1>2, <2>1 DEF ConnectedInv, ReportBacked, Told
  <2>2. CASE \E m \in mail : m.result = x
    <3>1. PICK m \in mail : m.result = x
      BY <2>2
    <3>2. x # NoResult
      BY <1>2, CommandsAreNumbers DEF NoResult, Result
    <3> QED BY <3>1, <3>2 DEF ConnectedInv, MailBacked
  <2> QED BY <1>2, <2>1, <2>2 DEF Flows, ReportFlows
<1>5. Backed(x)'
  BY <1>1, <1>3, <1>4, BackedStays
<1>6. x = Told(c)'
  BY <1>2 DEF Told
<1> QED BY <1>5, <1>6 DEF Backed

LEMMA JournalStaysBacked ==
  ASSUME ConnectedInv, OneEntryEach', Flows
  PROVE  JournalBacked'
<1> SUFFICES ASSUME NEW i \in DOMAIN journal'
             PROVE  /\ journal'[i].nonce = journal'[i].command
                    /\ journal'[i].code # NoCode => Backed(journal[i])'
  BY DEF JournalBacked
<1>1. ConnectedInv /\ Onward /\ JournalFlows /\ WorkFlows
  BY DEF Flows
<1>2. CASE \E j \in DOMAIN journal : SameResult(journal'[i], journal[j])
  <2>1. PICK j \in DOMAIN journal : SameResult(journal'[i], journal[j])
    BY <1>2
  <2>2. PICK x : x = journal[j]
    OBVIOUS
  <2>3. /\ x.command \in Command /\ x.instance \in Instance
        /\ x.nonce = x.command
        /\ x.code # NoCode => Backed(x)
    BY <2>2, JournalTyped DEF ConnectedInv, JournalBacked
  <2>4. x.code # NoCode => Backed(x)'
    BY <1>1, <2>3, BackedStays
  <2>5. journal'[i].nonce = journal'[i].command
    BY <2>1, <2>2, <2>3 DEF SameResult
  <2>6. journal'[i].code # NoCode => Backed(journal[i])'
    BY <2>1, <2>2, <2>4 DEF SameResult, Backed
  <2> QED BY <2>5, <2>6
<1>3. CASE /\ agent.command \in Command
           /\ journal'[i].command = agent.command
           /\ journal'[i].nonce = agent.command
           /\ journal'[i].code # NoCode =>
                /\ journal'[i].code \in ResultCode
                /\ executions'[journal'[i].command] = 1
                /\ agent'.command # journal'[i].command
                /\ journal'[i].instance # NoInstance =>
                     journal'[i].instance >= recovery'[journal'[i].command].before
  BY <1>3 DEF Backed, OneEntryEach
<1> QED BY <1>1, <1>2, <1>3 DEF JournalFlows, RowFlows

LEMMA OrdersStay ==
  ASSUME ConnectedInv, Flows
  PROVE  OrdersOK'
<1> SUFFICES ASSUME NEW c \in Command
             PROVE  /\ Met(c)' => recovery'[c].status \in GivenOut
                    /\ c \in settled' => recovery'[c].status # "claimed"
  BY DEF OrdersOK
<1>1. Met(c) => recovery'[c].status \in GivenOut
  BY MetIsGivenOut DEF Flows, Onward
<1>2. c \in settled =>
        recovery'[c].status \in GivenOut \ {"claimed"}
  <2>1. c \in settled => recovery[c].status \in GivenOut \ {"claimed"}
    BY DEF ConnectedInv, OrdersOK, Met
  <2> QED BY <2>1 DEF Flows, Onward
<1>3. c \in settled' => recovery'[c].status \in GivenOut \ {"claimed"}
  BY <1>2 DEF Flows, WorkFlows
<1>4. executions'[c] > 0 => Met(c)
  BY DEF Flows, WorkFlows, Met
<1>5. Journaled(c)' => Met(c)
  <2> SUFFICES ASSUME NEW i \in DOMAIN journal', journal'[i].command = c
               PROVE  Met(c)
    BY DEF Journaled
  <2>1. \/ \E j \in DOMAIN journal : SameResult(journal'[i], journal[j])
        \/ journal'[i].command = agent.command
    BY DEF Flows, JournalFlows, RowFlows
  <2> QED BY <2>1 DEF SameResult, Met, Journaled
<1>6. agent'.command = c => recovery'[c].status \in GivenOut
  <2>1. c # NoCommand
    BY CommandsAreNumbers
  <2> QED BY <1>1, <2>1 DEF Flows, WorkFlows, Met, GivenOut
<1> QED BY <1>1, <1>3, <1>4, <1>5, <1>6 DEF Met

LEMMA FlowsKeep ==
  ASSUME ConnectedInv, Flows, ServerInv', AgentInv'
  PROVE  JournalBacked' /\ MailBacked' /\ ReportBacked' /\ OrdersOK'
<1>1. ServerTypeOK' /\ OneEntryEach'
  BY DEF ServerInv, AgentInv, JournalInv
<1> QED BY <1>1, JournalStaysBacked, MailStaysBacked, ReportsStayBacked, OrdersStay

-----------------------------------------------------------------------------
(* The agent and the route. *)

LEMMA ServerRests ==
  ASSUME UNCHANGED recovery
  PROVE  Onward /\ ReportFlows
BY DEF Onward, ReportFlows

LEMMA JournalRests ==
  ASSUME UNCHANGED journal
  PROVE  JournalFlows
BY DEF JournalFlows, RowFlows, SameResult

LEMMA ClaimedRows ==
  ASSUME AgentInv, ClaimCommand, NEW i \in DOMAIN journal'
  PROVE  \/ \E j \in DOMAIN journal : journal'[i] = journal[j]
         \/ journal'[i] = Entry(agent.command, agent.nonce)
<1>1. CASE UNCHANGED journal
  BY <1>1
<1>2. CASE ~UNCHANGED journal
  <2>1. /\ ~Full /\ agent.at = "claim"
        /\ journal' = Append(WithRoom, Entry(agent.command, agent.nonce))
    BY <1>2 DEF ClaimCommand
  <2>2. /\ WithRoom \in Seq(Rows)
        /\ \A k \in DOMAIN WithRoom :
             \E j \in DOMAIN journal : WithRoom[k] = journal[j]
    BY <2>1, RoomMade DEF AgentInv, AgentTypeOK
  <2>3. Entry(agent.command, agent.nonce) \in Rows
    <3>1. agent.command \in Command /\ agent.nonce \in Command
      BY <2>1 DEF AgentInv, PlaceInv, Ordered
    <3> QED BY <3>1, InstancesAssumption DEF Entry, Rows, NoInstance
  <2>4. Len(WithRoom) \in Nat /\ DOMAIN WithRoom = 1..Len(WithRoom)
    BY <2>2, LenProperties
  <2>5. /\ journal' \in Seq(Rows) /\ Len(journal') = Len(WithRoom) + 1
        /\ \A k \in 1..Len(WithRoom) : journal'[k] = WithRoom[k]
        /\ journal'[Len(WithRoom) + 1] = Entry(agent.command, agent.nonce)
    BY <2>1, <2>2, <2>3, AppendProperties
  <2>6. DOMAIN journal' = 1..Len(WithRoom) + 1
    BY <2>5, LenProperties
  <2>7. i \in 1..Len(WithRoom) \/ i = Len(WithRoom) + 1
    BY <2>4, <2>6
  <2> QED BY <2>2, <2>4, <2>5, <2>7
<1> QED BY <1>1, <1>2

\* The result that ends the work names no instance older than the failure.
LEMMA StoredRows ==
  ASSUME ConnectedInv, StoreResult, UNCHANGED recovery
  PROVE  JournalFlows
<1>1. /\ agent.command \in Command /\ executions[agent.command] = 1
      /\ agent.code \in ResultCode /\ UNCHANGED executions
  BY DEF ConnectedInv, AgentInv, PlaceInv, InWork, StoreResult
<1>2. agent'.command = NoCommand
  BY DEF StoreResult, Done, Process
<1>3. agent.found # NoInstance => agent.found >= recovery[agent.command].before
  BY DEF ConnectedInv, WorkOK
<1>4. ASSUME NEW i \in DOMAIN journal'
      PROVE  RowFlows(journal'[i])
  <2>1. i \in DOMAIN journal
    BY DEF StoreResult
  <2>2. CASE journal[i].command = agent.command
    <3>1. journal'[i] = [journal[i] EXCEPT !.code = agent.code,
                                           !.instance = agent.found]
      BY <2>1, <2>2 DEF StoreResult
    <3>2. journal[i] \in Rows /\ journal[i].nonce = journal[i].command
      BY <2>1, JournalTyped DEF ConnectedInv, JournalBacked
    <3>3. /\ journal'[i].command = agent.command
          /\ journal'[i].nonce = agent.command
          /\ journal'[i].code = agent.code
          /\ journal'[i].instance = agent.found
      BY <2>2, <3>1, <3>2 DEF Rows
    <3>4. agent.command # NoCommand
      BY <1>1, CommandsAreNumbers
    <3> QED BY <1>1, <1>2, <1>3, <3>3, <3>4 DEF RowFlows
  <2>3. CASE journal[i].command # agent.command
    <3>1. journal'[i] = journal[i]
      BY <2>1, <2>3 DEF StoreResult
    <3> QED BY <2>1, <3>1 DEF RowFlows, SameResult
  <2> QED BY <2>2, <2>3
<1> QED BY <1>4 DEF JournalFlows

LEMMA AgentFlows ==
  ASSUME ConnectedInv, AgentStep, UNCHANGED recovery
  PROVE  JournalFlows /\ WorkFlows /\ WorkOK'
<1>1. /\ agent \in Processes /\ executions \in [Command -> Nat]
      /\ agent.nonce = agent.command
      /\ agent.at \in {"off", "check", "waiting"} => agent.command = NoCommand
      /\ agent.found # NoInstance =>
           agent.command \in Command /\ agent.found >= recovery[agent.command].before
  BY DEF ConnectedInv, AgentInv, AgentTypeOK, WorkOK
<1>2. CASE ChildComesUp \/ ServiceDies
  <2>1. UNCHANGED <<journal, agent, executions, settled>>
    BY <1>2 DEF ChildComesUp, ServiceDies
  <2> QED BY <1>1, <2>1, JournalRests DEF WorkFlows, WorkOK
<1>3. CASE Start \/ Stop \/ Crash
  <2>1. /\ UNCHANGED <<journal, executions, settled>>
        /\ agent' = Process("check") \/ agent' = Process("off")
    BY <1>3 DEF Start, Stop, Crash
  <2>2. /\ agent'.command = NoCommand /\ agent'.nonce = NoCommand
        /\ agent'.found = NoInstance
    BY <2>1 DEF Process
  <2> QED BY <2>1, <2>2, JournalRests DEF WorkFlows, WorkOK
<1>4. CASE AlreadyClaimed \/ Interrupt \/ WriteFails
  <2>1. /\ UNCHANGED <<journal, executions, settled>>
        /\ agent' = Done \/ agent' = [agent EXCEPT !.at = "stopping"]
    BY <1>4 DEF AlreadyClaimed, Interrupt, WriteFails
  <2>2. CASE agent' = Done
    <3>1. /\ agent'.command = NoCommand /\ agent'.nonce = NoCommand
          /\ agent'.found = NoInstance
      BY <2>2 DEF Done, Process
    <3> QED BY <2>1, <3>1, JournalRests DEF WorkFlows, WorkOK
  <2>3. CASE agent' = [agent EXCEPT !.at = "stopping"]
    <3>1. /\ agent'.command = agent.command /\ agent'.nonce = agent.nonce
          /\ agent'.found = agent.found /\ agent'.at = "stopping"
      BY <1>1, <2>3 DEF Processes
    <3> QED BY <1>1, <2>1, <3>1, JournalRests DEF WorkFlows, WorkOK
  <2> QED BY <2>1, <2>2, <2>3
<1>5. CASE ClaimCommand
  <2>1. /\ UNCHANGED <<executions, settled>> /\ agent.at = "claim"
        /\ \E at \in {"stopping", "restart"} : agent' = [agent EXCEPT !.at = at]
    BY <1>5 DEF ClaimCommand
  <2>2. /\ agent'.command = agent.command /\ agent'.nonce = agent.nonce
        /\ agent'.found = agent.found /\ agent'.at \in {"stopping", "restart"}
    BY <1>1, <2>1 DEF Processes
  <2>3. agent.command \in Command
    BY <2>1 DEF ConnectedInv, AgentInv, PlaceInv, Ordered
  <2>4. ASSUME NEW i \in DOMAIN journal'
        PROVE  RowFlows(journal'[i])
    <3>1. CASE \E j \in DOMAIN journal : journal'[i] = journal[j]
      BY <3>1 DEF RowFlows, SameResult
    <3>2. CASE journal'[i] = Entry(agent.command, agent.nonce)
      BY <1>1, <2>3, <3>2 DEF RowFlows, Entry
    <3> QED BY <1>5, <3>1, <3>2, ClaimedRows DEF ConnectedInv
  <2> QED BY <1>1, <2>1, <2>2, <2>4 DEF JournalFlows, WorkFlows, WorkOK
<1>6. CASE Restart
  <2>1. /\ UNCHANGED <<journal, settled>> /\ agent.at = "restart"
        /\ executions' = [executions EXCEPT ![agent.command] = @ + 1]
    BY <1>6 DEF Restart
  <2>2. /\ agent'.command = agent.command /\ agent'.nonce = agent.nonce
        /\ agent'.found = agent.found /\ agent'.at = "verify"
    BY <1>1, <1>6 DEF Restart, Processes
  <2>3. \A c \in Command : c # agent.command => executions'[c] = executions[c]
    BY <1>1, <2>1
  <2> QED BY <1>1, <2>1, <2>2, <2>3, JournalRests DEF WorkFlows, WorkOK
<1>7. CASE VerifyFresh \/ VerifyInVain
  <2>1. UNCHANGED <<journal, executions, settled>> /\ agent.at = "verify"
    BY <1>7 DEF VerifyFresh, VerifyInVain
  <2>2. agent.command \in Command
    BY <2>1 DEF ConnectedInv, AgentInv, PlaceInv, InWork
  <2>3. /\ agent'.command = agent.command /\ agent'.nonce = agent.nonce
        /\ agent'.at = "store"
        /\ agent'.found = agent.found \/ agent'.found = service.started
    <3>1. CASE VerifyInVain
      BY <1>1, <3>1 DEF VerifyInVain, Processes
    <3>2. CASE VerifyFresh
      <4>1. service.answering = service.started
        BY <3>2 DEF VerifyFresh, ConnectedInv, InstancesOK
      <4> QED BY <1>1, <3>2, <4>1 DEF VerifyFresh, Processes
    <3> QED BY <1>7, <3>1, <3>2
  <2>4. service.started >= recovery[agent.command].before
    <3>1. service.started \in Nat /\ recovery[agent.command].before \in Nat
      BY <2>2, InstancesAgree
      DEF ConnectedInv, AgentInv, AgentTypeOK, Services, ServerInv,
          ServerTypeOK, RecoveryRow
    <3> QED BY <2>2, <3>1 DEF ConnectedInv, InstancesOK
  <2> QED BY <1>1, <2>1, <2>2, <2>3, <2>4, JournalRests DEF WorkFlows, WorkOK
<1>8. CASE StoreResult
  <2>1. UNCHANGED <<executions, settled>> /\ agent' = Done
    BY <1>8 DEF StoreResult
  <2>2. /\ agent'.command = NoCommand /\ agent'.nonce = NoCommand
        /\ agent'.found = NoInstance
    BY <2>1 DEF Done, Process
  <2> QED BY <1>8, <2>1, <2>2, StoredRows DEF WorkFlows, WorkOK
<1> QED BY <1>2, <1>3, <1>4, <1>5, <1>6, <1>7, <1>8 DEF AgentStep

\* A heartbeat the agent no longer waits for stays as it is, or is lost.
LEMMA DelayedMail ==
  ASSUME ConnectedInv,
         mail' = Delayed \/ mail' = {[m EXCEPT !.awaited = FALSE] : m \in mail},
         NEW m \in mail'
  PROVE  /\ m \in Heartbeats /\ ~m.awaited
         /\ \E n \in mail : m.result = n.result /\ m.report = n.report
<1>1. mail \subseteq Heartbeats
  BY DEF ConnectedInv, MailOK
<1>2. CASE mail' = Delayed
  BY <1>1, <1>2 DEF Delayed, Heartbeats
<1>3. CASE mail' = {[n EXCEPT !.awaited = FALSE] : n \in mail}
  <2>1. PICK n \in mail : m = [n EXCEPT !.awaited = FALSE]
    BY <1>3
  <2> QED BY <1>1, <2>1 DEF Heartbeats
<1> QED BY <1>2, <1>3

\* Instances only come up.
LEMMA InstancesStay ==
  ASSUME service'.answering \in {NoInstance, service'.started},
         service'.started \in Nat, ServerTypeOK',
         NEW k \in Nat, k <= service'.started, Known(k)',
         \A m \in mail' : m \in Heartbeats /\ m.report <= k
  PROVE  InstancesOK'
<1>1. \A r \in Runner : workload'[r].lastHealthy \in Nat
  BY InstancesAgree DEF ServerTypeOK
<1>2. \A c \in Command : recovery'[c].before \in Nat
  BY InstancesAgree DEF ServerTypeOK, RecoveryRow
<1>3. \A m \in mail' : m.report \in Nat
  BY InstancesAgree DEF Heartbeats
<1> QED BY <1>1, <1>2, <1>3 DEF InstancesOK, Known

LEMMA ServiceMoves ==
  ASSUME ConnectedInv, AgentStep
  PROVE  /\ service'.answering \in {NoInstance, service'.started}
         /\ service.started <= service'.started
<1>1. /\ service \in Services /\ service.answering \in {NoInstance, service.started}
      /\ service.started \in Nat
  BY DEF ConnectedInv, AgentInv, AgentTypeOK, InstancesOK, Services
<1>2. /\ ChildStopped.answering \in {NoInstance, service.started}
      /\ ChildStopped.started = service.started
      /\ ChildStopped \in Services
  BY <1>1, StoppedTyped DEF ChildStopped, Services
<1>3. CASE UNCHANGED service
  BY <1>1, <1>3
<1>4. CASE ChildComesUp \/ ServiceDies \/ Start \/ Crash
  <2>1. CASE ChildComesUp
    BY <1>1, <2>1 DEF ChildComesUp, Services
  <2>2. CASE Start
    BY <1>1, <2>2 DEF Start, Services
  <2>3. CASE Crash
    BY <1>1, <2>3 DEF Crash, Services
  <2>4. CASE ServiceDies
    <3> DEFINE child == IF service.child = "up" THEN "none" ELSE service.child
    <3>1. service' = [service EXCEPT !.answering = NoInstance, !.child = child]
      BY <2>4 DEF ServiceDies
    <3> HIDE DEF child
    <3> QED BY <1>1, <3>1 DEF Services
  <2> QED BY <1>4, <2>1, <2>2, <2>3, <2>4
<1>5. CASE Restart \/ Stop
  <2>1. \/ service' = ChildStopped
        \/ service' = [ChildStopped EXCEPT !.child = "starting"]
    BY <1>5 DEF Restart, Stop
  <2> QED BY <1>1, <1>2, <2>1 DEF Services
<1>6. CASE AlreadyClaimed \/ ClaimCommand \/ VerifyFresh \/ VerifyInVain
           \/ StoreResult \/ Interrupt \/ WriteFails
  BY <1>3, <1>6 DEF AlreadyClaimed, ClaimCommand, VerifyFresh, VerifyInVain,
     StoreResult, Interrupt, WriteFails
<1> QED BY <1>4, <1>5, <1>6 DEF AgentStep

LEMMA NowKnown ==
  ASSUME ConnectedInv
  PROVE  \E k \in Nat :
           /\ k = service.started /\ Known(k)
           /\ \A m \in mail : m.report <= k
<1>1. service.started \in Nat
  BY DEF ConnectedInv, AgentInv, AgentTypeOK, Services
<1> QED BY <1>1 DEF ConnectedInv, InstancesOK, Known

LEMMA AgentAloneKeeps ==
  ASSUME ConnectedInv, AgentAlone, ServerInv', AgentInv'
  PROVE  ConnectedInv'
<1>1. UNCHANGED recovery /\ UNCHANGED workload /\ UNCHANGED config /\ AgentStep
  BY DEF AgentAlone, serverVars
<1>2. ASSUME NEW m \in mail'
      PROVE  /\ m \in Heartbeats
             /\ \E n \in mail : m.result = n.result /\ m.report = n.report
             /\ m.awaited => UNCHANGED agent /\ m \in mail
  <2>1. CASE agent.at = "waiting" /\ agent'.at # "waiting"
    <3>1. mail' = Delayed \/ mail' = {[n EXCEPT !.awaited = FALSE] : n \in mail}
      BY <2>1 DEF AgentAlone
    <3> QED BY <3>1, DelayedMail
  <2>2. CASE ~(agent.at = "waiting" /\ agent'.at # "waiting")
    <3>1. m \in mail /\ m \in Heartbeats
      BY <2>2 DEF AgentAlone, ConnectedInv, MailOK
    <3>2. m.awaited => agent.at = "waiting" /\ agent'.at = "waiting"
      BY <2>2, <3>1 DEF ConnectedInv, MailOK
    <3>3. agent.at = "waiting" /\ agent'.at = "waiting" => UNCHANGED agent
      BY <1>1 DEF AgentStep, ChildComesUp, ServiceDies, Start, AlreadyClaimed,
         ClaimCommand, Restart, VerifyFresh, VerifyInVain, StoreResult,
         Interrupt, WriteFails, Stop, Crash, Process, ConnectedInv, AgentInv,
         AgentTypeOK, Processes
    <3> QED BY <3>1, <3>2, <3>3
  <2> QED BY <2>1, <2>2
<1>3. MailFlows
  BY <1>2 DEF MailFlows
<1>4. JournalFlows /\ WorkFlows /\ WorkOK'
  BY <1>1, AgentFlows
<1>5. Flows
  BY <1>1, <1>3, <1>4, ServerRests DEF Flows
<1>6. JournalBacked' /\ MailBacked' /\ ReportBacked' /\ OrdersOK'
  BY <1>5, FlowsKeep
<1>7. MailOK'
  BY <1>2 DEF ConnectedInv, MailOK
<1>8. HostOK'
  <2>1. CASE agent.at = "off" /\ agent'.at # "off"
    BY <1>1, <2>1 DEF AgentAlone, ConnectedInv, HostOK
  <2>2. CASE ~(agent.at = "off" /\ agent'.at # "off")
    BY <1>1, <2>2 DEF AgentAlone, ConnectedInv, HostOK
  <2> QED BY <2>1, <2>2
<1>9. InstancesOK'
  <2>1. service'.started \in Nat /\ ServerTypeOK'
    BY DEF AgentInv, AgentTypeOK, Services, ServerInv
  <2>2. PICK k \in Nat :
          /\ k = service.started /\ Known(k)
          /\ \A m \in mail : m.report <= k
    BY NowKnown
  <2>3. Known(k)'
    BY <1>1, <2>2 DEF Known
  <2>4. \A m \in mail' : m \in Heartbeats /\ m.report <= k
    BY <1>2, <2>2
  <2>5. /\ service'.answering \in {NoInstance, service'.started}
        /\ k <= service'.started
    BY <1>1, <2>2, ServiceMoves
  <2> QED BY <2>1, <2>3, <2>4, <2>5, InstancesStay
<1> QED BY <1>4, <1>6, <1>7, <1>8, <1>9 DEF ConnectedInv

\* The heartbeat carries the one result that waits, as the journal has it.
LEMMA PendingIsJournaled ==
  ASSUME ConnectedInv
  PROVE  /\ PendingResult \in Results /\ PendingResult.command = Pending
         /\ \/ PendingResult = NoResult
            \/ \E i \in DOMAIN journal :
                 journal[i].code # NoCode /\ SameResult(PendingResult, journal[i])
<1>1. CASE Pending = NoCommand
  <2>1. PendingResult = NoResult
    BY <1>1 DEF PendingResult
  <2>2. NoResult \in Results /\ NoResult.command = NoCommand
    BY InstanceAssumption DEF NoResult, Result, Results
  <2> QED BY <1>1, <2>1, <2>2
<1>2. CASE Pending # NoCommand
  <2>1. PICK i \in DOMAIN journal :
          journal[i].command = Pending /\ Undelivered(journal[i])
    BY <1>2, PendingIsAll DEF ConnectedInv, AgentInv, AgentTypeOK, JournalInv
  <2>2. \A e \in ToSet(journal) : e.command = Pending <=> e = journal[i]
    BY <2>1 DEF ToSet, ConnectedInv, AgentInv, JournalInv, OneEntryEach
  <2>3. journal[i] \in ToSet(journal)
    BY DEF ToSet
  <2>4. (CHOOSE e \in ToSet(journal) : e.command = Pending) = journal[i]
    BY <2>2, <2>3
  <2>5. PendingResult = Result(journal[i].command, journal[i].nonce,
                               journal[i].code, journal[i].instance)
    BY <1>2, <2>4 DEF PendingResult
  <2>6. journal[i] \in Rows /\ journal[i].instance \in Instance
    BY JournalTyped
  <2>7. PendingResult \in Results
    BY <2>5, <2>6 DEF Result, Results, Rows
  <2>8. journal[i].code # NoCode /\ SameResult(PendingResult, journal[i])
    BY <2>1, <2>5 DEF Undelivered, SameResult, Result
  <2> QED BY <2>1, <2>7, <2>8 DEF SameResult
<1> QED BY <1>1, <1>2

LEMMA SendKeeps ==
  ASSUME ConnectedInv, Send, AgentInv'
  PROVE  ConnectedInv'
<1>1. PICK report \in Seen :
        /\ SendHeartbeat(report)
        /\ mail' = mail \union {Heartbeat(report, PendingResult)}
  BY DEF Send
<1>2. UNCHANGED <<recovery, workload, serverVars, config, identity>>
  BY DEF Send, serverVars, hostVars
<1>3. UNCHANGED <<journal, service, executions, settled>> /\ agent.at = "check"
  BY <1>1 DEF SendHeartbeat
<1>4. /\ agent'.at = "waiting" /\ agent'.sent = Pending
      /\ agent'.command = agent.command /\ agent'.nonce = agent.nonce
      /\ agent'.found = agent.found
  BY <1>1 DEF SendHeartbeat, ConnectedInv, AgentInv, AgentTypeOK, Processes
<1>5. PICK letter : letter = Heartbeat(report, PendingResult)
  OBVIOUS
<1>6. PICK k \in Nat :
        /\ k = service.started /\ Known(k)
        /\ \A m \in mail : m.report <= k
  BY NowKnown
<1>7. service.answering \in {NoInstance, k} /\ NoInstance <= k
  BY <1>6 DEF ConnectedInv, InstancesOK, NoInstance
<1>8. /\ letter \in Heartbeats /\ letter.report <= k
      /\ letter.result = PendingResult
  <2>1. identity \in Runner
    BY <1>3 DEF ConnectedInv, HostOK
  <2>2. report \in Instance /\ report <= k
    BY <1>1, <1>7, InstancesAgree, InstanceAssumption
    DEF Seen, ConnectedInv, AgentInv, AgentTypeOK, Services
  <2> QED
    BY <1>5, <2>1, <2>2, PendingIsJournaled DEF Heartbeat, Heartbeats
<1>9. MailFlows
  BY <1>1, <1>5, <1>8, PendingIsJournaled DEF MailFlows
<1>10. WorkFlows /\ WorkOK'
  BY <1>2, <1>3, <1>4 DEF WorkFlows, ConnectedInv, WorkOK
<1>11. ServerInv'
  BY <1>2 DEF ConnectedInv, serverVars, ServerInv, ServerTypeOK, OnePaired,
     ActiveInForce, ActiveIsLatest, CreatedInOrder, AllGrounded, Grounded
<1>12. JournalBacked' /\ MailBacked' /\ ReportBacked' /\ OrdersOK'
  BY <1>2, <1>3, <1>9, <1>10, <1>11, ServerRests, JournalRests, FlowsKeep DEF Flows
<1>13. MailOK'
  <2>1. \A m \in mail : ~m.awaited
    BY <1>3 DEF ConnectedInv, MailOK
  <2>2. letter.result.command = Pending
    BY <1>8, PendingIsJournaled
  <2> QED
    BY <1>1, <1>4, <1>5, <1>8, <2>1, <2>2 DEF ConnectedInv, MailOK
<1>14. HostOK'
  BY <1>2, <1>3 DEF ConnectedInv, HostOK
<1>15. InstancesOK'
  <2>1. Known(k)' /\ ServerTypeOK'
    BY <1>2, <1>6, <1>11 DEF Known, ServerInv
  <2>2. \A m \in mail' : m \in Heartbeats /\ m.report <= k
    BY <1>1, <1>5, <1>6, <1>8 DEF ConnectedInv, MailOK
  <2> QED BY <1>3, <1>6, <1>7, <2>1, <2>2, InstancesStay
<1> QED BY <1>10, <1>11, <1>12, <1>13, <1>14, <1>15 DEF ConnectedInv

LEMMA UnansweredKeeps ==
  ASSUME ConnectedInv, NotServed \/ GiveUp, AgentInv'
  PROVE  ConnectedInv'
<1>1. /\ Retry
      /\ mail' = Delayed \/ mail' = {[m EXCEPT !.awaited = FALSE] : m \in mail}
      /\ UNCHANGED <<recovery, workload, serverVars, config, identity>>
  BY DEF NotServed, GiveUp, serverVars, hostVars
<1>2. /\ UNCHANGED <<journal, service, executions, settled>>
      /\ agent.at = "waiting" /\ agent'.at = "check"
      /\ agent'.command = agent.command /\ agent'.nonce = agent.nonce
      /\ agent'.found = agent.found
  BY <1>1 DEF Retry, ConnectedInv, AgentInv, AgentTypeOK, Processes
<1>3. \A m \in mail' :
        /\ m \in Heartbeats /\ ~m.awaited
        /\ \E n \in mail : m.result = n.result /\ m.report = n.report
  BY <1>1, DelayedMail
<1>4. MailFlows /\ MailOK'
  BY <1>3 DEF MailFlows, MailOK
<1>5. WorkFlows /\ WorkOK'
  BY <1>1, <1>2 DEF WorkFlows, ConnectedInv, WorkOK
<1>6. ServerInv'
  BY <1>1 DEF ConnectedInv, serverVars, ServerInv, ServerTypeOK, OnePaired,
     ActiveInForce, ActiveIsLatest, CreatedInOrder, AllGrounded, Grounded
<1>7. JournalBacked' /\ MailBacked' /\ ReportBacked' /\ OrdersOK'
  BY <1>1, <1>2, <1>4, <1>5, <1>6, ServerRests, JournalRests, FlowsKeep DEF Flows
<1>8. HostOK'
  BY <1>1, <1>2 DEF ConnectedInv, HostOK
<1>9. InstancesOK'
  <2>1. PICK k \in Nat :
          /\ k = service.started /\ Known(k)
          /\ \A m \in mail : m.report <= k
    BY NowKnown
  <2>2. Known(k)' /\ ServerTypeOK'
    BY <1>1, <1>6, <2>1 DEF Known, ServerInv
  <2>3. service'.answering \in {NoInstance, service'.started}
    BY <1>2 DEF ConnectedInv, InstancesOK
  <2>4. \A m \in mail' : m \in Heartbeats /\ m.report <= k
    BY <1>3, <2>1
  <2> QED BY <1>2, <2>1, <2>2, <2>3, <2>4, InstancesStay
<1> QED BY <1>4, <1>5, <1>6, <1>7, <1>8, <1>9 DEF ConnectedInv

-----------------------------------------------------------------------------
(* The server by itself, and pairing. *)

LEMMA QuietFlows ==
  ASSUME \A c \in Command : RowMoves(c, QuietMoves)
  PROVE  Onward /\ ReportFlows
<1>1. ASSUME NEW c \in Command, recovery[c].status \in GivenOut
      PROVE  /\ recovery'[c].status \in GivenOut
             /\ recovery[c].status # "claimed" => recovery'[c].status # "claimed"
             /\ recovery'[c].before \in {recovery[c].before, NoInstance}
  BY <1>1 DEF RowMoves, QuietMoves, GivenOut, Reported
<1>2. ASSUME NEW c \in Command, recovery'[c].status \in Reported
      PROVE  recovery[c].status \in Reported /\ recovery'[c] = recovery[c]
  BY <1>2 DEF RowMoves, QuietMoves, Reported
<1> QED BY <1>1, <1>2 DEF Onward, ReportFlows

LEMMA QuietKeeps ==
  ASSUME ConnectedInv, ServerInv', UNCHANGED <<agentVars, identity, mail>>,
         config' \in Runner \union {NoRunner},
         \/ OwnerStep \/ ServerClock \/ WatchFixedRecoveryCommands
         \/ \E r \in Runner : PairRunner(r)
  PROVE  ConnectedInv'
<1>1. UNCHANGED <<journal, agent, service, executions, settled>>
  BY DEF agentVars
<1>2. PICK k \in Nat :
        /\ k = service.started /\ Known(k)
        /\ \A m \in mail : m.report <= k
  BY NowKnown
<1>3. (\A c \in Command : RowMoves(c, QuietMoves)) /\ Known(k)'
  BY <1>2, QuietRows DEF ConnectedInv
<1>4. Onward /\ ReportFlows
  BY <1>3, QuietFlows
<1>5. JournalFlows /\ WorkFlows /\ MailFlows
  BY <1>1, JournalRests DEF WorkFlows, MailFlows
<1>6. AgentInv'
  BY AgentNextInv DEF ConnectedInv
<1>7. JournalBacked' /\ MailBacked' /\ ReportBacked' /\ OrdersOK'
  BY <1>4, <1>5, <1>6, FlowsKeep DEF Flows
<1>8. MailOK' /\ HostOK'
  BY <1>1 DEF ConnectedInv, MailOK, HostOK
<1>9. WorkOK'
  <2>1. agent.command \in Command =>
          recovery'[agent.command].before \in {recovery[agent.command].before,
                                               NoInstance}
    <3>1. agent.command \in Command => recovery[agent.command].status \in GivenOut
      BY MetIsGivenOut DEF Met
    <3> QED BY <1>4, <3>1 DEF Onward
  <2>2. agent.found >= NoInstance
    BY DEF ConnectedInv, AgentInv, AgentTypeOK, Processes, NoInstance
  <2> QED BY <1>1, <2>1, <2>2 DEF ConnectedInv, WorkOK
<1>10. InstancesOK'
  <2>1. service'.answering \in {NoInstance, service'.started}
    BY <1>1 DEF ConnectedInv, InstancesOK
  <2>2. \A m \in mail' : m \in Heartbeats /\ m.report <= k
    BY <1>2 DEF ConnectedInv, MailOK
  <2>3. ServerTypeOK'
    BY DEF ServerInv
  <2> QED BY <1>1, <1>2, <1>3, <2>1, <2>2, <2>3, InstancesStay
<1> QED BY <1>6, <1>7, <1>8, <1>9, <1>10 DEF ConnectedInv

-----------------------------------------------------------------------------
(* A heartbeat served. *)

\* It carries what the server alone allows for.
LEMMA MailCarries ==
  ASSUME ConnectedInv, NEW m \in mail
  PROVE  /\ m.runner \in Runner /\ m.report \in Instance
         /\ \E c \in Command, code \in ResultCode, found \in Instance :
              m.result = NoResult \/ m.result = Result(c, c, code, found)
<1>1. m \in Heartbeats
  BY DEF ConnectedInv, MailOK
<1>2. CASE m.result = NoResult
  <2>1. 1 \in Command /\ "restart_failed" \in ResultCode
    BY MaxCommandsAssumption DEF Command, ResultCode
  <2> QED BY <1>1, <1>2, <2>1, InstanceAssumption DEF Heartbeats
<1>3. CASE m.result # NoResult
  <2>1. /\ m.result.command \in Command /\ m.result.nonce = m.result.command
        /\ m.result.code \in ResultCode
    BY <1>3 DEF ConnectedInv, MailBacked, Backed
  <2>2. m.result \in Results /\ m.result.instance \in Instance
    BY <1>1 DEF Heartbeats, Results
  <2>3. m.result = Result(m.result.command, m.result.command, m.result.code,
                          m.result.instance)
    BY <2>1, <2>2 DEF Results, Result
  <2> QED BY <1>1, <2>1, <2>2, <2>3 DEF Heartbeats
<1> QED BY <1>2, <1>3

LEMMA MailServed ==
  ASSUME ConnectedInv, NEW m \in mail,
         RecordHeartbeat(m.runner, m.report, m.result), NEW d \in Command
  PROVE  /\ RowMoves(d, ServedMoves)
         /\ recovery[d].status = "claimed" /\ recovery'[d].status \in Reported =>
              m.result = Result(d, d, recovery'[d].code, recovery'[d].after)
         /\ recovery'[d].before = recovery[d].before
         /\ d \in HandedOut(m.runner, m.report, m.result) =>
              recovery[d].status = "approved" /\ recovery'[d].status = "claimed"
         /\ Disposition(m.runner, m.result) # "rejected" /\ m.result.command = d =>
              recovery'[d].status \in Reported \union {"execution_unknown"}
<1>1. m.runner \in Runner /\ m.report \in Instance
  BY MailCarries
<1>2. PICK c \in Command, code \in ResultCode, found \in Instance :
        m.result = NoResult \/ m.result = Result(c, c, code, found)
  BY MailCarries
<1>3. ServerInv
  BY DEF ConnectedInv
<1> QED BY <1>1, <1>2, <1>3, ServedRows

LEMMA ServedFlows ==
  ASSUME ConnectedInv, NEW m \in mail,
         RecordHeartbeat(m.runner, m.report, m.result)
  PROVE  Onward /\ ReportFlows
<1>1. ASSUME NEW c \in Command, recovery[c].status \in GivenOut
      PROVE  /\ recovery'[c].status \in GivenOut
             /\ recovery[c].status # "claimed" => recovery'[c].status # "claimed"
             /\ recovery'[c].before \in {recovery[c].before, NoInstance}
  <2>1. RowMoves(c, ServedMoves)
    BY MailServed
  <2> QED BY <1>1, <2>1 DEF RowMoves, ServedMoves, GivenOut, Reported
<1>2. ASSUME NEW c \in Command, recovery'[c].status \in Reported
      PROVE  \/ recovery[c].status \in Reported /\ recovery'[c] = recovery[c]
             \/ m.result = Result(c, c, recovery'[c].code, recovery'[c].after)
  <2>1. RowMoves(c, ServedMoves)
    BY MailServed
  <2>2. \/ recovery[c].status \in Reported /\ recovery'[c] = recovery[c]
        \/ recovery[c].status = "claimed"
    BY <1>2, <2>1 DEF RowMoves, ServedMoves, Reported
  <2> QED BY <1>2, <2>2, MailServed
<1> QED BY <1>1, <1>2 DEF Onward, ReportFlows

\* What the agent does with the answer, or without one.
LEMMA AnswerFlows ==
  ASSUME ConnectedInv, NEW c,
         \/ c = NoCommand
         \/ /\ c \in Command /\ recovery[c].status = "approved"
            /\ recovery'[c].status = "claimed",
         agent.sent # NoCommand =>
           recovery'[agent.sent].status \in Reported \union {"execution_unknown"},
         Accepted(c, c)
  PROVE  JournalFlows /\ WorkFlows /\ WorkOK'
<1>1. /\ journal' = Marked /\ UNCHANGED executions /\ agent.at = "waiting"
      /\ settled' = settled \union ({agent.sent} \ {NoCommand})
  BY DEF Accepted
<1>2. /\ agent'.command = c /\ agent'.nonce = c
      /\ agent'.found = agent.found
      /\ agent'.at = IF c = NoCommand THEN "check" ELSE "claim"
  BY DEF Accepted, ConnectedInv, AgentInv, AgentTypeOK, Processes
<1>3. agent.found = NoInstance
  <2>1. agent.command = NoCommand
    BY <1>1 DEF ConnectedInv, WorkOK
  <2> QED BY <2>1, CommandsAreNumbers DEF ConnectedInv, WorkOK
<1>4. JournalFlows
  <2>1. AgentTypeOK
    BY DEF ConnectedInv, AgentInv
  <2> QED BY <1>1, <2>1, MarkedRows DEF JournalFlows, RowFlows, SameResult
<1>5. WorkFlows
  BY <1>1, <1>2 DEF WorkFlows, GivenOut, Reported
<1>6. WorkOK'
  <2>1. agent'.at \in {"off", "check", "waiting"} => agent'.command = NoCommand
    BY <1>2
  <2>2. agent'.nonce = agent'.command /\ ~(agent'.found # NoInstance)
    BY <1>2, <1>3
  <2> QED BY <2>1, <2>2 DEF WorkOK
<1> QED BY <1>4, <1>5, <1>6

LEMMA SilenceFlows ==
  ASSUME ConnectedInv, Refused \/ Retry \/ UNCHANGED agentVars, Onward
  PROVE  JournalFlows /\ WorkFlows /\ WorkOK'
<1>1. UNCHANGED <<journal, executions, settled>>
  BY DEF Refused, Retry, agentVars
<1>2. /\ agent'.command = agent.command /\ agent'.nonce = agent.nonce
      /\ agent'.found = agent.found
      /\ agent'.at # agent.at => agent.command = NoCommand
  <2>1. /\ agent \in Processes
        /\ agent.at = "waiting" => agent.command = NoCommand
    BY DEF ConnectedInv, AgentInv, AgentTypeOK, WorkOK
  <2>2. CASE Refused \/ Retry
    BY <2>1, <2>2 DEF Refused, Retry, Processes
  <2>3. CASE UNCHANGED agentVars
    BY <2>3 DEF agentVars
  <2> QED BY <2>2, <2>3
<1>3. agent.command \in Command =>
        recovery'[agent.command].before \in {recovery[agent.command].before,
                                             NoInstance}
  <2>1. agent.command \in Command => recovery[agent.command].status \in GivenOut
    BY MetIsGivenOut DEF Met
  <2> QED BY <2>1 DEF Onward
<1>4. agent.found >= NoInstance
  BY DEF ConnectedInv, AgentInv, AgentTypeOK, Processes, NoInstance
<1>5. WorkOK'
  BY <1>2, <1>3, <1>4 DEF ConnectedInv, WorkOK
<1> QED BY <1>1, <1>2, <1>5, JournalRests DEF WorkFlows

LEMMA ServeFlows ==
  ASSUME ConnectedInv, NEW m \in mail, Serve(m),
         NEW k \in Nat, Known(k), \A n \in mail : n.report <= k
  PROVE  /\ Onward /\ ReportFlows /\ Known(k)'
         /\ JournalFlows /\ WorkFlows /\ WorkOK'
<1>1. CASE Unauthorised(m)
  <2>1. UNCHANGED <<recovery, workload>>
    BY <1>1 DEF Unauthorised, serverVars
  <2>2. Refused \/ UNCHANGED agentVars
    BY <1>1 DEF Unauthorised
  <2>3. Onward /\ ReportFlows /\ Known(k)'
    BY <2>1, ServerRests DEF Known
  <2> QED BY <2>2, <2>3, SilenceFlows
<1>2. CASE ~Unauthorised(m)
  <2>1. /\ RecordHeartbeat(m.runner, m.report, m.result)
        /\ IF m.awaited THEN Answered(m) \/ Retry ELSE UNCHANGED agentVars
    BY <1>2 DEF Serve
  <2>2. Onward /\ ReportFlows
    BY <2>1, ServedFlows
  <2>3. Known(k)'
    <3>1. m.runner \in Runner /\ m.report \in Instance /\ m.report <= k
      BY MailCarries
    <3>2. \A d \in Command : recovery'[d].before = recovery[d].before
      BY <2>1, MailServed
    <3>3. ServerInv
      BY DEF ConnectedInv
    <3> QED BY <2>1, <3>1, <3>2, <3>3, ServedKnown
  <2>4. CASE Refused \/ Retry \/ UNCHANGED agentVars
    BY <2>2, <2>3, <2>4, SilenceFlows
  <2>5. CASE ~(Refused \/ Retry \/ UNCHANGED agentVars)
    <3>1. m.awaited /\ Answered(m) /\ Disposition(m.runner, m.result) # "rejected"
      BY <2>1, <2>5 DEF Answered
    <3>2. PICK c :
            /\ Accepted(c, c)
            /\ c = NoCommand \/ c \in HandedOut(m.runner, m.report, m.result)
      BY <2>5, <3>1 DEF Answered
    <3>3. c \in HandedOut(m.runner, m.report, m.result) =>
            /\ c \in Command /\ recovery[c].status = "approved"
            /\ recovery'[c].status = "claimed"
      <4>1. c \in HandedOut(m.runner, m.report, m.result) => c \in Command
        BY DEF HandedOut, Candidates, Of
      <4> QED BY <2>1, <4>1, MailServed
    <3>4. agent.sent # NoCommand =>
            recovery'[agent.sent].status \in Reported \union {"execution_unknown"}
      <4>1. agent.sent = m.result.command
        BY <3>1 DEF ConnectedInv, MailOK
      <4>2. agent.sent \in Command \union {NoCommand}
        BY DEF ConnectedInv, AgentInv, AgentTypeOK, Processes
      <4> QED BY <2>1, <3>1, <4>1, <4>2, MailServed
    <3> QED BY <2>2, <2>3, <3>2, <3>3, <3>4, AnswerFlows
  <2> QED BY <2>4, <2>5
<1> QED BY <1>1, <1>2

LEMMA ServeKeeps ==
  ASSUME ConnectedInv, NEW m \in mail, Serve(m), ServerInv', AgentInv'
  PROVE  ConnectedInv'
<1>1. mail' = mail \ {m} /\ UNCHANGED <<config, identity>>
  BY DEF Serve, hostVars
<1>2. MailFlows
  BY <1>1 DEF MailFlows
<1>3. PICK k \in Nat :
        /\ k = service.started /\ Known(k)
        /\ \A n \in mail : n.report <= k
  BY NowKnown
<1>4. /\ Onward /\ ReportFlows /\ Known(k)'
      /\ JournalFlows /\ WorkFlows /\ WorkOK'
  BY <1>3, ServeFlows
<1>5. JournalBacked' /\ MailBacked' /\ ReportBacked' /\ OrdersOK'
  BY <1>2, <1>4, FlowsKeep DEF Flows
<1>6. UNCHANGED service /\ (m.awaited \/ UNCHANGED agent)
  BY DEF Serve, Unauthorised, Answered, Accepted, Refused, Retry, agentVars
<1>7. MailOK'
  <2>1. CASE m.awaited
    <3>1. \A n \in mail' : ~n.awaited
      BY <1>1, <2>1 DEF ConnectedInv, MailOK
    <3> QED BY <1>1, <3>1 DEF ConnectedInv, MailOK
  <2>2. CASE UNCHANGED agent
    BY <1>1, <2>2 DEF ConnectedInv, MailOK
  <2> QED BY <1>6, <2>1, <2>2
<1>8. HostOK'
  <2>1. agent.at = "off" => UNCHANGED agent
    BY <1>6 DEF ConnectedInv, MailOK
  <2> QED BY <1>1, <2>1 DEF ConnectedInv, HostOK
<1>9. InstancesOK'
  <2>1. service'.answering \in {NoInstance, service'.started}
    BY <1>6 DEF ConnectedInv, InstancesOK
  <2>2. \A n \in mail' : n \in Heartbeats /\ n.report <= k
    BY <1>1, <1>3 DEF ConnectedInv, MailOK
  <2>3. ServerTypeOK'
    BY DEF ServerInv
  <2> QED BY <1>3, <1>4, <1>6, <2>1, <2>2, <2>3, InstancesStay
<1> QED BY <1>4, <1>5, <1>7, <1>8, <1>9 DEF ConnectedInv

-----------------------------------------------------------------------------
(* Every step. *)

\* A step of the whole is a step of the server and one of the agent.
LEMMA ServeIsBoth ==
  ASSUME ConnectedInv, NEW m \in mail, Serve(m)
  PROVE  [ServerNext]_serverVars /\ [AgentNext]_agentVars
<1>1. [ServerNext]_serverVars
  <2>1. CASE Unauthorised(m)
    BY <2>1 DEF Unauthorised
  <2>2. CASE RecordHeartbeat(m.runner, m.report, m.result)
    <3>1. RunnerStep(m.runner)
      BY <2>2, MailCarries DEF RunnerStep
    <3> QED BY <3>1, MailCarries DEF ServerNext
  <2> QED BY <2>1, <2>2 DEF Serve
<1>2. [AgentNext]_agentVars
  <2>1. CASE Refused \/ Retry \/ UNCHANGED agentVars
    BY <2>1 DEF AgentNext
  <2>2. CASE Accepted(NoCommand, NoCommand)
    BY <2>2 DEF AgentNext
  <2>3. ASSUME NEW c \in HandedOut(m.runner, m.report, m.result), Accepted(c, c)
        PROVE  AgentNext
    <3>1. c \in Command /\ recovery[c].status = "approved"
      BY DEF HandedOut, Candidates, Of
    <3>2. c \notin settled
      BY <3>1, MetIsGivenOut DEF Met
    <3> QED BY <2>3, <3>1, <3>2 DEF AgentNext
  <2> QED BY <2>1, <2>2, <2>3 DEF Serve, Unauthorised, Answered
<1> QED BY <1>1, <1>2

LEMMA NextIsBoth ==
  ASSUME ConnectedInv, [ConnectedNext]_connectedVars
  PROVE  [ServerNext]_serverVars /\ [AgentNext]_agentVars
<1>1. CASE ServerAlone
  BY <1>1 DEF ServerAlone, ServerNext
<1>2. CASE AgentAlone
  BY <1>2 DEF AgentAlone, AgentNext
<1>3. CASE \E r \in Runner : Pair(r)
  BY <1>3 DEF Pair, ServerNext, RunnerStep
<1>4. CASE Send \/ NotServed \/ GiveUp
  BY <1>4 DEF Send, NotServed, GiveUp, AgentNext
<1>5. CASE \E m \in mail : Serve(m)
  BY <1>5, ServeIsBoth
<1>6. CASE UNCHANGED connectedVars
  BY <1>6 DEF connectedVars
<1> QED BY <1>1, <1>2, <1>3, <1>4, <1>5, <1>6 DEF ConnectedNext

LEMMA ConnectedInitInv == ConnectedInit => ConnectedInv
<1> SUFFICES ASSUME ConnectedInit PROVE ConnectedInv
  OBVIOUS
<1>1. ServerInv /\ AgentInv
  BY ServerInitInv, AgentInitInv DEF ConnectedInit
<1>2. /\ DOMAIN journal = {} /\ mail = {} /\ settled = {}
      /\ agent.at = "off" /\ agent.command = NoCommand /\ agent.nonce = NoCommand
      /\ agent.found = NoInstance
      /\ \A c \in Command : executions[c] = 0
      /\ service.answering = NoInstance /\ service.started = 0
      /\ config = NoRunner /\ identity = NoRunner
  <2>1. DOMAIN journal = {}
    BY EmptySeq, LenProperties DEF ConnectedInit, AgentInit
  <2> QED BY <2>1 DEF ConnectedInit, AgentInit, Process
<1>3. /\ \A c \in Command :
           recovery[c].status = "absent" /\ recovery[c].before = NoInstance
      /\ \A r \in Runner : workload[r].lastHealthy = NoInstance
  BY DEF ConnectedInit, ServerInit, NoRow
<1>4. HostOK /\ MailOK /\ JournalBacked /\ MailBacked /\ WorkOK
  BY <1>2 DEF HostOK, MailOK, JournalBacked, MailBacked, WorkOK
<1>5. InstancesOK
  BY <1>2, <1>3 DEF InstancesOK, NoInstance
<1>6. ReportBacked
  BY <1>3 DEF ReportBacked, Reported
<1>7. OrdersOK
  <2> SUFFICES ASSUME NEW c \in Command PROVE ~Met(c) /\ c \notin settled
    BY DEF OrdersOK
  <2> QED BY <1>2, CommandsAreNumbers DEF Met, Journaled
<1> QED BY <1>1, <1>4, <1>5, <1>6, <1>7 DEF ConnectedInv

LEMMA ConnectedNextInv ==
  ConnectedInv /\ [ConnectedNext]_connectedVars => ConnectedInv'
<1> SUFFICES ASSUME ConnectedInv, [ConnectedNext]_connectedVars
             PROVE  ConnectedInv'
  OBVIOUS
<1>1. ServerInv' /\ AgentInv'
  BY NextIsBoth, ServerNextInv, AgentNextInv DEF ConnectedInv
<1>2. CASE ServerAlone
  <2>1. config' \in Runner \union {NoRunner}
    BY <1>2 DEF ServerAlone, hostVars, ConnectedInv, HostOK
  <2> QED BY <1>1, <1>2, <2>1, QuietKeeps DEF ServerAlone, hostVars
<1>3. ASSUME NEW r \in Runner, Pair(r)
      PROVE  ConnectedInv'
  <2>1. config' \in Runner \union {NoRunner}
    BY <1>3 DEF Pair, ConnectedInv, HostOK
  <2> QED BY <1>1, <1>3, <2>1, QuietKeeps DEF Pair
<1>4. CASE AgentAlone
  BY <1>1, <1>4, AgentAloneKeeps
<1>5. CASE Send
  BY <1>1, <1>5, SendKeeps
<1>6. CASE NotServed \/ GiveUp
  BY <1>1, <1>6, UnansweredKeeps
<1>7. ASSUME NEW m \in mail, Serve(m)
      PROVE  ConnectedInv'
  BY <1>1, <1>7, ServeKeeps
<1>8. CASE UNCHANGED connectedVars
  BY <1>1, <1>8
  DEF connectedVars, serverVars, agentVars, hostVars, ConnectedInv, HostOK,
      MailOK, InstancesOK, JournalBacked, MailBacked, ReportBacked, Told,
      OrdersOK, Met, Journaled, WorkOK, Backed
<1> QED BY <1>2, <1>3, <1>4, <1>5, <1>6, <1>7, <1>8 DEF ConnectedNext

-----------------------------------------------------------------------------
(* The contract of one command. *)

LEMMA MovesOfServe ==
  ASSUME ConnectedInv, NEW m \in mail, Serve(m), NEW c \in Command
  PROVE  RowMoves(c, ServedMoves)
<1>1. CASE Unauthorised(m)
  BY <1>1 DEF Unauthorised, serverVars, RowMoves
<1>2. CASE RecordHeartbeat(m.runner, m.report, m.result)
  BY <1>2, MailServed
<1> QED BY <1>1, <1>2 DEF Serve

LEMMA MovesOfStep ==
  ASSUME ConnectedInv, ConnectedNext, NEW c \in Command
  PROVE  /\ \/ recovery'[c].status = recovery[c].status
            \/ <<recovery[c].status, recovery'[c].status>>
                 \in QuietMoves \union ServedMoves
         /\ WorkFlows
<1>1. PICK k \in Nat :
        /\ k = service.started /\ Known(k)
        /\ \A m \in mail : m.report <= k
  BY NowKnown
<1>2. ASSUME \/ OwnerStep \/ ServerClock \/ WatchFixedRecoveryCommands
             \/ \E r \in Runner : PairRunner(r)
      PROVE  RowMoves(c, QuietMoves)
  <2>1. ServerInv
    BY DEF ConnectedInv
  <2> QED BY <1>1, <1>2, <2>1, QuietRows
<1>3. CASE ServerAlone \/ \E r \in Runner : Pair(r)
  <2>1. UNCHANGED agentVars
    BY <1>3 DEF ServerAlone, Pair
  <2>2. WorkFlows
    BY <2>1 DEF agentVars, WorkFlows
  <2> QED BY <1>2, <1>3, <2>2 DEF ServerAlone, Pair, RowMoves
<1>4. CASE AgentAlone
  <2>1. AgentStep /\ UNCHANGED recovery
    BY <1>4 DEF AgentAlone, serverVars
  <2> QED BY <2>1, AgentFlows
<1>5. CASE Send \/ NotServed \/ GiveUp
  <2>1. UNCHANGED <<recovery, executions, settled>>
    BY <1>5 DEF Send, NotServed, GiveUp, SendHeartbeat, Retry, serverVars
  <2>2. agent'.command = agent.command
    BY <1>5 DEF Send, NotServed, GiveUp, SendHeartbeat, Retry, ConnectedInv,
       AgentInv, AgentTypeOK, Processes
  <2> QED BY <2>1, <2>2 DEF WorkFlows
<1>6. ASSUME NEW m \in mail, Serve(m)
      PROVE  RowMoves(c, ServedMoves) /\ WorkFlows
  BY <1>1, <1>6, MovesOfServe, ServeFlows
<1> QED BY <1>3, <1>4, <1>5, <1>6 DEF ConnectedNext, RowMoves

\* Only a restart is an execution, of the order in work, and it tells nobody.
LEMMA ExecutionsOfStep ==
  ASSUME ConnectedInv, ConnectedNext
  PROVE  \/ UNCHANGED executions
         \/ /\ executions' = [executions EXCEPT ![agent.command] = 1]
            /\ executions[agent.command] = 0
            /\ agent.command \in Command /\ agent'.command = agent.command
            /\ UNCHANGED recovery
<1>1. CASE AgentAlone /\ Restart
  <2>1. agent.command \in Command /\ executions[agent.command] = 0
    BY <1>1 DEF Restart, ConnectedInv, AgentInv, PlaceInv, InWork
  <2>2. agent'.command = agent.command /\ UNCHANGED recovery
    BY <1>1 DEF AgentAlone, serverVars, Restart, ConnectedInv, AgentInv,
       AgentTypeOK, Processes
  <2> QED BY <1>1, <2>1, <2>2 DEF Restart
<1>2. CASE AgentAlone /\ ~Restart
  BY <1>2 DEF AgentAlone, AgentStep, ChildComesUp, ServiceDies, Start,
     AlreadyClaimed, ClaimCommand, VerifyFresh, VerifyInVain, StoreResult,
     Interrupt, WriteFails, Stop, Crash
<1>3. CASE ServerAlone \/ \E r \in Runner : Pair(r)
  BY <1>3 DEF ServerAlone, Pair, agentVars
<1>4. CASE Send \/ NotServed \/ GiveUp
  BY <1>4 DEF Send, NotServed, GiveUp, SendHeartbeat, Retry
<1>5. CASE \E m \in mail : Serve(m)
  BY <1>5 DEF Serve, Unauthorised, Answered, Accepted, Refused, Retry, agentVars
<1> QED BY <1>1, <1>2, <1>3, <1>4, <1>5 DEF ConnectedNext

\* The command in work is not over for the agent, whatever the server thinks.
LEMMA StageInWork ==
  ASSUME ConnectedInv, NEW c \in Command, agent.command = c
  PROVE  StageOf(c) \in {"ordered", "lost"}
<1>1. recovery[c].status \in GivenOut
  BY MetIsGivenOut DEF Met
<1>2. recovery[c].status \notin Reported
  BY DEF ConnectedInv, ReportBacked, Told, Backed, Result
<1> QED BY <1>1, <1>2 DEF StageOf, GivenOut

\* A reported command was executed.
LEMMA StageReported ==
  ASSUME ConnectedInv, NEW c \in Command, recovery[c].status \in Reported
  PROVE  executions[c] = 1 /\ agent.command # c
BY DEF ConnectedInv, ReportBacked, Told, Backed, Result

StageMoves ==
  {<<"new", "requested">>, <<"requested", "approved">>, <<"requested", "closed">>,
   <<"approved", "closed">>, <<"approved", "ordered">>, <<"ordered", "lost">>,
   <<"reported", "forgotten">>, <<"closed", "forgotten">>, <<"lost", "forgotten">>}

\* The stage of a command moves as the contract has it.
LEMMA StageOfStep ==
  ASSUME ConnectedInv, ConnectedInv', ConnectedNext, NEW c \in Command
  PROVE  \/ StageOf(c)' = StageOf(c)
         \/ <<StageOf(c), StageOf(c)'>> \in StageMoves
         \/ /\ StageOf(c) = "ordered" /\ StageOf(c)' = "reported"
            /\ executions'[c] = 1
<1> DEFINE s == recovery[c].status
           t == recovery'[c].status
<1>1. s \in Active \union Terminal \union {"absent", "trimmed"}
  BY DEF ConnectedInv, ServerInv, ServerTypeOK, RecoveryRow
<1>2. s = t \/ <<s, t>> \in QuietMoves \union ServedMoves
  BY MovesOfStep
<1>3. agent'.command = c =>
        \/ agent.command = c
        \/ s = "approved" /\ t = "claimed"
  <2>1. c # NoCommand
    BY CommandsAreNumbers
  <2> QED BY <2>1, MovesOfStep DEF WorkFlows
<1>4. /\ agent.command = c => s \in {"claimed", "execution_unknown", "trimmed"}
      /\ agent'.command = c => t \in {"claimed", "execution_unknown", "trimmed"}
  <2>1. agent.command = c => s \in GivenOut /\ s \notin Reported
    BY MetIsGivenOut, StageReported DEF Met
  <2>2. agent'.command = c => t \in GivenOut /\ t \notin Reported
    BY DEF ConnectedInv, OrdersOK, Met, ReportBacked, Told, Backed, Result
  <2> QED BY <2>1, <2>2 DEF GivenOut
<1>5. t \in Reported => executions'[c] = 1
  BY DEF ConnectedInv, ReportBacked, Told, Backed, Result
<1>6. CASE s = t
  <2>1. CASE s # "trimmed"
    BY <1>6, <2>1 DEF StageOf
  <2>2. CASE s = "trimmed"
    BY <1>3, <1>6, <2>2 DEF StageOf, StageMoves, Reported
  <2> QED BY <2>1, <2>2
<1>7. CASE <<s, t>> \in QuietMoves
  BY <1>3, <1>4, <1>7 DEF QuietMoves, StageOf, StageMoves, Terminal, Reported
<1>8. CASE <<s, t>> \in ServedMoves
  BY <1>3, <1>4, <1>5, <1>8 DEF ServedMoves, StageOf, StageMoves, Reported
<1> QED BY <1>2, <1>6, <1>7, <1>8

LEMMA ContractStep ==
  ASSUME ConnectedInv, ConnectedInv', [ConnectedNext]_connectedVars,
         NEW c \in Command
  PROVE  [Contract(c)!Next]_<<StageOf(c), executions[c]>>
<1> USE DEF Contract!Next, Contract!Request, Contract!Approve, Contract!Close,
            Contract!Order, Contract!Restart, Contract!Report, Contract!GiveUp,
            Contract!Forget, Contract!Before, Contract!Over
<1>1. CASE UNCHANGED connectedVars
  BY <1>1 DEF connectedVars, serverVars, agentVars, StageOf
<1>2. CASE ConnectedNext /\ UNCHANGED executions
  BY <1>2, StageOfStep DEF StageMoves
<1>3. CASE ConnectedNext /\ ~UNCHANGED executions
  <2>1. /\ executions' = [executions EXCEPT ![agent.command] = 1]
        /\ executions[agent.command] = 0
        /\ agent.command \in Command /\ agent'.command = agent.command
        /\ UNCHANGED recovery
    BY <1>3, ExecutionsOfStep
  <2>2. executions \in [Command -> Nat]
    BY DEF ConnectedInv, AgentInv, AgentTypeOK
  <2>3. StageOf(c)' = StageOf(c)
    BY <2>1 DEF StageOf
  <2>4. CASE c = agent.command
    <3>1. StageOf(c) \in {"ordered", "lost"}
      BY <2>4, StageInWork
    <3>2. executions[c] = 0 /\ executions'[c] = 1
      BY <2>1, <2>2, <2>4
    <3> QED BY <2>3, <3>1, <3>2
  <2>5. CASE c # agent.command
    <3>1. executions'[c] = executions[c]
      BY <2>1, <2>2, <2>5
    <3> QED BY <2>3, <3>1
  <2> QED BY <2>4, <2>5
<1> QED BY <1>1, <1>2, <1>3

-----------------------------------------------------------------------------
(* The theorems. *)

\* The inductive invariant holds in every reachable state.
THEOREM ConnectedSound == ConnectedSpec => []ConnectedInv
<1> QED BY ConnectedInitInv, ConnectedNextInv, PTL DEF ConnectedSpec

\* The composition is a behaviour of the server alone, so that what is proved of
\* a server whose runners report what they like holds of it with this agent.
THEOREM ServerWithin == ConnectedSpec => ServerSpec
<1>1. ConnectedInit => ServerInit
  BY DEF ConnectedInit
<1>2. ConnectedInv /\ [ConnectedNext]_connectedVars => [ServerNext]_serverVars
  BY NextIsBoth
<1> QED BY <1>1, <1>2, ConnectedSound, PTL DEF ConnectedSpec, ServerSpec

\* The server hands out no command again whose result it acknowledged, which is
\* all the agent relies on.
THEOREM AgentContractKept == ConnectedSpec => AgentContract
<1>1. ConnectedInit => AgentInit
  BY DEF ConnectedInit
<1>2. ConnectedInv /\ [ConnectedNext]_connectedVars => [AgentNext]_agentVars
  BY NextIsBoth
<1> QED BY <1>1, <1>2, ConnectedSound, PTL DEF ConnectedSpec, AgentContract, AgentSpec

\* So no command is executed twice on the machine, whatever the network loses,
\* delays or repeats and whenever the process dies.
THEOREM CommandsRunOnce == ConnectedSpec => []ExecutedOnce
  BY AgentContractKept, AgentExecutesOnce, PTL DEF AgentContract

\* What the owner reads is what happened on the machine, however the heartbeats
\* were lost, repeated and overtaken.
THEOREM ReportsAreTrue == ConnectedSpec => []ReportIsTrue
<1>1. ConnectedInv => ReportIsTrue
  <2> SUFFICES ASSUME ConnectedInv, NEW c \in Command,
                      recovery[c].status \in Reported
               PROVE  /\ executions[c] = 1
                      /\ recovery[c].status = "succeeded" =>
                           recovery[c].after > recovery[c].before
                      /\ \A e \in ToSet(journal) :
                           e.command = c =>
                             /\ e.code = recovery[c].code
                             /\ e.instance = recovery[c].after
    BY DEF ReportIsTrue
  <2>1. Backed(Told(c))
    BY DEF ConnectedInv, ReportBacked
  <2>2. /\ executions[c] = 1
        /\ recovery[c].after # NoInstance => recovery[c].after >= recovery[c].before
        /\ \A i \in DOMAIN journal :
             journal[i].command = c =>
               /\ journal[i].code = recovery[c].code
               /\ journal[i].instance = recovery[c].after
    BY <2>1 DEF Backed, Told, Result
  <2>3. recovery[c].status = "succeeded" =>
          recovery[c].after \notin {NoInstance, recovery[c].before}
    BY DEF ConnectedInv, ServerInv, AllGrounded, Grounded
  <2>4. recovery[c].after \in Nat /\ recovery[c].before \in Nat
    BY InstancesAgree DEF ConnectedInv, ServerInv, ServerTypeOK, RecoveryRow
  <2>5. recovery[c].status = "succeeded" => recovery[c].after > recovery[c].before
    BY <2>2, <2>3, <2>4
  <2> QED BY <2>2, <2>5 DEF ToSet
<1> QED BY <1>1, ConnectedSound, PTL

\* Every command keeps the contract that the owner is promised, for every
\* number of commands, crashes and delayed heartbeats.
THEOREM ContractsKept == ConnectedSpec => ContractKept
<1>1. ConnectedInit => \A c \in Command : Contract(c)!Init
  <2> SUFFICES ASSUME ConnectedInit, NEW c \in Command
               PROVE  Contract(c)!Init
    OBVIOUS
  <2>1. recovery[c].status = "absent" /\ executions[c] = 0
    BY DEF ConnectedInit, ServerInit, AgentInit, NoRow
  <2> QED BY <2>1 DEF StageOf, Reported, Contract!Init
<1>2. ConnectedInv /\ ConnectedInv' /\ [ConnectedNext]_connectedVars =>
        [\A c \in Command :
           [Contract(c)!Next]_<<StageOf(c), executions[c]>>]_connectedVars
  BY ContractStep
<1> QED BY <1>1, <1>2, ConnectedSound, PTL DEF ConnectedSpec, ContractKept

=============================================================================
