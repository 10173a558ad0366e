--------------------------- MODULE HostAgentProofs ---------------------------
(***************************************************************************)
(* What the agent keeps in any environment that hands out no command whose *)
(* result it acknowledged: proofs for every number of commands and every   *)
(* limit of the journal.                                                   *)
(***************************************************************************)
EXTENDS HostAgent, TLAPS, SequenceTheorems, WellFoundedInduction

-----------------------------------------------------------------------------
(* Sequences. *)

\* A non-empty set of naturals has a least element.
LEMMA MinIn ==
  ASSUME NEW S \in SUBSET Nat, S # {}
  PROVE  Min(S) \in S
<1>1. PICK x \in S : \A y \in S : ~ (<<y, x>> \in OpToRel(<, Nat))
  BY NatLessThanWellFounded, WFMin, Zenon
<1>2. \A y \in S : ~ (y < x)
  BY <1>1, Zenon DEF OpToRel
<1>3. \A y \in S : x =< y
  BY <1>2
<1> QED
  BY <1>3, Zenon DEF Min

\* What is left of a sequence without its k-th element.
LEMMA Shortened ==
  ASSUME NEW S, NEW s \in Seq(S), NEW k \in 1..Len(s)
  PROVE  /\ RemoveAt(s, k) \in Seq(S)
         /\ Len(RemoveAt(s, k)) = Len(s) - 1
         /\ \A i \in 1..Len(s) - 1 :
              RemoveAt(s, k)[i] = IF i < k THEN s[i] ELSE s[i + 1]
<1> DEFINE a == SubSeq(s, 1, k - 1)
           b == SubSeq(s, k + 1, Len(s))
<1>1. Len(s) \in Nat
  BY LenProperties
<1>2. \A i \in 1..Len(s) : s[i] \in S
  BY ElementOfSeq
<1>3. /\ a \in Seq(S) /\ Len(a) = k - 1
      /\ \A i \in 1..k - 1 : a[i] = s[i]
  <2>1. \A i \in 1..k - 1 : s[i] \in S
    BY <1>1, <1>2
  <2>2. /\ a \in Seq(S)
        /\ Len(a) = IF 1 <= k - 1 THEN k - 1 - 1 + 1 ELSE 0
        /\ \A i \in 1..(k - 1) - 1 + 1 : a[i] = s[1 + i - 1]
    BY <1>1, <2>1, SubSeqProperties
  <2> QED
    BY <1>1, <2>2
<1>4. /\ b \in Seq(S) /\ Len(b) = Len(s) - k
      /\ \A i \in 1..Len(s) - k : b[i] = s[k + i]
  <2>1. \A i \in k + 1..Len(s) : s[i] \in S
    BY <1>1, <1>2
  <2>2. /\ b \in Seq(S)
        /\ Len(b) = IF k + 1 <= Len(s) THEN Len(s) - (k + 1) + 1 ELSE 0
        /\ \A i \in 1..Len(s) - (k + 1) + 1 : b[i] = s[k + 1 + i - 1]
    BY <1>1, <2>1, SubSeqProperties
  <2> QED
    BY <1>1, <2>2
<1>5. /\ a \o b \in Seq(S) /\ Len(a \o b) = Len(a) + Len(b)
      /\ \A i \in 1..Len(a) + Len(b) :
           (a \o b)[i] = IF i <= Len(a) THEN a[i] ELSE b[i - Len(a)]
  BY <1>3, <1>4, ConcatProperties
<1>6. RemoveAt(s, k) = a \o b
  BY DEF RemoveAt
<1> HIDE DEF a, b
<1>7. ASSUME NEW i \in 1..Len(s) - 1
      PROVE  (a \o b)[i] = IF i < k THEN s[i] ELSE s[i + 1]
  <2>1. CASE i < k
    BY <1>1, <1>3, <1>4, <1>5, <2>1
  <2>2. CASE ~(i < k)
    <3>1. (a \o b)[i] = b[i - (k - 1)]
      BY <1>1, <1>3, <1>4, <1>5, <2>2
    <3>2. b[i - (k - 1)] = s[k + (i - (k - 1))]
      BY <1>1, <1>4, <2>2
    <3> QED
      BY <1>1, <2>2, <3>1, <3>2
  <2> QED
    BY <2>1, <2>2
<1> QED
  BY <1>1, <1>3, <1>4, <1>5, <1>6, <1>7

\* A function on the indices of a sequence is a sequence of the same length.
LEMMA Rewritten ==
  ASSUME NEW S, NEW s \in Seq(S), NEW t \in [DOMAIN s -> S]
  PROVE  t \in Seq(S) /\ Len(t) = Len(s) /\ DOMAIN t = DOMAIN s
<1>1. Len(s) \in Nat /\ DOMAIN s = 1..Len(s)
  BY LenProperties
<1>2. t \in Seq(S)
  BY <1>1, SeqDef
<1>3. Len(t) \in Nat /\ 1..Len(t) = 1..Len(s)
  BY <1>1, <1>2, LenProperties
<1> QED
  BY <1>1, <1>2, <1>3

-----------------------------------------------------------------------------
(* The inductive invariant. *)

\* A command is claimed once.
OneEntryEach ==
  \A i, j \in DOMAIN journal :
    journal[i].command = journal[j].command => i = j

DeliveredIsSettled ==
  \A i \in DOMAIN journal :
    journal[i].delivered => journal[i].command \in settled

\* An execution leaves its trace in the journal until the server has
\* acknowledged the result.
ExecutionsKnown ==
  \A c \in Command : executions[c] > 0 => Journaled(c) \/ c \in settled

NothingWaits == \A i \in DOMAIN journal : ~Undelivered(journal[i])

\* The heartbeat on its way carries whatever waits to be delivered.
Carried ==
  agent.at = "waiting" =>
    /\ \A i \in DOMAIN journal :
         Undelivered(journal[i]) => journal[i].command = agent.sent
    /\ agent.sent # NoCommand => Journaled(agent.sent)

Ordered ==
  agent.at = "claim" =>
    /\ agent.command \in Command /\ agent.nonce \in Command
    /\ NothingWaits
    /\ agent.command \in settled => Journaled(agent.command)

\* The order in work has a claim without a result, and was executed as often
\* as the place of the process says.
InWork ==
  agent.at \in {"restart", "verify", "store"} =>
    /\ agent.command \in Command
    /\ NothingWaits
    /\ \E i \in DOMAIN journal :
         journal[i].command = agent.command /\ journal[i].code = NoCode
    /\ executions[agent.command] = IF agent.at = "restart" THEN 0 ELSE 1
    /\ agent.at # "restart" => agent.code \in ResultCode

\* What is said of the journal and the history alone.
JournalInv ==
  /\ ExecutedOnce /\ OneUndelivered
  /\ OneEntryEach /\ DeliveredIsSettled /\ ExecutionsKnown

\* What is said of a process at its place in the loop.
PlaceInv == Carried /\ Ordered /\ InWork

AgentInv == AgentTypeOK /\ JournalInv /\ PlaceInv

-----------------------------------------------------------------------------
(* Room in the journal. *)

\* A journal that is not full makes room without losing a row that was not
\* delivered, and without a row it did not have.
LEMMA RoomMade ==
  ASSUME journal \in Seq(Rows), Len(journal) <= JournalLimit, ~Full
  PROVE  /\ WithRoom \in Seq(Rows) /\ Len(WithRoom) < JournalLimit
         /\ \A i \in DOMAIN WithRoom :
              \E j \in DOMAIN journal : WithRoom[i] = journal[j]
         /\ \A j \in DOMAIN journal :
              ~journal[j].delivered =>
                \E i \in DOMAIN WithRoom : WithRoom[i] = journal[j]
         /\ OneEntryEach =>
              \A i, j \in DOMAIN WithRoom :
                WithRoom[i].command = WithRoom[j].command => i = j
<1>1. Len(journal) \in Nat /\ DOMAIN journal = 1..Len(journal)
  BY LenProperties
<1>2. CASE Len(journal) < JournalLimit
  BY <1>1, <1>2 DEF WithRoom, OneEntryEach
<1>3. CASE ~(Len(journal) < JournalLimit)
  <2> DEFINE k == SelectInSeq(journal, Delivered)
             I == {i \in 1..Len(journal) : Delivered(journal[i])}
  <2>1. k # 0 /\ WithRoom = RemoveAt(journal, k)
    BY <1>1, <1>3, JournalAssumption DEF Full, WithRoom
  <2>2. k = IF I # {} THEN Min(I) ELSE 0
    BY DEF SelectInSeq
  <2>3. k \in I
    <3>1. I \in SUBSET Nat
      OBVIOUS
    <3> HIDE DEF I
    <3> QED
      BY <2>1, <2>2, <3>1, MinIn
  <2>4. k \in 1..Len(journal) /\ journal[k].delivered
    BY <2>3 DEF Delivered
  <2> HIDE DEF k, I
  <2>5. /\ WithRoom \in Seq(Rows)
        /\ Len(WithRoom) = Len(journal) - 1
        /\ \A i \in 1..Len(journal) - 1 :
             WithRoom[i] = IF i < k THEN journal[i] ELSE journal[i + 1]
    BY <2>1, <2>4, Shortened
  <2>6. DOMAIN WithRoom = 1..Len(journal) - 1
    BY <2>5, LenProperties
  <2>7. ASSUME NEW i \in DOMAIN WithRoom
        PROVE  \E j \in DOMAIN journal :
                 /\ WithRoom[i] = journal[j]
                 /\ j = IF i < k THEN i ELSE i + 1
    BY <1>1, <2>4, <2>5, <2>6
  <2>8. ASSUME NEW j \in DOMAIN journal, ~journal[j].delivered
        PROVE  \E i \in DOMAIN WithRoom : WithRoom[i] = journal[j]
    <3>1. j # k
      BY <2>4, <2>8
    <3>2. CASE j < k
      BY <1>1, <2>4, <2>5, <2>6, <3>2
    <3>3. CASE j > k
      <4>1. j - 1 \in DOMAIN WithRoom /\ ~(j - 1 < k) /\ j - 1 + 1 = j
        BY <1>1, <2>4, <2>6, <3>3
      <4> QED
        BY <2>5, <2>6, <4>1
    <3> QED
      BY <1>1, <2>4, <3>1, <3>2, <3>3
  <2>9. ASSUME OneEntryEach, NEW i \in DOMAIN WithRoom,
               NEW j \in DOMAIN WithRoom,
               WithRoom[i].command = WithRoom[j].command
        PROVE  i = j
    <3>1. PICK m \in DOMAIN journal : /\ WithRoom[i] = journal[m]
                                      /\ m = IF i < k THEN i ELSE i + 1
      BY <2>7
    <3>2. PICK n \in DOMAIN journal : /\ WithRoom[j] = journal[n]
                                      /\ n = IF j < k THEN j ELSE j + 1
      BY <2>7
    <3>3. m = n
      BY <2>9, <3>1, <3>2 DEF OneEntryEach
    <3> QED
      BY <1>1, <2>4, <2>6, <3>1, <3>2, <3>3
  <2>10. Len(WithRoom) < JournalLimit
    <3>1. Len(WithRoom) = Len(journal) - 1 /\ JournalLimit \in Nat
      BY <2>5, JournalAssumption
    <3> QED
      BY <1>1, <3>1
  <2>11. ASSUME NEW i \in DOMAIN WithRoom
         PROVE  \E j \in DOMAIN journal : WithRoom[i] = journal[j]
    BY <2>7
  <2> QED
    BY <2>5, <2>8, <2>9, <2>10, <2>11
<1> QED
  BY <1>2, <1>3

-----------------------------------------------------------------------------
(* The heartbeat. *)

\* While one result at most waits, the newest is all there is to deliver.
LEMMA PendingIsAll ==
  ASSUME journal \in Seq(Rows), OneUndelivered
  PROVE  /\ \A i \in DOMAIN journal :
              Undelivered(journal[i]) => Pending = journal[i].command
         /\ Pending # NoCommand =>
              /\ Journaled(Pending)
              /\ \E i \in DOMAIN journal :
                   journal[i].command = Pending /\ Undelivered(journal[i])
         /\ Pending \in Command \union {NoCommand}
<1> DEFINE I == {i \in 1..Len(journal) : Undelivered(journal[i])}
           k == SelectLastInSeq(journal, Undelivered)
<1>1. Len(journal) \in Nat /\ DOMAIN journal = 1..Len(journal)
  BY LenProperties
<1>2. k = IF I # {} THEN Max(I) ELSE 0
  BY DEF SelectLastInSeq
<1>3. Pending = IF k = 0 THEN NoCommand ELSE journal[k].command
  BY DEF Pending
<1>4. I \subseteq 1..Len(journal) /\ \A i \in I : Undelivered(journal[i])
  OBVIOUS
<1>5. \A i \in DOMAIN journal : Undelivered(journal[i]) => i \in I
  BY <1>1
<1>6. \A i, j \in I : i = j
  BY <1>1 DEF OneUndelivered
<1> HIDE DEF I, k
<1>7. CASE I = {}
  BY <1>2, <1>3, <1>5, <1>7
<1>8. CASE I # {}
  <2>1. PICK i \in I : TRUE
    BY <1>8
  <2>2. i \in 1..Len(journal) /\ \A y \in I : i >= y
    BY <1>1, <1>4, <1>6, <2>1
  <2>3. Max(I) \in I
    BY <2>1, <2>2, Zenon DEF Max
  <2>4. k = i
    BY <1>2, <1>6, <1>8, <2>1, <2>3
  <2>5. Pending = journal[i].command
    BY <1>1, <1>3, <2>2, <2>4
  <2>6. journal[i] \in Rows
    BY <2>2, ElementOfSeq
  <2>7. /\ Journaled(Pending)
        /\ \E j \in DOMAIN journal :
             journal[j].command = Pending /\ Undelivered(journal[j])
    BY <1>1, <1>4, <2>1, <2>2, <2>5 DEF Journaled
  <2>8. Pending \in Command
    BY <2>5, <2>6 DEF Rows
  <2>9. \A j \in DOMAIN journal :
          Undelivered(journal[j]) => Pending = journal[j].command
    BY <1>5, <1>6, <2>1, <2>5
  <2> QED
    BY <2>7, <2>8, <2>9
<1> QED
  BY <1>7, <1>8

-----------------------------------------------------------------------------
(* The parts of a step. *)

LEMMA AgentInitInv == AgentInit => AgentInv
<1> SUFFICES ASSUME AgentInit PROVE AgentInv
  OBVIOUS
<1>1. /\ journal \in Seq(Rows) /\ Len(journal) = 0
      /\ DOMAIN journal = {}
  BY EmptySeq, LenProperties DEF AgentInit
<1>2. AgentTypeOK
  <2>1. agent \in Processes
    BY InstancesAssumption
    DEF AgentInit, Process, Processes, NoInstance, NoCommand, NoCode
  <2>2. service \in Services
    BY InstancesAssumption DEF AgentInit, Services, NoInstance
  <2>3. executions \in [Command -> Nat] /\ settled \subseteq Command
    BY DEF AgentInit
  <2> QED
    BY <1>1, <2>1, <2>2, <2>3, JournalAssumption DEF AgentTypeOK
<1>3. JournalInv
  BY <1>1
  DEF AgentInit, JournalInv, ExecutedOnce, OneUndelivered, OneEntryEach,
      DeliveredIsSettled, ExecutionsKnown
<1>4. PlaceInv
  BY DEF AgentInit, PlaceInv, Process, Carried, Ordered, InWork
<1> QED
  BY <1>2, <1>3, <1>4 DEF AgentInv

LEMMA JournalKept ==
  ASSUME JournalInv, UNCHANGED <<journal, executions, settled>>
  PROVE  JournalInv'
BY DEF JournalInv, ExecutedOnce, OneUndelivered, OneEntryEach,
       DeliveredIsSettled, ExecutionsKnown, Undelivered, Journaled

\* Nothing is said of a process that has no order in work.
LEMMA AtRest ==
  ASSUME agent'.at \in {"off", "check", "stopping"}
  PROVE  PlaceInv'
BY DEF PlaceInv, Carried, Ordered, InWork

LEMMA ProcessTyped ==
  ASSUME NEW at \in {"off", "check"}
  PROVE  Process(at) \in Processes /\ Process(at).at = at
BY InstancesAssumption DEF Process, Processes, NoInstance, NoCommand, NoCode

LEMMA DoneTyped ==
  ASSUME agent \in Processes
  PROVE  Done \in Processes /\ Done.at = "check"
<1>1. Process("check") \in Processes /\ agent.lastHealthy \in 0..MaxInstances
  BY ProcessTyped DEF Processes
<1> QED
  BY <1>1 DEF Done, Process, Processes

LEMMA StoppedTyped ==
  ASSUME service \in Services
  PROVE  ChildStopped \in Services
<1> DEFINE left == IF service.child = "up" THEN NoInstance ELSE service.answering
<1>1. ChildStopped = [service EXCEPT !.child = "none", !.answering = left]
  BY DEF ChildStopped
<1>2. left \in 0..MaxInstances
  BY InstancesAssumption DEF Services, NoInstance
<1> HIDE DEF left
<1> QED
  BY <1>1, <1>2 DEF Services

\* A step of a process that keeps the journal and leaves nothing in work.
LEMMA Rests ==
  ASSUME AgentInv, UNCHANGED <<journal, executions, settled>>,
         agent' \in Processes, service' \in Services,
         agent'.at \in {"off", "check", "stopping"}
  PROVE  AgentInv'
<1>1. AgentTypeOK'
  BY DEF AgentInv, AgentTypeOK
<1> QED
  BY <1>1, JournalKept, AtRest DEF AgentInv

-----------------------------------------------------------------------------
(* The steps that keep the journal. *)

LEMMA ServiceSteps ==
  ASSUME AgentInv, ChildComesUp \/ ServiceDies
  PROVE  AgentInv'
<1>1. UNCHANGED <<journal, agent, executions, settled>>
  BY DEF ChildComesUp, ServiceDies
<1>2. service' \in Services
  <2>1. service \in Services
    BY DEF AgentInv, AgentTypeOK
  <2>2. CASE ChildComesUp
    BY <2>1, <2>2, InstancesAssumption DEF ChildComesUp, Services
  <2>3. CASE ServiceDies
    <3> DEFINE child == IF service.child = "up" THEN "none" ELSE service.child
    <3>1. service' = [service EXCEPT !.answering = NoInstance, !.child = child]
      BY <2>3 DEF ServiceDies
    <3>2. child \in {"none", "starting", "up"} /\ NoInstance \in 0..MaxInstances
      BY <2>1, InstancesAssumption DEF Services, NoInstance
    <3> HIDE DEF child
    <3> QED
      BY <2>1, <3>1, <3>2 DEF Services
  <2> QED
    BY <2>2, <2>3
<1>3. AgentTypeOK'
  BY <1>1, <1>2 DEF AgentInv, AgentTypeOK
<1>4. PlaceInv'
  BY <1>1 DEF AgentInv, PlaceInv, Carried, Ordered, InWork, NothingWaits,
              Undelivered, Journaled
<1> QED
  BY <1>1, <1>3, <1>4, JournalKept DEF AgentInv

LEMMA RestingSteps ==
  ASSUME AgentInv,
         \/ Start \/ Retry \/ Refused \/ AlreadyClaimed
         \/ Interrupt \/ WriteFails \/ Stop \/ Crash
  PROVE  AgentInv'
<1>1. agent \in Processes /\ service \in Services
  BY DEF AgentInv, AgentTypeOK
<1>2. UNCHANGED <<journal, executions, settled>>
  BY DEF Start, Retry, Refused, AlreadyClaimed, Interrupt, WriteFails, Stop,
         Crash
<1>3. agent' \in Processes /\ agent'.at \in {"off", "check", "stopping"}
  <2>1. CASE Start \/ Stop \/ Crash
    BY <2>1, ProcessTyped DEF Start, Stop, Crash
  <2>2. CASE Retry \/ Refused \/ Interrupt \/ WriteFails
    BY <1>1, <2>2
    DEF Retry, Refused, Interrupt, WriteFails, Processes, NoCommand
  <2>3. CASE AlreadyClaimed
    <3>1. \/ agent' = Done
          \/ agent' = [agent EXCEPT !.at = "stopping"]
      BY <2>3 DEF AlreadyClaimed
    <3> QED
      BY <1>1, <3>1, DoneTyped DEF Processes
  <2> QED
    BY <2>1, <2>2, <2>3
<1>4. service' \in Services
  <2>1. CASE Start \/ Retry \/ Refused \/ AlreadyClaimed \/ Interrupt
             \/ WriteFails
    BY <1>1, <2>1
    DEF Start, Retry, Refused, AlreadyClaimed, Interrupt, WriteFails, Services
  <2>2. CASE Stop
    BY <1>1, <2>2, StoppedTyped DEF Stop
  <2>3. CASE Crash
    BY <1>1, <2>3, InstancesAssumption DEF Crash, Services
  <2> QED
    BY <2>1, <2>2, <2>3
<1> QED
  BY <1>1, <1>2, <1>3, <1>4, Rests

LEMMA SendHeartbeatStep ==
  ASSUME AgentInv, NEW report \in Seen, SendHeartbeat(report)
  PROVE  AgentInv'
<1>1. /\ journal \in Seq(Rows) /\ agent \in Processes
      /\ service \in Services /\ OneUndelivered
  BY DEF AgentInv, AgentTypeOK, JournalInv
<1>2. UNCHANGED <<journal, service, executions, settled>>
  BY DEF SendHeartbeat
<1>3. Pending \in Command \union {NoCommand}
  BY <1>1, PendingIsAll
<1>4. Noted(report) \in 0..MaxInstances
  BY <1>1, InstancesAssumption
  DEF Noted, Seen, Services, Processes, NoInstance
<1>5. /\ agent' \in Processes
      /\ agent'.at = "waiting" /\ agent'.sent = Pending
  BY <1>1, <1>3, <1>4 DEF SendHeartbeat, Processes
<1>6. AgentTypeOK'
  BY <1>2, <1>5 DEF AgentInv, AgentTypeOK
<1>7. Carried'
  <2>1. \A i \in DOMAIN journal :
          Undelivered(journal[i]) => journal[i].command = Pending
    BY <1>1, PendingIsAll
  <2>2. Pending # NoCommand => Journaled(Pending)
    BY <1>1, PendingIsAll
  <2> QED
    BY <1>2, <1>5, <2>1, <2>2 DEF Carried, Journaled, Undelivered
<1>8. PlaceInv'
  BY <1>5, <1>7 DEF PlaceInv, Ordered, InWork
<1> QED
  BY <1>2, <1>6, <1>8, JournalKept DEF AgentInv

LEMMA VerifySteps ==
  ASSUME AgentInv, VerifyFresh \/ VerifyInVain
  PROVE  AgentInv'
<1>1. agent \in Processes /\ service \in Services /\ agent.at = "verify"
  BY DEF AgentInv, AgentTypeOK, VerifyFresh, VerifyInVain
<1>2. UNCHANGED <<journal, service, executions, settled>>
  BY DEF VerifyFresh, VerifyInVain
<1>3. /\ agent' \in Processes
      /\ agent'.at = "store" /\ agent'.command = agent.command
      /\ agent'.code = agent.code
  BY <1>1 DEF VerifyFresh, VerifyInVain, Processes, Services
<1>4. AgentTypeOK'
  BY <1>2, <1>3 DEF AgentInv, AgentTypeOK
<1>5. InWork'
  BY <1>1, <1>2, <1>3
  DEF AgentInv, PlaceInv, InWork, NothingWaits, Undelivered
<1>6. PlaceInv'
  BY <1>3, <1>5 DEF PlaceInv, Carried, Ordered
<1> QED
  BY <1>2, <1>4, <1>6, JournalKept DEF AgentInv

-----------------------------------------------------------------------------
(* The steps that write the journal. *)

LEMMA CommandsAreNumbers ==
  ASSUME NEW c \in Command
  PROVE  c # NoCommand
BY MaxCommandsAssumption DEF Command, NoCommand

\* What an answer leaves in the journal: the same claims and results, and
\* nothing that waits.
LEMMA MarkedRows ==
  ASSUME AgentTypeOK
  PROVE  /\ Marked \in Seq(Rows) /\ Len(Marked) = Len(journal)
         /\ DOMAIN Marked = DOMAIN journal
         /\ \A i \in DOMAIN journal :
              /\ Marked[i].command = journal[i].command
              /\ Marked[i].nonce = journal[i].nonce
              /\ Marked[i].code = journal[i].code
              /\ Marked[i].instance = journal[i].instance
              /\ Marked[i].delivered <=>
                   journal[i].delivered \/ journal[i].command = agent.sent
<1>1. journal \in Seq(Rows) /\ Len(journal) \in Nat
      /\ DOMAIN journal = 1..Len(journal)
  BY LenProperties DEF AgentTypeOK
<1>2. \A i \in DOMAIN journal : journal[i] \in Rows
  BY <1>1, ElementOfSeq
<1>3. \A i \in DOMAIN journal :
        Marked[i] = IF journal[i].command = agent.sent
                    THEN [journal[i] EXCEPT !.delivered = TRUE] ELSE journal[i]
  BY DEF Marked
<1>4. ASSUME NEW i \in DOMAIN journal
      PROVE  /\ Marked[i] \in Rows
             /\ Marked[i].command = journal[i].command
             /\ Marked[i].nonce = journal[i].nonce
             /\ Marked[i].code = journal[i].code
             /\ Marked[i].instance = journal[i].instance
             /\ Marked[i].delivered <=>
                  journal[i].delivered \/ journal[i].command = agent.sent
  <2>1. journal[i] \in Rows
    BY <1>2
  <2>2. CASE journal[i].command = agent.sent
    <3>1. Marked[i] = [journal[i] EXCEPT !.delivered = TRUE]
      BY <1>3, <2>2
    <3> QED
      BY <2>1, <2>2, <3>1 DEF Rows
  <2>3. CASE journal[i].command # agent.sent
    <3>1. Marked[i] = journal[i]
      BY <1>3, <2>3
    <3> QED
      BY <2>1, <2>3, <3>1
  <2> QED
    BY <2>2, <2>3
<1>5. Marked \in [DOMAIN journal -> Rows]
  BY <1>4 DEF Marked
<1>6. /\ Marked \in Seq(Rows) /\ Len(Marked) = Len(journal)
      /\ DOMAIN Marked = DOMAIN journal
  BY <1>1, <1>5, Rewritten
<1> QED
  BY <1>4, <1>6

LEMMA AcceptedStep ==
  ASSUME AgentInv, NEW c, NEW n,
         \/ c = NoCommand /\ n = NoCommand
         \/ c \in Command \ settled /\ n \in Command,
         Accepted(c, n)
  PROVE  AgentInv'
<1>1. /\ AgentTypeOK /\ agent \in Processes /\ agent.at = "waiting"
      /\ ExecutedOnce /\ OneEntryEach /\ DeliveredIsSettled
      /\ ExecutionsKnown /\ Carried
  BY DEF AgentInv, AgentTypeOK, JournalInv, PlaceInv, Accepted
<1>2. /\ journal' = Marked /\ UNCHANGED <<service, executions>>
      /\ settled' = settled \union ({agent.sent} \ {NoCommand})
  BY DEF Accepted
<1>3. /\ journal' \in Seq(Rows) /\ Len(journal') = Len(journal)
      /\ DOMAIN journal' = DOMAIN journal
  BY <1>1, <1>2, MarkedRows
<1>4. \A i \in DOMAIN journal :
        /\ journal'[i].command = journal[i].command
        /\ journal'[i].code = journal[i].code
        /\ journal'[i].delivered <=>
             journal[i].delivered \/ journal[i].command = agent.sent
  BY <1>1, <1>2, MarkedRows
<1>5. \A i \in DOMAIN journal : journal[i].command \in Command
  <2>1. \A i \in DOMAIN journal : journal[i] \in Rows
    BY <1>1, LenProperties, ElementOfSeq DEF AgentTypeOK
  <2> QED
    BY <2>1 DEF Rows
<1>6. /\ agent' \in Processes
      /\ agent'.at = IF c = NoCommand THEN "check" ELSE "claim"
      /\ agent'.command = c /\ agent'.nonce = n
  <2>1. /\ c \in Command \union {NoCommand} /\ n \in Command \union {NoCommand}
        /\ NoCommand \in Command \union {NoCommand}
    OBVIOUS
  <2> DEFINE at == IF c = NoCommand THEN "check" ELSE "claim"
  <2>2. agent' = [agent EXCEPT !.at = at, !.sent = NoCommand, !.command = c,
                               !.nonce = n]
    BY DEF Accepted
  <2>3. at \in {"check", "claim"}
    OBVIOUS
  <2> HIDE DEF at
  <2>4. agent' \in Processes /\ agent'.at = at /\ agent'.command = c
        /\ agent'.nonce = n
    BY <1>1, <2>1, <2>2, <2>3 DEF Processes
  <2> QED
    BY <2>4 DEF at
<1>7. AgentTypeOK'
  <2>1. settled' \subseteq Command
    BY <1>1, <1>2 DEF AgentTypeOK, Processes
  <2> QED
    BY <1>1, <1>2, <1>3, <1>6, <2>1 DEF AgentTypeOK
<1>8. NothingWaits'
  BY <1>1, <1>3, <1>4 DEF NothingWaits, Undelivered, Carried
<1>9. \A x \in Command \union {NoCommand} : Journaled(x) => Journaled(x)'
  BY <1>3, <1>4 DEF Journaled
<1>10. JournalInv'
  <2>1. ExecutedOnce'
    BY <1>1, <1>2, <1>3, <1>4 DEF ExecutedOnce
  <2>2. OneUndelivered'
    BY <1>8 DEF NothingWaits, OneUndelivered
  <2>3. OneEntryEach'
    BY <1>1, <1>3, <1>4 DEF OneEntryEach
  <2>4. DeliveredIsSettled'
    BY <1>1, <1>2, <1>3, <1>4, <1>5, CommandsAreNumbers DEF DeliveredIsSettled
  <2>5. ExecutionsKnown'
    BY <1>1, <1>2, <1>9 DEF ExecutionsKnown
  <2> QED
    BY <2>1, <2>2, <2>3, <2>4, <2>5 DEF JournalInv
<1>11. Ordered'
  <2> SUFFICES ASSUME agent'.at = "claim"
               PROVE  /\ c \in Command /\ n \in Command
                      /\ c \in settled' => Journaled(c)'
    BY <1>6, <1>8 DEF Ordered, Journaled
  <2>1. c \in Command \ settled /\ n \in Command
    BY <1>6
  <2>2. c \in settled' => c = agent.sent /\ agent.sent # NoCommand
    BY <1>2, <2>1
  <2>3. agent.sent # NoCommand => Journaled(agent.sent)
    BY <1>1 DEF Carried
  <2> QED
    BY <1>9, <2>1, <2>2, <2>3
<1>12. PlaceInv'
  BY <1>6, <1>11 DEF PlaceInv, Carried, InWork
<1> QED
  BY <1>7, <1>10, <1>12 DEF AgentInv

LEMMA ClaimCommandStep ==
  ASSUME AgentInv, ClaimCommand
  PROVE  AgentInv'
<1>1. /\ journal \in Seq(Rows) /\ Len(journal) <= JournalLimit
      /\ agent \in Processes /\ service \in Services
      /\ executions \in [Command -> Nat] /\ settled \subseteq Command
      /\ ExecutedOnce /\ OneEntryEach /\ DeliveredIsSettled
      /\ ExecutionsKnown /\ Ordered
      /\ agent.at = "claim" /\ ~Journaled(agent.command)
      /\ UNCHANGED <<service, executions, settled>>
  BY DEF AgentInv, AgentTypeOK, JournalInv, PlaceInv, ClaimCommand
<1>2. CASE agent' = [agent EXCEPT !.at = "stopping"] /\ UNCHANGED journal
  <2>1. agent' \in Processes /\ agent'.at = "stopping"
    BY <1>1, <1>2 DEF Processes
  <2> QED
    BY <1>1, <1>2, <2>1, Rests
<1>3. CASE /\ journal' = Append(WithRoom, Entry(agent.command, agent.nonce))
           /\ agent' = [agent EXCEPT !.at = "restart"] /\ ~Full
  <2> DEFINE c == agent.command
             entry == Entry(c, agent.nonce)
             m == Len(WithRoom)
  <2>1. /\ c \in Command /\ agent.nonce \in Command /\ NothingWaits
        /\ c \in settled => Journaled(c)
    BY <1>1 DEF Ordered
  <2>2. /\ entry \in Rows /\ entry.command = c /\ entry.code = NoCode
        /\ ~entry.delivered
    BY <2>1, InstancesAssumption DEF Entry, Rows, NoInstance
  <2>3. /\ WithRoom \in Seq(Rows) /\ m < JournalLimit
        /\ \A i \in DOMAIN WithRoom :
             \E j \in DOMAIN journal : WithRoom[i] = journal[j]
        /\ \A j \in DOMAIN journal :
             ~journal[j].delivered =>
               \E i \in DOMAIN WithRoom : WithRoom[i] = journal[j]
        /\ \A i, j \in DOMAIN WithRoom :
             WithRoom[i].command = WithRoom[j].command => i = j
    BY <1>1, <1>3, RoomMade
  <2>4. m \in Nat /\ DOMAIN WithRoom = 1..m
    BY <2>3, LenProperties
  <2>5. /\ journal' \in Seq(Rows) /\ Len(journal') = m + 1
        /\ \A i \in 1..m : journal'[i] = WithRoom[i]
        /\ journal'[m + 1] = entry
    BY <1>3, <2>2, <2>3, AppendProperties
  <2>6. DOMAIN journal' = 1..m + 1
    BY <2>5, LenProperties
  <2> HIDE DEF c, entry, m
  <2>7. \A i \in DOMAIN journal' :
          \/ \E j \in DOMAIN journal : journal'[i] = journal[j]
          \/ journal'[i] = entry
    BY <2>3, <2>4, <2>5, <2>6
  <2>8. \A j \in DOMAIN journal :
          ~journal[j].delivered =>
            \E i \in DOMAIN journal' : journal'[i] = journal[j]
    BY <2>3, <2>4, <2>5, <2>6
  <2>9. agent' \in Processes /\ agent'.at = "restart" /\ agent'.command = c
    BY <1>1, <1>3 DEF Processes, c
  <2>10. AgentTypeOK'
    <3>1. Len(journal') <= JournalLimit
      BY <2>3, <2>4, <2>5, JournalAssumption
    <3> QED
      BY <1>1, <2>5, <2>9, <3>1 DEF AgentTypeOK
  <2>11. NothingWaits'
    BY <2>1, <2>2, <2>7 DEF NothingWaits, Undelivered
  <2>12. \A j \in DOMAIN journal : journal[j].command # c
    BY <1>1 DEF Journaled, c
  <2>13. JournalInv'
    <3>1. ExecutedOnce'
      BY <1>1, <2>2, <2>7 DEF ExecutedOnce
    <3>2. OneUndelivered'
      BY <2>11 DEF NothingWaits, OneUndelivered
    <3>3. OneEntryEach'
      <4>1. ASSUME NEW i \in DOMAIN journal', NEW j \in DOMAIN journal',
                   journal'[i].command = journal'[j].command
            PROVE  i = j
        <5>1. \A k \in 1..m : journal'[k].command # c
          BY <2>3, <2>4, <2>5, <2>12
        <5>2. journal'[m + 1].command = c
          BY <2>2, <2>5
        <5>3. CASE i \in 1..m /\ j \in 1..m
          BY <2>3, <2>4, <2>5, <4>1, <5>3
        <5>4. CASE i = m + 1 \/ j = m + 1
          BY <2>4, <2>6, <4>1, <5>1, <5>2, <5>4
        <5> QED
          BY <2>4, <2>6, <5>3, <5>4
      <4> QED
        BY <4>1 DEF OneEntryEach
    <3>4. DeliveredIsSettled'
      BY <1>1, <2>2, <2>7 DEF DeliveredIsSettled
    <3>5. ExecutionsKnown'
      BY <1>1, <2>8 DEF ExecutionsKnown, DeliveredIsSettled, Journaled
    <3> QED
      BY <3>1, <3>2, <3>3, <3>4, <3>5 DEF JournalInv
  <2>14. InWork'
    <3>1. executions[c] = 0
      BY <1>1, <2>1 DEF ExecutionsKnown, c
    <3>2. \E i \in DOMAIN journal' :
            journal'[i].command = c /\ journal'[i].code = NoCode
      BY <2>2, <2>4, <2>5, <2>6
    <3> QED
      BY <1>1, <2>1, <2>9, <2>11, <3>1, <3>2 DEF InWork
  <2>15. PlaceInv'
    BY <2>9, <2>14 DEF PlaceInv, Carried, Ordered
  <2> QED
    BY <2>10, <2>13, <2>15 DEF AgentInv
<1> QED
  BY <1>2, <1>3 DEF ClaimCommand

LEMMA RestartStep ==
  ASSUME AgentInv, Restart
  PROVE  AgentInv'
<1> DEFINE c == agent.command
<1>1. /\ journal \in Seq(Rows) /\ agent \in Processes /\ service \in Services
      /\ executions \in [Command -> Nat]
      /\ ExecutedOnce /\ OneUndelivered /\ OneEntryEach
      /\ DeliveredIsSettled /\ ExecutionsKnown
      /\ agent.at = "restart" /\ UNCHANGED <<journal, settled>>
  BY DEF AgentInv, AgentTypeOK, JournalInv, Restart
<1>2. c \in Command /\ NothingWaits /\ executions[c] = 0
  BY <1>1 DEF AgentInv, PlaceInv, InWork
<1>3. PICK i \in DOMAIN journal :
        journal[i].command = c /\ journal[i].code = NoCode
  BY <1>1 DEF AgentInv, PlaceInv, InWork
<1>4. executions' = [executions EXCEPT ![c] = 1]
  BY <1>1, <1>2 DEF Restart
<1>5. /\ executions' \in [Command -> Nat] /\ executions'[c] = 1
      /\ \A x \in Command : x # c => executions'[x] = executions[x]
  BY <1>1, <1>2, <1>4
<1>6. /\ agent' \in Processes /\ agent'.at = "verify" /\ agent'.command = c
      /\ agent'.code \in ResultCode
  BY <1>1 DEF Restart, Processes, ResultCode
<1>7. service' \in Services
  <2>1. ChildStopped \in Services
    BY <1>1, StoppedTyped
  <2>2. \/ service' = [ChildStopped EXCEPT !.child = "starting"]
        \/ service' = ChildStopped
    BY DEF Restart
  <2> QED
    BY <2>1, <2>2 DEF Services
<1> HIDE DEF c
<1>8. AgentTypeOK'
  BY <1>1, <1>5, <1>6, <1>7 DEF AgentInv, AgentTypeOK
<1>9. JournalInv'
  <2>1. \A j \in DOMAIN journal :
          journal[j].code # NoCode => journal[j].command # c
    BY <1>1, <1>3 DEF OneEntryEach
  <2>2. \A j \in DOMAIN journal : journal[j].command \in Command
    <3>1. \A j \in DOMAIN journal : journal[j] \in Rows
      BY <1>1, LenProperties, ElementOfSeq
    <3> QED
      BY <3>1 DEF Rows
  <2>3. ExecutedOnce'
    BY <1>1, <1>5, <2>1, <2>2 DEF ExecutedOnce
  <2>4. ExecutionsKnown'
    BY <1>1, <1>3, <1>5 DEF ExecutionsKnown, Journaled
  <2>5. (OneUndelivered /\ OneEntryEach /\ DeliveredIsSettled)'
    BY <1>1 DEF OneUndelivered, OneEntryEach, DeliveredIsSettled, Undelivered
  <2> QED
    BY <2>3, <2>4, <2>5 DEF JournalInv
<1>10. InWork'
  BY <1>1, <1>2, <1>3, <1>5, <1>6 DEF InWork, NothingWaits, Undelivered
<1>11. PlaceInv'
  BY <1>6, <1>10 DEF PlaceInv, Carried, Ordered
<1> QED
  BY <1>8, <1>9, <1>11 DEF AgentInv

LEMMA StoreResultStep ==
  ASSUME AgentInv, StoreResult
  PROVE  AgentInv'
<1> DEFINE c == agent.command
<1>1. /\ journal \in Seq(Rows) /\ Len(journal) <= JournalLimit
      /\ agent \in Processes /\ service \in Services
      /\ ExecutedOnce /\ OneEntryEach /\ DeliveredIsSettled /\ ExecutionsKnown
      /\ agent.at = "store" /\ UNCHANGED <<service, executions, settled>>
  BY DEF AgentInv, AgentTypeOK, JournalInv, StoreResult
<1>2. /\ c \in Command /\ NothingWaits /\ executions[c] = 1
      /\ agent.code \in ResultCode
  BY <1>1 DEF AgentInv, PlaceInv, InWork
<1>3. \A i \in DOMAIN journal : journal[i] \in Rows
  BY <1>1, LenProperties, ElementOfSeq
<1>4. \A i \in DOMAIN journal :
        journal'[i] = IF journal[i].command = c
                      THEN [journal[i] EXCEPT !.code = agent.code,
                                              !.instance = agent.found]
                      ELSE journal[i]
  BY DEF StoreResult
<1>5. agent.found \in 0..MaxInstances
  BY <1>1 DEF Processes
<1> HIDE DEF c
<1>6. ASSUME NEW i \in DOMAIN journal
      PROVE  /\ journal'[i] \in Rows
             /\ journal'[i].command = journal[i].command
             /\ journal'[i].delivered = journal[i].delivered
             /\ journal[i].command # c => journal'[i] = journal[i]
  <2>1. journal[i] \in Rows
    BY <1>3
  <2>2. CASE journal[i].command = c
    <3>1. journal'[i] = [journal[i] EXCEPT !.code = agent.code,
                                           !.instance = agent.found]
      BY <1>4, <2>2
    <3> QED
      BY <1>2, <1>5, <2>1, <2>2, <3>1 DEF Rows
  <2>3. CASE journal[i].command # c
    BY <1>4, <2>1, <2>3
  <2> QED
    BY <2>2, <2>3
<1>7. journal' \in [DOMAIN journal -> Rows]
  BY <1>6 DEF StoreResult
<1>8. /\ journal' \in Seq(Rows) /\ Len(journal') = Len(journal)
      /\ DOMAIN journal' = DOMAIN journal
  BY <1>1, <1>7, Rewritten
<1>9. agent' \in Processes /\ agent'.at = "check"
  BY <1>1, DoneTyped DEF StoreResult
<1>10. AgentTypeOK'
  BY <1>1, <1>8, <1>9 DEF AgentInv, AgentTypeOK
<1>11. JournalInv'
  <2>1. ExecutedOnce'
    BY <1>1, <1>2, <1>6, <1>8 DEF ExecutedOnce
  <2>2. \A i \in DOMAIN journal :
          Undelivered(journal'[i]) => journal[i].command = c
    BY <1>2, <1>6 DEF NothingWaits
  <2>3. OneUndelivered'
    BY <1>1, <1>8, <2>2 DEF OneUndelivered, Undelivered, OneEntryEach
  <2>4. OneEntryEach'
    BY <1>1, <1>6, <1>8 DEF OneEntryEach
  <2>5. DeliveredIsSettled'
    BY <1>1, <1>6, <1>8 DEF DeliveredIsSettled
  <2>6. ExecutionsKnown'
    BY <1>1, <1>6, <1>8 DEF ExecutionsKnown, Journaled
  <2> QED
    BY <2>1, <2>3, <2>4, <2>5, <2>6 DEF JournalInv
<1> QED
  BY <1>9, <1>10, <1>11, AtRest DEF AgentInv

-----------------------------------------------------------------------------
(* Every step. *)

LEMMA AgentNextInv ==
  AgentInv /\ [AgentNext]_agentVars => AgentInv'
<1> SUFFICES ASSUME AgentInv, [AgentNext]_agentVars PROVE AgentInv'
  OBVIOUS
<1>1. CASE ChildComesUp \/ ServiceDies
  BY <1>1, ServiceSteps
<1>2. CASE \/ Start \/ Retry \/ Refused \/ AlreadyClaimed
           \/ Interrupt \/ WriteFails \/ Stop \/ Crash
  BY <1>2, RestingSteps
<1>3. CASE ClaimCommand
  BY <1>3, ClaimCommandStep
<1>4. CASE Restart
  BY <1>4, RestartStep
<1>5. CASE VerifyFresh \/ VerifyInVain
  BY <1>5, VerifySteps
<1>6. CASE StoreResult
  BY <1>6, StoreResultStep
<1>7. CASE \E report \in Seen : SendHeartbeat(report)
  BY <1>7, SendHeartbeatStep
<1>8. CASE Accepted(NoCommand, NoCommand)
  BY <1>8, AcceptedStep
<1>9. CASE \E c \in Command \ settled, n \in Command : Accepted(c, n)
  BY <1>9, AcceptedStep
<1>10. CASE UNCHANGED agentVars
  BY <1>10 DEF agentVars, AgentInv, AgentTypeOK, JournalInv, PlaceInv,
               ExecutedOnce, OneUndelivered, OneEntryEach, DeliveredIsSettled,
               ExecutionsKnown, Carried, Ordered, InWork, NothingWaits,
               Undelivered, Journaled
<1> QED
  BY <1>1, <1>2, <1>3, <1>4, <1>5, <1>6, <1>7, <1>8, <1>9, <1>10
  DEF AgentNext, AgentStep

\* What JournalKeepsResults says of a step.
Kept ==
  \A i \in DOMAIN journal :
    ~journal[i].delivered =>
      \E j \in DOMAIN journal' :
        /\ journal'[j].command = journal[i].command
        /\ journal'[j].nonce = journal[i].nonce
        /\ journal[i].code # NoCode =>
             /\ journal'[j].code = journal[i].code
             /\ journal'[j].instance = journal[i].instance

LEMMA NextKeeps ==
  AgentInv /\ [AgentNext]_agentVars => [Kept]_agentVars
<1> SUFFICES ASSUME AgentInv, AgentNext PROVE Kept
  BY DEF agentVars
<1>1. /\ AgentTypeOK /\ OneEntryEach /\ InWork
      /\ journal \in Seq(Rows) /\ Len(journal) <= JournalLimit
  BY DEF AgentInv, AgentTypeOK, JournalInv, PlaceInv
<1>2. CASE UNCHANGED journal
  BY <1>2 DEF Kept
<1>3. CASE \E c, n \in Command \union {NoCommand} : Accepted(c, n)
  <2>1. journal' = Marked
    BY <1>3 DEF Accepted
  <2> QED
    BY <1>1, <2>1, MarkedRows DEF Kept
<1>4. CASE ClaimCommand /\ ~UNCHANGED journal
  <2>1. ~Full /\ journal' = Append(WithRoom, Entry(agent.command, agent.nonce))
        /\ agent.at = "claim"
    BY <1>4 DEF ClaimCommand
  <2>2. /\ WithRoom \in Seq(Rows)
        /\ \A j \in DOMAIN journal :
             ~journal[j].delivered =>
               \E i \in DOMAIN WithRoom : WithRoom[i] = journal[j]
    BY <1>1, <2>1, RoomMade
  <2>3. Entry(agent.command, agent.nonce) \in Rows
    <3>1. agent.command \in Command /\ agent.nonce \in Command
      BY <2>1 DEF AgentInv, PlaceInv, Ordered
    <3> QED
      BY <3>1, InstancesAssumption DEF Entry, Rows, NoInstance
  <2>4. Len(WithRoom) \in Nat /\ DOMAIN WithRoom = 1..Len(WithRoom)
    BY <2>2, LenProperties
  <2>5. /\ journal' \in Seq(Rows) /\ Len(journal') = Len(WithRoom) + 1
        /\ \A i \in 1..Len(WithRoom) : journal'[i] = WithRoom[i]
    BY <2>1, <2>2, <2>3, AppendProperties
  <2>6. DOMAIN journal' = 1..Len(WithRoom) + 1
    BY <2>5, LenProperties
  <2>7. \A j \in DOMAIN journal :
          ~journal[j].delivered =>
            \E i \in DOMAIN journal' : journal'[i] = journal[j]
    BY <2>2, <2>4, <2>5, <2>6
  <2> QED
    BY <2>7 DEF Kept
<1>5. CASE StoreResult
  <2>1. PICK k \in DOMAIN journal :
          journal[k].command = agent.command /\ journal[k].code = NoCode
    BY <1>1, <1>5 DEF InWork, StoreResult
  <2>2. \A i \in DOMAIN journal : journal[i] \in Rows
    BY <1>1, LenProperties, ElementOfSeq
  <2>3. DOMAIN journal' = DOMAIN journal
    BY <1>5 DEF StoreResult
  <2>4. ASSUME NEW i \in DOMAIN journal
        PROVE  /\ journal'[i].command = journal[i].command
               /\ journal'[i].nonce = journal[i].nonce
               /\ journal[i].code # NoCode => journal'[i] = journal[i]
    <3>1. CASE i = k
      <4>1. journal'[i] = [journal[i] EXCEPT !.code = agent.code,
                                             !.instance = agent.found]
        BY <1>5, <2>1, <3>1 DEF StoreResult
      <4> QED
        BY <2>1, <2>2, <3>1, <4>1 DEF Rows
    <3>2. CASE i # k
      <4>1. journal[i].command # agent.command
        BY <1>1, <2>1, <3>2 DEF OneEntryEach
      <4> QED
        BY <1>5, <4>1 DEF StoreResult
    <3> QED
      BY <3>1, <3>2
  <2> QED
    BY <2>3, <2>4 DEF Kept
<1>6. \/ UNCHANGED journal
      \/ \E c, n \in Command \union {NoCommand} : Accepted(c, n)
      \/ ClaimCommand
      \/ StoreResult
  <2>1. CASE AgentStep
    BY <2>1
    DEF AgentStep, ChildComesUp, ServiceDies, Start, AlreadyClaimed, Restart,
        VerifyFresh, VerifyInVain, Interrupt, WriteFails, Stop, Crash
  <2>2. CASE \/ \E report \in Seen : SendHeartbeat(report)
             \/ Retry \/ Refused
    BY <2>2 DEF SendHeartbeat, Retry, Refused
  <2>3. CASE \/ Accepted(NoCommand, NoCommand)
             \/ \E c \in Command \ settled, n \in Command : Accepted(c, n)
    <3>1. \E c, n \in Command \union {NoCommand} : Accepted(c, n)
      BY <2>3
    <3> QED
      BY <3>1
  <2> QED
    BY <2>1, <2>2, <2>3 DEF AgentNext
<1> QED
  BY <1>2, <1>3, <1>4, <1>5, <1>6

-----------------------------------------------------------------------------
(* The theorems. *)

\* The inductive invariant holds in every reachable state.
THEOREM AgentSound == AgentSpec => []AgentInv
<1> QED
  BY AgentInitInv, AgentNextInv, PTL DEF AgentSpec

\* Journal, process, service and histories stay in their types, and the
\* journal within its limit.
THEOREM AgentTypes == AgentSpec => []AgentTypeOK
<1>1. AgentInv => AgentTypeOK
  BY DEF AgentInv
<1> QED
  BY <1>1, AgentSound, PTL

\* The journal that claimCommand writes lets no command be executed twice, for every
\* number of commands, every limit, and crashes between any two steps.
THEOREM AgentExecutesOnce == AgentSpec => []ExecutedOnce
<1>1. AgentInv => ExecutedOnce
  BY DEF AgentInv, JournalInv
<1> QED
  BY <1>1, AgentSound, PTL

\* pendingResult finds all there is to deliver.
THEOREM OneResultWaits == AgentSpec => []OneUndelivered
<1>1. AgentInv => OneUndelivered
  BY DEF AgentInv, JournalInv
<1> QED
  BY <1>1, AgentSound, PTL

\* Making room, marking and storing keep every claim and every result that was
\* not acknowledged.
THEOREM JournalKeeps == AgentSpec => JournalKeepsResults
<1>1. AgentInv /\ [AgentNext]_agentVars =>
        [\A i \in DOMAIN journal :
           ~journal[i].delivered =>
             \E j \in DOMAIN journal' :
               /\ journal'[j].command = journal[i].command
               /\ journal'[j].nonce = journal[i].nonce
               /\ journal[i].code # NoCode =>
                    /\ journal'[j].code = journal[i].code
                    /\ journal'[j].instance = journal[i].instance]_agentVars
  BY NextKeeps DEF Kept
<1> QED
  BY <1>1, AgentSound, PTL DEF AgentSpec, JournalKeepsResults

=============================================================================
