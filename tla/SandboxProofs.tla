--------------------------- MODULE SandboxProofs ---------------------------
(***************************************************************************)
(* The safety of the sandbox for any number of runs and processes and any  *)
(* bound on the queue.                                                     *)
(***************************************************************************)
EXTENDS Sandbox, SequenceTheorems, TLAPS

\* Types; the one process there is, is the one supervised; and the queue has
\* room for a shutdown.
Typed ==
  /\ agent \in {"down", "listening", "stopping"}
  /\ child \in Process \cup {NoProcess}
  /\ process \in [Process -> ProcessState]
  /\ processError \in BOOLEAN
  /\ queue \in Seq(Operation)
  /\ ledger \subseteq Run /\ begun \subseteq Run
  /\ performed \in [Run -> Nat]
  /\ client \in [at : ClientAt, run : Run \cup {NoRun}]
  /\ \A p \in Process : process[p] # "none" <=> p = child
  /\ client.at # "idle" => client.run \in Run
  /\ Len(queue) <= MaxOutstanding + 1
  /\ agent = "listening" => Len(queue) <= MaxOutstanding
  /\ agent = "down" => queue = <<>> /\ child = NoProcess

\* Only the first operation is under way, and what it waits for is its own.
OpOK(i) ==
  LET op == queue[i] IN
  /\ op.at # "waiting" => i = 1
  /\ op.at = "spawning" => /\ op.target \in Process /\ op.target = child
                           /\ process[op.target] = "starting"
  /\ op.at \in {"terminating", "killing"} => op.target \in Process
  /\ op.kind # "shutdown" => op.run \in Run
  /\ op.kind = "shutdown" => agent = "stopping" /\ ~op.awaited

OpsOK == \A i \in 1..Len(queue) : OpOK(i)

\* A process that was told to exit is waited for.
Ending ==
  \A p \in Process : process[p] = "term"
    => /\ Len(queue) > 0 /\ queue[1].at = "terminating"
       /\ queue[1].target = p

\* The call that is awaited is the last one that was made.
LastAwaited ==
  \A i \in 1..Len(queue) : queue[i].awaited
    => /\ client.at \in Awaiting
       /\ \A j \in 1..Len(queue) : j > i => queue[j].kind = "shutdown"

\* What may be left in the queue depends on where the coordinator stands.  A
\* stop it forgot, and that came too late, finds nothing to stop.
Leftover ==
  \A i \in 1..Len(queue) :
    /\ client.at \in {"idle", "check", "verify"} => queue[i].kind = "shutdown"
    /\ client.at \in {"reset", "stopping"} => queue[i].kind \in {"stop", "shutdown"}
    /\ client.at \in {"broken", "confirmed", "executing"} =>
         /\ queue[i].kind # "ensure"
         /\ queue[i].kind = "stop" =>
              /\ child = NoProcess
              /\ \A j \in 1..Len(queue) : j < i => queue[j].kind # "execute"

\* A restart that was counted, or is under way, is in the ledger.
Counted ==
  /\ \A r \in Run : performed[r] <= 1 /\ (r \notin ledger => performed[r] = 0)
  /\ \A i \in 1..Len(queue) :
       queue[i].kind = "execute" /\ queue[i].at = "spawning"
         => queue[i].run \in ledger /\ performed[queue[i].run] = 0

Inv == Typed /\ OpsOK /\ Ending /\ LastAwaited /\ Leftover /\ Counted

-----------------------------------------------------------------------------
(* The ways in which the queue changes. *)

LEMMA Removed ==
  ASSUME NEW S, NEW s \in Seq(S), NEW i \in 1..Len(s)
  PROVE  /\ RemoveAt(s, i) \in Seq(S)
         /\ Len(RemoveAt(s, i)) = Len(s) - 1
         /\ \A j \in 1..Len(s) - 1 :
              RemoveAt(s, i)[j] = IF j < i THEN s[j] ELSE s[j + 1]
<1> DEFINE a == SubSeq(s, 1, i - 1)
           b == SubSeq(s, i + 1, Len(s))
<1>1. a \in Seq(S) /\ Len(a) = i - 1 /\ \A j \in 1..i - 1 : a[j] = s[j]
  OBVIOUS
<1>2. b \in Seq(S) /\ Len(b) = Len(s) - i
        /\ \A j \in 1..Len(s) - i : b[j] = s[i + j]
  OBVIOUS
<1>3. RemoveAt(s, i) = a \o b
  BY DEF RemoveAt
<1> HIDE DEF a, b
<1>4. /\ a \o b \in Seq(S) /\ Len(a \o b) = Len(a) + Len(b)
      /\ \A j \in 1..Len(a) + Len(b) :
           (a \o b)[j] = IF j <= Len(a) THEN a[j] ELSE b[j - Len(a)]
  BY <1>1, <1>2, ConcatProperties
<1>5. Len(s) \in Nat /\ Len(a) + Len(b) = Len(s) - 1
  BY <1>1, <1>2
<1>6. ASSUME NEW j \in 1..Len(s) - 1
      PROVE  (a \o b)[j] = IF j < i THEN s[j] ELSE s[j + 1]
  <2>1. CASE j < i
    BY <2>1, <1>1, <1>4, <1>5
  <2>2. CASE j >= i
    <3>1. (a \o b)[j] = b[j - (i - 1)]
      BY <2>2, <1>1, <1>4, <1>5
    <3>2. j - (i - 1) \in 1..Len(s) - i /\ i + (j - (i - 1)) = j + 1
      BY <2>2, <1>5
    <3>3. b[j - (i - 1)] = s[i + (j - (i - 1))]
      BY <3>2, <1>2
    <3>4. ~(j < i)
      BY <2>2
    <3> QED BY <3>1, <3>2, <3>3, <3>4
  <2> QED BY <2>1, <2>2, <1>5
<1> QED BY <1>3, <1>4, <1>5, <1>6

LEMMA Unawaited ==
  ASSUME NEW e \in Operation, NEW f, f = [e EXCEPT !.awaited = FALSE]
  PROVE  /\ f \in Operation /\ ~f.awaited
         /\ f.kind = e.kind /\ f.run = e.run /\ f.at = e.at
         /\ f.target = e.target
BY DEF Operation

LEMMA Abandoned ==
  ASSUME NEW s \in Seq(Operation),
         NEW t, t = [i \in DOMAIN s |-> [s[i] EXCEPT !.awaited = FALSE]]
  PROVE  /\ t \in Seq(Operation) /\ Len(t) = Len(s)
         /\ \A j \in 1..Len(s) :
              /\ t[j].kind = s[j].kind /\ t[j].run = s[j].run
              /\ t[j].at = s[j].at /\ t[j].target = s[j].target
              /\ ~t[j].awaited
<1>1. Len(s) \in Nat /\ DOMAIN s = 1..Len(s)
  OBVIOUS
<1>2. ASSUME NEW j \in 1..Len(s)
      PROVE  /\ t[j] \in Operation /\ ~t[j].awaited
             /\ t[j].kind = s[j].kind /\ t[j].run = s[j].run
             /\ t[j].at = s[j].at /\ t[j].target = s[j].target
  <2>1. t[j] = [s[j] EXCEPT !.awaited = FALSE] /\ s[j] \in Operation
    BY <1>1
  <2> QED BY <2>1, Unawaited
<1>3. t \in Seq(Operation) /\ Len(t) = Len(s)
  BY <1>1, <1>2
<1> QED BY <1>2, <1>3

LEMMA Appended ==
  ASSUME NEW s \in Seq(Operation), NEW e \in Operation
  PROVE  /\ Append(s, e) \in Seq(Operation)
         /\ Len(Append(s, e)) = Len(s) + 1
         /\ \A j \in 1..Len(s) : Append(s, e)[j] = s[j]
         /\ Append(s, e)[Len(s) + 1] = e
  OBVIOUS

-----------------------------------------------------------------------------
(* Operations of the manager. *)

\* The queue and the coordinator after the first operation has settled.
Shifted ==
  /\ queue' \in Seq(Operation) /\ Len(queue') = Len(queue) - 1
  /\ \A j \in 1..Len(queue') :
       j + 1 \in 1..Len(queue) /\ queue'[j] = queue[j + 1]
         /\ queue'[j].at = "waiting"
  /\ client' \in [at : ClientAt, run : Run \cup {NoRun}]
  /\ client'.run = client.run
  /\ client.at = "idle" <=> client'.at = "idle"
  /\ begun' = begun

\* And after it has gone on.
Advanced(at, target) ==
  /\ queue' \in Seq(Operation) /\ Len(queue') = Len(queue)
  /\ \A j \in 1..Len(queue) :
       /\ queue'[j].kind = queue[j].kind /\ queue'[j].run = queue[j].run
       /\ queue'[j].awaited = queue[j].awaited
       /\ j # 1 => queue'[j] = queue[j] /\ queue'[j].at = "waiting"
  /\ queue'[1].at = at /\ queue'[1].target = target
  /\ client' = client /\ begun' = begun

LEMMA First ==
  ASSUME Typed, OpsOK, NEW i \in DOMAIN queue,
         queue[i].at # "waiting" \/ Turn(i)
  PROVE  i = 1 /\ 1 \in 1..Len(queue) /\ queue[1] \in Operation
<1>1. DOMAIN queue = 1..Len(queue) /\ Len(queue) \in Nat
  BY DEF Typed
<1>2. i = 1
  BY <1>1 DEF OpsOK, OpOK, Turn
<1> QED BY <1>1, <1>2 DEF Typed

\* An operation that settles leaves the coordinator alone, or is the last one
\* of it in the queue.
LEMMA Settling ==
  ASSUME Typed, OpsOK, LastAwaited, Leftover, 1 \in 1..Len(queue),
         \E ok \in BOOLEAN : Settle(1, ok),
         agent' = agent, child' = child \/ child' = NoProcess
  PROVE  Shifted /\ OpsOK' /\ LastAwaited' /\ Leftover'
<1> USE DEF Shifted
<1>0. PICK ok \in BOOLEAN : Settle(1, ok)
  OBVIOUS
<1>1. /\ queue \in Seq(Operation) /\ Len(queue) \in Nat
      /\ queue[1] \in Operation
  BY DEF Typed
<1>2. /\ queue' \in Seq(Operation) /\ Len(queue') = Len(queue) - 1
      /\ \A j \in 1..Len(queue') :
           j + 1 \in 1..Len(queue) /\ queue'[j] = queue[j + 1]
  BY <1>0, <1>1, Removed DEF Settle
<1>3. \A j \in 1..Len(queue') : queue'[j].at = "waiting"
  BY <1>1, <1>2 DEF OpsOK, OpOK
<1>4. OpsOK'
  BY <1>1, <1>2, <1>3 DEF OpsOK, OpOK
<1>5. CASE ~queue[1].awaited
  <2>1. client' = client /\ begun' = begun
    BY <1>0, <1>5 DEF Settle
  <2>2. LastAwaited'
    <3>1. SUFFICES ASSUME NEW j \in 1..Len(queue'), queue'[j].awaited,
                          NEW k \in 1..Len(queue'), k > j
                   PROVE  client.at \in Awaiting /\ queue'[k].kind = "shutdown"
      BY <1>2, <2>1 DEF LastAwaited
    <3>2. j + 1 \in 1..Len(queue) /\ k + 1 \in 1..Len(queue) /\ k + 1 > j + 1
      BY <1>1, <1>2, <3>1
    <3>3. queue[j + 1].awaited /\ queue'[k] = queue[k + 1]
      BY <1>2, <3>1
    <3> QED BY <3>2, <3>3 DEF LastAwaited
  <2>3. Leftover'
    <3>1. ASSUME NEW j \in 1..Len(queue')
          PROVE  j + 1 \in 1..Len(queue) /\ queue'[j] = queue[j + 1]
      BY <1>2
    <3>2. ASSUME NEW j \in 1..Len(queue'), queue'[j].kind = "stop",
                 client.at \in {"broken", "confirmed", "executing"},
                 NEW k \in 1..Len(queue'), k < j
          PROVE  queue'[k].kind # "execute"
      <4>1. k + 1 \in 1..Len(queue) /\ k + 1 < j + 1
        BY <1>1, <1>2, <3>2
      <4> QED BY <3>1, <3>2, <4>1 DEF Leftover
    <3>3. ASSUME NEW j \in 1..Len(queue'), queue'[j].kind = "stop",
                 client.at \in {"broken", "confirmed", "executing"}
          PROVE  child' = NoProcess
      BY <3>1, <3>3 DEF Leftover
    <3>4. ASSUME NEW j \in 1..Len(queue')
          PROVE  /\ client.at \in {"idle", "check", "verify"}
                      => queue'[j].kind = "shutdown"
                 /\ client.at \in {"reset", "stopping"}
                      => queue'[j].kind \in {"stop", "shutdown"}
                 /\ client.at \in {"broken", "confirmed", "executing"}
                      => queue'[j].kind # "ensure"
      BY <3>1 DEF Leftover
    <3> QED BY <2>1, <3>2, <3>3, <3>4 DEF Leftover
  <2> QED BY <1>2, <1>3, <1>4, <2>1, <2>2, <2>3 DEF Typed
<1>6. CASE queue[1].awaited
  <2>1. client.at \in Awaiting
        /\ \A j \in 1..Len(queue') : queue'[j].kind = "shutdown"
    BY <1>1, <1>2, <1>6 DEF LastAwaited
  <2>2. client' = [client EXCEPT !.at = Reply(@, ok)] /\ begun' = begun
    BY <1>0, <1>6 DEF Settle
  <2>3. Reply(client.at, ok) \in {"dirty", "broken", "verify", "check"}
    BY <2>1 DEF Reply, Awaiting
  <2>4. /\ client' \in [at : ClientAt, run : Run \cup {NoRun}]
        /\ client'.run = client.run
        /\ client'.at \in {"dirty", "broken", "verify", "check"}
        /\ client.at # "idle"
    BY <2>1, <2>2, <2>3 DEF Typed, ClientAt, Awaiting
  <2>5. LastAwaited'
    BY <1>2, <1>4, <2>1 DEF LastAwaited, OpsOK, OpOK
  <2>6. Leftover'
    BY <2>1, <2>4 DEF Leftover
  <2> QED BY <1>2, <1>3, <1>4, <2>2, <2>4, <2>5, <2>6
<1> QED BY <1>5, <1>6

LEMMA Proceeding ==
  ASSUME Typed, OpsOK, LastAwaited, 1 \in 1..Len(queue),
         NEW at \in {"waiting", "spawning", "terminating", "killing"},
         NEW target \in Process \cup {NoProcess},
         Proceed(1, at, target)
  PROVE  Advanced(at, target) /\ LastAwaited'
<1> USE DEF Advanced
<1>1. queue \in Seq(Operation) /\ Len(queue) \in Nat
  BY DEF Typed
<1>2. /\ queue' = [queue EXCEPT ![1] = [@ EXCEPT !.at = at, !.target = target]]
      /\ client' = client /\ begun' = begun
  BY DEF Proceed, asked
<1>3. /\ queue' \in Seq(Operation) /\ Len(queue') = Len(queue)
      /\ \A j \in 1..Len(queue) :
           /\ queue'[j].kind = queue[j].kind /\ queue'[j].run = queue[j].run
           /\ queue'[j].awaited = queue[j].awaited
           /\ j # 1 => queue'[j] = queue[j]
      /\ queue'[1].at = at /\ queue'[1].target = target
  <2> DEFINE e == [queue[1] EXCEPT !.at = at, !.target = target]
  <2>1. /\ e \in Operation /\ e.at = at /\ e.target = target
        /\ e.kind = queue[1].kind /\ e.run = queue[1].run
        /\ e.awaited = queue[1].awaited
    <3>1. queue[1] \in Operation
      BY <1>1
    <3> QED BY <3>1 DEF Operation
  <2>2. queue' = [queue EXCEPT ![1] = e]
    BY <1>2
  <2> HIDE DEF e
  <2> QED BY <1>1, <2>1, <2>2, ExceptSeq
<1>4. \A j \in 1..Len(queue) : j # 1 => queue'[j].at = "waiting"
  BY <1>1, <1>3 DEF OpsOK, OpOK
<1>5. LastAwaited'
  BY <1>1, <1>2, <1>3 DEF LastAwaited
<1> QED BY <1>2, <1>3, <1>4, <1>5

\* What a step may never do.
SafeStep ==
  /\ \A p \in Process :
       process[p] = "up" /\ process'[p] = "term"
         => agent = "stopping"
            \/ client.at \in {"reset", "stopping", "dirty", "ensuring"}
  /\ client.at \in {"verify", "check"} /\ client'.at = "idle"
       => process[child] = "up"

LEMMA SpawnedStep ==
  ASSUME Inv, NEW i \in DOMAIN queue, Spawned(i)
  PROVE  Inv' /\ SafeStep
<1> USE DEF Inv
<1>1. i = 1 /\ 1 \in 1..Len(queue) /\ queue[1] \in Operation /\ Len(queue) \in Nat
      /\ queue[1].at = "spawning"
  BY First DEF Spawned, Typed
<1>2. child \in Process /\ queue[1].target = child /\ process[child] = "starting"
  BY <1>1 DEF OpsOK, OpOK
<1>3. /\ process' = [process EXCEPT ![child] = "up"]
      /\ performed' = IF queue[1].kind = "execute"
                        THEN [performed EXCEPT ![queue[1].run] = @ + 1] ELSE performed
      /\ UNCHANGED <<agent, child, processError, ledger>>
      /\ \E ok \in BOOLEAN : Settle(1, ok)
  BY <1>1, <1>2 DEF Spawned
<1>4. Shifted /\ OpsOK' /\ LastAwaited' /\ Leftover'
  BY <1>1, <1>3, Settling
<1>5. queue[1].kind = "execute" =>
        queue[1].run \in Run /\ queue[1].run \in ledger /\ performed[queue[1].run] = 0
  BY <1>1 DEF OpsOK, OpOK, Counted
<1>6. performed' \in [Run -> Nat]
      /\ \A r \in Run : performed'[r] <= 1 /\ (r \notin ledger' => performed'[r] = 0)
  BY <1>3, <1>5 DEF Typed, Counted
<1>7. Typed'
  BY SandboxAssumption, <1>1, <1>2, <1>3, <1>4, <1>6
     DEF Typed, ProcessState, Shifted
<1>8. Ending'
  <2>1. \A p \in Process : process'[p] # "term"
    BY <1>1, <1>2, <1>3 DEF Typed, Ending
  <2> QED BY <2>1 DEF Ending
<1>9. Counted'
  BY <1>4, <1>6 DEF Counted, Shifted
<1>10. SafeStep
  BY <1>2, <1>3, <1>4 DEF SafeStep, Typed, Shifted
<1> QED BY <1>4, <1>7, <1>8, <1>9, <1>10

LEMMA SpawnFailsStep ==
  ASSUME Inv, NEW i \in DOMAIN queue, SpawnFails(i)
  PROVE  Inv' /\ SafeStep
<1> USE DEF Inv
<1>1. i = 1 /\ 1 \in 1..Len(queue) /\ queue[1] \in Operation /\ Len(queue) \in Nat
      /\ queue[1].at = "spawning"
  BY First DEF SpawnFails, Typed
<1>2. child \in Process /\ queue[1].target = child /\ process[child] = "starting"
  BY <1>1 DEF OpsOK, OpOK
<1>3. /\ process' = [process EXCEPT ![child] = "none"]
      /\ child' = NoProcess /\ processError' = TRUE
      /\ UNCHANGED <<agent, ledger, performed>>
      /\ \E ok \in BOOLEAN : Settle(1, ok)
  BY <1>1, <1>2 DEF SpawnFails
<1>4. Shifted /\ OpsOK' /\ LastAwaited' /\ Leftover'
  BY <1>1, <1>3, Settling
<1>5. Typed'
  BY SandboxAssumption, <1>1, <1>2, <1>3, <1>4 DEF Typed, ProcessState, Shifted
<1>6. Ending'
  <2>1. \A p \in Process : process'[p] # "term"
    BY <1>1, <1>2, <1>3 DEF Typed, Ending
  <2> QED BY <2>1 DEF Ending
<1>7. Counted'
  BY <1>3, <1>4 DEF Counted, Shifted
<1>8. SafeStep
  BY <1>2, <1>3, <1>4 DEF SafeStep, Typed, Shifted
<1> QED BY <1>4, <1>5, <1>6, <1>7, <1>8

\* An operation that changes nothing, or that waited for an exit that came.
LEMMA SettledStep ==
  ASSUME Inv, 1 \in 1..Len(queue), \E ok \in BOOLEAN : Settle(1, ok),
         UNCHANGED served,
         queue[1].at = "waiting" \/ process[queue[1].target] = "none"
  PROVE  Inv' /\ SafeStep
<1> USE DEF Inv
<1>1. /\ UNCHANGED <<agent, child, process, processError, ledger, performed>>
      /\ Len(queue) \in Nat
  BY DEF served, supervised, Typed
<1>2. Shifted /\ OpsOK' /\ LastAwaited' /\ Leftover'
  BY <1>1, Settling
<1>3. Typed'
  BY SandboxAssumption, <1>1, <1>2 DEF Typed, Shifted
<1>4. Ending'
  <2>1. \A p \in Process : process[p] # "term"
    BY DEF Ending
  <2> QED BY <1>1, <2>1 DEF Ending
<1>5. Counted'
  BY <1>1, <1>2 DEF Counted, Shifted
<1>6. SafeStep
  BY <1>1, <1>2 DEF SafeStep, Shifted
<1> QED BY <1>2, <1>3, <1>4, <1>5, <1>6

LEMMA StartedStep ==
  ASSUME Inv, 1 \in 1..Len(queue), StartChild(1), ~Running,
         queue[1].kind \in {"ensure", "execute"},
         UNCHANGED <<agent, performed>>,
         queue[1].kind = "ensure" => ledger' = ledger,
         queue[1].kind = "execute" => /\ queue[1].run \notin ledger
                                      /\ ledger' = ledger \cup {queue[1].run}
  PROVE  Inv' /\ SafeStep
<1> USE DEF Inv
<1>1. PICK p \in Process :
        /\ process[p] = "none" /\ process' = [process EXCEPT ![p] = "starting"]
        /\ child' = p /\ processError' = FALSE /\ Proceed(1, "spawning", p)
  BY DEF StartChild
<1>2. Advanced("spawning", p) /\ LastAwaited'
  BY <1>1, Proceeding
<1>3. /\ Len(queue) \in Nat /\ queue \in Seq(Operation) /\ child = NoProcess
      /\ \A q \in Process : process[q] = "none"
  <2>1. child = NoProcess
    BY DEF Typed, Running
  <2> QED BY SandboxAssumption, <2>1 DEF Typed
<1>4. queue[1].kind = "execute" => queue[1].run \in Run
  BY DEF OpsOK, OpOK
<1>5. Typed'
  <2>1. agent # "down" /\ ledger' \subseteq Run
    BY <1>3, <1>4 DEF Typed
  <2>2. /\ process' \in [Process -> ProcessState]
        /\ \A q \in Process : process'[q] # "none" <=> q = child'
    BY <1>1, <1>3 DEF Typed, ProcessState
  <2> QED BY <1>1, <1>2, <2>1, <2>2 DEF Typed, Advanced
<1>6. OpsOK'
  BY <1>1, <1>2, <1>3 DEF OpsOK, OpOK, Advanced, Typed
<1>7. Ending'
  BY <1>1, <1>3 DEF Ending, Typed
<1>8. Leftover'
  <2>1. ASSUME NEW j \in 1..Len(queue),
               client.at \in {"broken", "confirmed", "executing"}
        PROVE  queue[j].kind \notin {"stop", "ensure"}
    <3>1. CASE j = 1
      BY <2>1, <3>1 DEF Leftover
    <3>2. CASE j # 1
      BY <1>3, <2>1, <3>2 DEF Leftover
    <3> QED BY <3>1, <3>2
  <2> QED BY <1>2, <2>1 DEF Leftover, Advanced
<1>9. Counted'
  <2>1. performed' = performed /\ ledger \subseteq ledger'
    OBVIOUS
  <2>2. queue[1].kind = "execute" =>
          queue[1].run \in ledger' /\ performed[queue[1].run] = 0
    BY <1>4 DEF Counted
  <2>3. \A r \in Run : performed'[r] <= 1 /\ (r \notin ledger' => performed'[r] = 0)
    BY <2>1 DEF Counted
  <2>4. \A j \in 1..Len(queue') :
          queue'[j].kind = "execute" /\ queue'[j].at = "spawning"
            => queue'[j].run \in ledger' /\ performed'[queue'[j].run] = 0
    BY <1>2, <2>1, <2>2 DEF Advanced
  <2> QED BY <2>3, <2>4 DEF Counted
<1>10. SafeStep
  BY <1>1, <1>2, <1>3 DEF SafeStep, Typed, Advanced
<1> QED BY <1>2, <1>5, <1>6, <1>7, <1>8, <1>9, <1>10

LEMMA EnsureStep ==
  ASSUME Inv, NEW i \in DOMAIN queue, Ensure(i)
  PROVE  Inv' /\ SafeStep
<1>1. i = 1 /\ 1 \in 1..Len(queue) /\ queue[1].at = "waiting"
      /\ queue[1].kind = "ensure"
  BY First DEF Ensure, Starts, Inv
<1>2. CASE Running
  <2>1. Settle(1, Status = "running") /\ UNCHANGED served
    BY <1>1, <1>2 DEF Ensure, served
  <2> QED BY <1>1, <2>1, SettledStep
<1>3. CASE ~Running
  BY <1>1, <1>3, StartedStep DEF Ensure
<1> QED BY <1>2, <1>3

LEMMA ExecuteStep ==
  ASSUME Inv, NEW i \in DOMAIN queue, Execute(i)
  PROVE  Inv' /\ SafeStep
<1>1. i = 1 /\ 1 \in 1..Len(queue) /\ queue[1].at = "waiting"
      /\ queue[1].kind = "execute"
  BY First DEF Execute, Starts, Inv
<1>2. CASE MayExecute(queue[1].run)
  BY <1>1, <1>2, StartedStep DEF Execute, MayExecute
<1>3. CASE ~MayExecute(queue[1].run)
  <2>1. Settle(1, FALSE) /\ UNCHANGED served
    BY <1>1, <1>3 DEF Execute, served
  <2> QED BY <1>1, <2>1, SettledStep
<1> QED BY <1>2, <1>3

\* A stop that the coordinator does not wait for finds no process.
LEMMA StopStep ==
  ASSUME Inv, NEW i \in DOMAIN queue, Stop(i)
  PROVE  Inv' /\ SafeStep
<1> USE DEF Inv
<1>1. i = 1 /\ 1 \in 1..Len(queue) /\ queue[1].at = "waiting"
      /\ queue[1].kind \in {"stop", "shutdown"}
  BY First DEF Stop, Starts
<1>2. UNCHANGED <<agent, child, processError, ledger, performed>>
  BY DEF Stop
<1>3. CASE ~Running
  <2>1. Settle(1, FALSE) /\ UNCHANGED served
    BY <1>1, <1>2, <1>3 DEF Stop, served, supervised
  <2> QED BY <1>1, <2>1, SettledStep
<1>4. CASE Running
  <2>1. /\ process' = [process EXCEPT ![child] = "term"]
        /\ Proceed(1, "terminating", child)
    BY <1>1, <1>4 DEF Stop
  <2>2. child \in Process /\ Len(queue) \in Nat
    BY <1>4 DEF Running, Typed
  <2>3. Advanced("terminating", child) /\ LastAwaited'
    BY <1>1, <2>1, <2>2, Proceeding
  <2>4. Typed'
    <3>1. /\ process' \in [Process -> ProcessState]
          /\ \A q \in Process : process'[q] # "none" <=> q = child'
      BY <1>2, <2>1, <2>2 DEF Typed, ProcessState
    <3>2. agent # "down"
      BY <1>4, SandboxAssumption, <2>2 DEF Running, Typed
    <3> QED BY <1>2, <2>2, <2>3, <3>1, <3>2 DEF Typed, Advanced
  <2>5. OpsOK'
    BY <1>1, <1>2, <2>2, <2>3 DEF OpsOK, OpOK, Advanced
  <2>6. Ending'
    BY <1>1, <1>2, <2>1, <2>2, <2>3 DEF Ending, Advanced, Typed
  <2>7. Leftover'
    BY <1>2, <2>3 DEF Leftover, Advanced
  <2>8. Counted'
    BY <1>2, <2>3 DEF Counted, Advanced
  <2>9. SafeStep
    <3>1. client.at \in {"reset", "stopping", "dirty", "ensuring"}
          \/ agent = "stopping"
      <4>1. CASE queue[1].kind = "shutdown"
        BY <1>1, <4>1 DEF OpsOK, OpOK
      <4>2. CASE queue[1].kind = "stop"
        <5>1. client.at \notin {"idle", "check", "verify"}
          BY <1>1, <4>2 DEF Leftover
        <5>2. client.at \notin {"broken", "confirmed", "executing"}
          BY <1>1, <1>4, <4>2 DEF Leftover, Running
        <5>3. client.at \in ClientAt
          BY DEF Typed
        <5> QED BY <5>1, <5>2, <5>3 DEF ClientAt, Awaiting
      <4> QED BY <1>1, <4>1, <4>2
    <3>2. client' = client
      BY <2>3 DEF Advanced
    <3> QED BY <3>1, <3>2 DEF SafeStep
  <2> QED BY <2>3, <2>4, <2>5, <2>6, <2>7, <2>8, <2>9
<1> QED BY <1>3, <1>4

LEMMA StoppedStep ==
  ASSUME Inv, NEW i \in DOMAIN queue, Stopped(i)
  PROVE  Inv' /\ SafeStep
<1>1. i = 1 /\ 1 \in 1..Len(queue)
  BY First DEF Stopped, Inv
<1>2. /\ process[queue[1].target] = "none"
      /\ Settle(1, TRUE) /\ UNCHANGED served
  BY <1>1 DEF Stopped
<1> QED BY <1>1, <1>2, SettledStep

LEMMA GraceOverStep ==
  ASSUME Inv, NEW i \in DOMAIN queue, GraceOver(i)
  PROVE  Inv' /\ SafeStep
<1> USE DEF Inv
<1>1. /\ i = 1 /\ 1 \in 1..Len(queue)
      /\ queue[1].at \in {"terminating", "killing"}
  BY First DEF GraceOver
<1>2. /\ queue[1].target \in Process /\ Len(queue) \in Nat
  BY <1>1 DEF OpsOK, OpOK, Typed
<1>3. /\ queue[1].target = child /\ process[child] # "none" /\ child \in Process
      /\ UNCHANGED <<agent, child, processError, ledger, performed>>
  BY <1>1, <1>2 DEF GraceOver, Typed
<1>4. agent # "down"
  BY <1>3, SandboxAssumption DEF Typed
<1>5. CASE /\ process' = [process EXCEPT ![child] = "kill"]
           /\ Proceed(1, "killing", child)
  <2>1. Advanced("killing", child) /\ LastAwaited'
    BY <1>1, <1>3, <1>5, Proceeding
  <2>2. Typed'
    <3>1. /\ process' \in [Process -> ProcessState]
          /\ \A q \in Process : process'[q] # "none" <=> q = child'
      BY <1>3, <1>5 DEF Typed, ProcessState
    <3> QED BY <1>2, <1>3, <1>4, <2>1, <3>1 DEF Typed, Advanced
  <2>3. OpsOK'
    BY <1>1, <1>3, <2>1 DEF OpsOK, OpOK, Advanced
  <2>4. Ending'
    BY <1>3, <1>5 DEF Ending, Typed
  <2>5. Leftover'
    BY <1>3, <2>1 DEF Leftover, Advanced
  <2>6. Counted'
    BY <1>3, <2>1 DEF Counted, Advanced
  <2>7. SafeStep
    BY <1>3, <1>5, <2>1 DEF SafeStep, Advanced, Typed
  <2> QED BY <2>1, <2>2, <2>3, <2>4, <2>5, <2>6, <2>7
<1>6. CASE /\ process' = [process EXCEPT ![child] = "kept"]
           /\ Settle(1, FALSE)
  <2>1. Shifted /\ OpsOK' /\ LastAwaited' /\ Leftover'
    BY <1>1, <1>3, <1>6, Settling
  <2>2. Typed'
    <3>1. /\ process' \in [Process -> ProcessState]
          /\ \A q \in Process : process'[q] # "none" <=> q = child'
      BY <1>3, <1>6 DEF Typed, ProcessState
    <3> QED BY SandboxAssumption, <1>1, <1>2, <1>3, <1>4, <2>1, <3>1
            DEF Typed, Shifted
  <2>3. Ending'
    BY <1>3, <1>6 DEF Ending, Typed
  <2>4. Counted'
    BY <1>3, <2>1 DEF Counted, Shifted
  <2>5. SafeStep
    BY <1>3, <1>6, <2>1 DEF SafeStep, Shifted, Typed
  <2> QED BY <2>1, <2>2, <2>3, <2>4, <2>5
<1> QED BY <1>1, <1>3, <1>5, <1>6 DEF GraceOver

-----------------------------------------------------------------------------
(* The process and the container. *)

LEMMA ProcessExitsStep ==
  ASSUME Inv, NEW p \in Process, ProcessExits(p)
  PROVE  Inv' /\ SafeStep
<1> USE DEF Inv
<1>1. /\ p = child /\ process[p] \notin {"none", "starting"}
      /\ process' = [process EXCEPT ![p] = "none"] /\ child' = NoProcess
      /\ UNCHANGED <<agent, processError, queue, ledger, performed, client, begun>>
  BY DEF ProcessExits, asked, Typed
<1>2. Typed'
  <2>1. /\ process' \in [Process -> ProcessState]
        /\ \A q \in Process : process'[q] # "none" <=> q = child'
    BY SandboxAssumption, <1>1 DEF Typed, ProcessState
  <2> QED BY <1>1, <2>1 DEF Typed
<1>3. OpsOK'
  BY <1>1 DEF OpsOK, OpOK
<1>4. Ending'
  BY <1>1 DEF Ending, Typed
<1>5. LastAwaited' /\ Counted'
  BY <1>1 DEF LastAwaited, Counted
<1>6. Leftover'
  BY <1>1 DEF Leftover
<1>7. SafeStep
  BY <1>1 DEF SafeStep, Typed
<1> QED BY <1>2, <1>3, <1>4, <1>5, <1>6, <1>7

LEMMA LateErrorStep ==
  ASSUME Inv, LateError
  PROVE  Inv' /\ SafeStep
<1> USE DEF Inv
<1>1. processError' = TRUE
      /\ UNCHANGED <<agent, child, process, queue, ledger, performed, client, begun>>
  BY DEF LateError, asked
<1>2. Typed'
  BY <1>1 DEF Typed
<1>3. OpsOK' /\ Ending'
  BY <1>1 DEF OpsOK, OpOK, Ending
<1>4. LastAwaited' /\ Leftover' /\ Counted'
  BY <1>1 DEF LastAwaited, Leftover, Counted
<1>5. SafeStep
  BY <1>1 DEF SafeStep
<1> QED BY <1>2, <1>3, <1>4, <1>5

LEMMA AgentStartsStep ==
  ASSUME Inv, AgentStarts
  PROVE  Inv' /\ SafeStep
<1> USE DEF Inv
<1>1. PICK p \in Process :
        child' = p /\ process' = [process EXCEPT ![p] = "up"]
  BY DEF AgentStarts
<1>2. /\ agent = "down" /\ agent' = "listening"
      /\ UNCHANGED <<processError, queue, ledger, performed, client, begun>>
  BY DEF AgentStarts, asked
<1>3. queue = <<>> /\ queue' = <<>> /\ child = NoProcess /\ Len(queue') = 0
  BY <1>2 DEF Typed
<1>4. \A q \in Process : process[q] = "none"
  BY SandboxAssumption, <1>3 DEF Typed
<1>5. Typed'
  <2>1. /\ process' \in [Process -> ProcessState]
        /\ \A q \in Process : process'[q] # "none" <=> q = child'
    BY <1>1, <1>4 DEF Typed, ProcessState
  <2>2. 0 <= MaxOutstanding /\ 0 <= MaxOutstanding + 1
    BY SandboxAssumption
  <2> QED BY <1>1, <1>2, <1>3, <2>1, <2>2 DEF Typed
<1>6. Ending'
  BY <1>1, <1>4 DEF Ending, Typed
<1>7. OpsOK' /\ LastAwaited' /\ Leftover' /\ Counted'
  BY <1>2, <1>3 DEF OpsOK, LastAwaited, Leftover, Counted
<1>8. SafeStep
  BY <1>2, <1>4 DEF SafeStep
<1> QED BY <1>5, <1>6, <1>7, <1>8

\* There is no other shutdown in the queue of an agent that listens.
LEMMA AgentStopsStep ==
  ASSUME Inv, AgentStops
  PROVE  Inv' /\ SafeStep
<1> USE DEF Inv
<1> DEFINE e == [kind |-> "shutdown", run |-> NoRun, awaited |-> FALSE,
                 at |-> "waiting", target |-> NoProcess]
<1>1. /\ agent = "listening" /\ agent' = "stopping" /\ queue' = Append(queue, e)
      /\ UNCHANGED <<child, process, processError, ledger, performed, client, begun>>
  BY DEF AgentStops, supervised, asked
<1>2. /\ e \in Operation /\ e.kind = "shutdown" /\ ~e.awaited
      /\ e.at = "waiting"
  BY DEF Operation, Kind
<1> HIDE DEF e
<1>3. /\ queue' \in Seq(Operation) /\ Len(queue') = Len(queue) + 1
      /\ \A j \in 1..Len(queue) : queue'[j] = queue[j]
      /\ queue'[Len(queue) + 1] = e
      /\ Len(queue) \in Nat
  BY <1>1, <1>2, Appended DEF Typed
<1>4. \A j \in 1..Len(queue') : j \in 1..Len(queue) \/ queue'[j] = e
  BY <1>3
<1>5. Typed'
  BY SandboxAssumption, <1>1, <1>3 DEF Typed
<1>6. OpsOK'
  BY <1>1, <1>2, <1>3, <1>4 DEF OpsOK, OpOK
<1>7. Ending'
  BY <1>1, <1>3 DEF Ending
<1>8. LastAwaited'
  BY <1>1, <1>2, <1>3, <1>4 DEF LastAwaited
<1>9. Leftover'
  <2>1. ASSUME NEW j \in 1..Len(queue'), queue'[j].kind = "stop",
               client.at \in {"broken", "confirmed", "executing"}
        PROVE  /\ child = NoProcess
               /\ \A k \in 1..Len(queue') : k < j => queue'[k].kind # "execute"
    <3>1. j \in 1..Len(queue) /\ queue[j].kind = "stop"
      BY <2>1, <1>2, <1>3, <1>4
    <3>2. \A k \in 1..Len(queue') : k < j => k \in 1..Len(queue)
      BY <3>1, <1>3
    <3> QED BY <2>1, <3>1, <3>2, <1>3 DEF Leftover
  <2> QED BY <1>1, <1>2, <1>3, <1>4, <2>1 DEF Leftover
<1>10. Counted'
  BY <1>1, <1>2, <1>3, <1>4 DEF Counted
<1>11. SafeStep
  BY <1>1 DEF SafeStep
<1> QED BY <1>5, <1>6, <1>7, <1>8, <1>9, <1>10, <1>11

LEMMA AgentEndsStep ==
  ASSUME Inv, AgentEnds
  PROVE  Inv' /\ SafeStep
<1> USE DEF Inv
<1>1. /\ agent' = "down" /\ child' = NoProcess /\ processError' = FALSE
      /\ process' = [p \in Process |-> "none"]
      /\ queue' = <<>> /\ ledger' = {} /\ performed' = [r \in Run |-> 0]
      /\ client' = client /\ begun' = begun
  BY DEF AgentEnds, asked
<1>2. Len(queue') = 0 /\ queue' \in Seq(Operation)
  BY <1>1
<1>3. Typed'
  <2>1. /\ process' \in [Process -> ProcessState]
        /\ \A q \in Process : process'[q] # "none" <=> q = child'
    BY SandboxAssumption, <1>1 DEF ProcessState
  <2>2. 0 <= MaxOutstanding + 1
    BY SandboxAssumption
  <2>3. performed' \in [Run -> Nat] /\ ledger' \subseteq Run
    BY <1>1
  <2> QED BY <1>1, <1>2, <2>1, <2>2, <2>3 DEF Typed
<1>4. OpsOK' /\ LastAwaited' /\ Leftover'
  BY <1>2 DEF OpsOK, LastAwaited, Leftover
<1>5. Ending'
  BY <1>1 DEF Ending
<1>6. Counted'
  BY <1>1, <1>2 DEF Counted
<1>7. SafeStep
  BY <1>1 DEF SafeStep
<1> QED BY <1>3, <1>4, <1>5, <1>6, <1>7
-----------------------------------------------------------------------------
(* The coordinator. *)

\* The coordinator goes on; of the queue it changes at most what is awaited.
LEMMA Moving ==
  ASSUME Inv, UNCHANGED served, begun' \subseteq Run,
         client' \in [at : ClientAt, run : Run \cup {NoRun}],
         client'.at # "idle" => client'.run \in Run,
         queue' \in Seq(Operation), Len(queue') = Len(queue),
         \A j \in 1..Len(queue) :
           /\ queue'[j].kind = queue[j].kind /\ queue'[j].run = queue[j].run
           /\ queue'[j].at = queue[j].at /\ queue'[j].target = queue[j].target
           /\ ~queue'[j].awaited,
         Leftover'
  PROVE  Inv'
<1> USE DEF Inv
<1>1. UNCHANGED <<agent, child, process, processError, ledger, performed>>
  BY DEF served, supervised
<1>2. Len(queue) \in Nat
  BY DEF Typed
<1>3. Typed'
  <2>1. agent = "down" => Len(queue) = 0 /\ child = NoProcess
    BY DEF Typed
  <2>2. Len(queue') = 0 => queue' = <<>>
    BY EmptySeq
  <2> QED BY <1>1, <2>1, <2>2 DEF Typed
<1>4. OpsOK'
  BY <1>1 DEF OpsOK, OpOK
<1>5. Ending'
  BY <1>1, <1>2 DEF Ending
<1>6. LastAwaited' /\ Counted'
  BY <1>1 DEF LastAwaited, Counted
<1> QED BY <1>3, <1>4, <1>5, <1>6

\* The coordinator waits for nothing, and does not change the queue.
LEMMA Quiet ==
  ASSUME Inv, UNCHANGED served, UNCHANGED queue, begun' \subseteq Run,
         client.at \notin Awaiting,
         client' \in [at : ClientAt, run : Run \cup {NoRun}],
         client'.at # "idle" => client'.run \in Run,
         Leftover'
  PROVE  Inv'
<1>1. queue \in Seq(Operation)
  BY DEF Inv, Typed
<1>2. \A j \in 1..Len(queue) : ~queue[j].awaited
  BY DEF Inv, LastAwaited
<1> QED BY <1>1, <1>2, Moving

\* The place of the coordinator, after Goto.
LEMMA Going ==
  ASSUME Inv, NEW at \in ClientAt, Goto(at)
  PROVE  /\ client' \in [at : ClientAt, run : Run \cup {NoRun}]
         /\ client'.at = at /\ client'.run = client.run
         /\ begun' \subseteq Run
BY DEF Goto, Inv, Typed

LEMMA Sending ==
  ASSUME Inv, UNCHANGED served, NEW kind \in {"stop", "ensure", "execute"},
         NEW at \in Awaiting, Send(kind, at),
         client.at \notin Awaiting, client.at # "idle"
  PROVE  /\ Typed' /\ OpsOK' /\ Ending' /\ LastAwaited' /\ Counted'
         /\ Len(queue) \in Nat /\ Len(queue') = Len(queue) + 1
         /\ \A j \in 1..Len(queue) : queue'[j] = queue[j]
         /\ queue'[Len(queue) + 1].kind = kind
         /\ client'.at = at
<1> USE DEF Inv
<1> DEFINE e == [kind |-> kind, run |-> client.run, awaited |-> TRUE,
                 at |-> "waiting", target |-> NoProcess]
<1>1. /\ agent = "listening" /\ Len(queue) < MaxOutstanding
      /\ queue' = Append(queue, e) /\ Goto(at)
      /\ UNCHANGED <<agent, child, process, processError, ledger, performed>>
  BY DEF Send, served, supervised
<1>2. /\ client' \in [at : ClientAt, run : Run \cup {NoRun}]
      /\ client'.at = at /\ client'.run = client.run
      /\ begun' \subseteq Run
  BY <1>1, Going DEF ClientAt
<1>3. /\ e \in Operation /\ e.kind = kind /\ e.at = "waiting"
      /\ e.run \in Run
  BY DEF Operation, Kind, Typed
<1> HIDE DEF e
<1>4. /\ queue' \in Seq(Operation) /\ Len(queue') = Len(queue) + 1
      /\ \A j \in 1..Len(queue) : queue'[j] = queue[j]
      /\ queue'[Len(queue) + 1] = e
      /\ Len(queue) \in Nat
  BY <1>1, <1>3, Appended DEF Typed
<1>5. \A j \in 1..Len(queue') : j \in 1..Len(queue) \/ j = Len(queue) + 1
  BY <1>4
<1>6. Typed'
  BY SandboxAssumption, <1>1, <1>2, <1>3, <1>4 DEF Typed
<1>7. OpsOK'
  BY <1>1, <1>3, <1>4, <1>5 DEF OpsOK, OpOK
<1>8. Ending'
  BY <1>1, <1>4 DEF Ending
<1>9. LastAwaited'
  <2>1. \A j \in 1..Len(queue) : ~queue'[j].awaited
    BY <1>4 DEF LastAwaited
  <2> QED BY <1>2, <1>4, <1>5, <2>1 DEF LastAwaited
<1>10. Counted'
  BY <1>1, <1>3, <1>4, <1>5 DEF Counted
<1> QED BY <1>2, <1>3, <1>4, <1>6, <1>7, <1>8, <1>9, <1>10

LEMMA BeginStep ==
  ASSUME Inv, NEW r \in Run, Begin(r)
  PROVE  Inv' /\ SafeStep
<1>1. /\ client.at = "idle" /\ client' = [at |-> "reset", run |-> r]
      /\ begun' \subseteq Run /\ UNCHANGED served /\ queue' = queue
  BY DEF Begin, Inv, Typed
<1>2. Leftover'
  BY <1>1 DEF Inv, Leftover
<1>3. Inv'
  BY <1>1, <1>2, Quiet DEF ClientAt, Awaiting
<1>4. SafeStep
  BY <1>1 DEF SafeStep, served, supervised
<1> QED BY <1>3, <1>4

\* No process means that what is left of the queue stops nothing.
LEMMA ResetStep ==
  ASSUME Inv, Reset
  PROVE  Inv' /\ SafeStep
<1>1. /\ client.at = "reset" /\ UNCHANGED served
      /\ UNCHANGED <<process, child>>
  BY DEF Reset, served, supervised
<1>2. CASE Status = "running"
  <2>1. Send("stop", "stopping")
    BY <1>2 DEF Reset
  <2>2. /\ Typed' /\ OpsOK' /\ Ending' /\ LastAwaited' /\ Counted'
        /\ Len(queue) \in Nat /\ Len(queue') = Len(queue) + 1
        /\ \A j \in 1..Len(queue) : queue'[j] = queue[j]
        /\ queue'[Len(queue) + 1].kind = "stop"
        /\ client'.at = "stopping"
    BY <1>1, <2>1, Sending DEF Awaiting
  <2>3. Leftover'
    <3>1. \A j \in 1..Len(queue') : j \in 1..Len(queue) \/ j = Len(queue) + 1
      BY <2>2
    <3> QED BY <1>1, <2>2, <3>1 DEF Inv, Leftover
  <2> QED BY <1>1, <2>2, <2>3 DEF Inv, SafeStep
<1>3. CASE Status = "exited"
  <2>1. Goto("broken") /\ UNCHANGED queue
    BY <1>3 DEF Reset
  <2>2. /\ client' \in [at : ClientAt, run : Run \cup {NoRun}]
        /\ client'.at = "broken" /\ client'.run = client.run
        /\ begun' \subseteq Run
    BY <2>1, Going DEF ClientAt
  <2>3. child = NoProcess
    BY <1>3, SandboxAssumption DEF Status, Running, Inv, Typed
  <2>4. Leftover'
    BY <1>1, <2>1, <2>2, <2>3 DEF Inv, Leftover
  <2>5. client.run \in Run
    BY <1>1 DEF Inv, Typed
  <2>6. Inv'
    BY <1>1, <2>1, <2>2, <2>4, <2>5, Quiet DEF Awaiting
  <2> QED BY <1>1, <2>6 DEF SafeStep
<1>4. CASE Status = "error"
  <2>1. Goto("dirty") /\ UNCHANGED queue
    BY <1>4 DEF Reset
  <2>2. /\ client' \in [at : ClientAt, run : Run \cup {NoRun}]
        /\ client'.at = "dirty" /\ client'.run = client.run
        /\ begun' \subseteq Run
    BY <2>1, Going DEF ClientAt
  <2>3. Leftover'
    BY <2>2 DEF Leftover
  <2>4. client.run \in Run
    BY <1>1 DEF Inv, Typed
  <2>5. Inv'
    BY <1>1, <2>1, <2>2, <2>3, <2>4, Quiet DEF Awaiting
  <2> QED BY <1>1, <2>5 DEF SafeStep
<1> QED BY <1>2, <1>3, <1>4 DEF Status

\* From one place to another without a call, as long as the new place allows
\* no less in the queue than the old one.
LEMMA Staying ==
  ASSUME Inv, NEW from, NEW to \in ClientAt, client.at = from,
         UNCHANGED <<served, queue>>, Goto(to),
         <<from, to>> \in {<<"broken", "confirmed">>, <<"broken", "dirty">>,
                           <<"verify", "idle">>, <<"check", "idle">>,
                           <<"verify", "dirty">>, <<"check", "dirty">>}
  PROVE  Inv' /\ client'.at = to /\ UNCHANGED <<process, child>>
<1>1. /\ client' \in [at : ClientAt, run : Run \cup {NoRun}]
      /\ client'.at = to /\ client'.run = client.run
      /\ begun' \subseteq Run
  BY Going
<1>2. client.run \in Run /\ client.at \notin Awaiting
  BY DEF Inv, Typed, Awaiting
<1>3. UNCHANGED <<process, child>>
  BY DEF served, supervised
<1>4. Leftover'
  BY <1>1, <1>3 DEF Inv, Leftover
<1> QED BY <1>1, <1>2, <1>3, <1>4, Quiet

LEMMA ConfirmFailureStep ==
  ASSUME Inv, ConfirmFailure
  PROVE  Inv' /\ SafeStep
<1>1. /\ client.at = "broken" /\ UNCHANGED <<served, queue>>
      /\ Goto("confirmed") \/ Goto("dirty")
  BY DEF ConfirmFailure
<1>2. Inv' /\ UNCHANGED <<process, child>>
  BY <1>1, Staying DEF ClientAt
<1> QED BY <1>1, <1>2 DEF SafeStep

LEMMA RestartStep ==
  ASSUME Inv, Restart
  PROVE  Inv' /\ SafeStep
<1>1. /\ client.at = "confirmed" /\ Send("execute", "executing")
      /\ UNCHANGED served /\ UNCHANGED <<process, child>>
  BY DEF Restart, served, supervised
<1>2. /\ Typed' /\ OpsOK' /\ Ending' /\ LastAwaited' /\ Counted'
      /\ Len(queue) \in Nat /\ Len(queue') = Len(queue) + 1
      /\ \A j \in 1..Len(queue) : queue'[j] = queue[j]
      /\ queue'[Len(queue) + 1].kind = "execute"
      /\ client'.at = "executing"
  BY <1>1, Sending DEF Awaiting
<1>3. Leftover'
  <2>1. \A j \in 1..Len(queue') : j \in 1..Len(queue) \/ j = Len(queue) + 1
    BY <1>2
  <2>2. ASSUME NEW j \in 1..Len(queue'), queue'[j].kind = "stop"
        PROVE  /\ child' = NoProcess
               /\ \A k \in 1..Len(queue') : k < j => queue'[k].kind # "execute"
    <3>1. j \in 1..Len(queue)
      BY <1>2, <2>1, <2>2
    <3>2. \A k \in 1..Len(queue') : k < j => k \in 1..Len(queue)
      BY <1>2, <3>1
    <3> QED BY <1>1, <1>2, <2>2, <3>1, <3>2 DEF Inv, Leftover
  <2> QED BY <1>1, <1>2, <2>1, <2>2 DEF Inv, Leftover
<1> QED BY <1>1, <1>2, <1>3 DEF Inv, SafeStep

LEMMA RestoreStep ==
  ASSUME Inv, Restore
  PROVE  Inv' /\ SafeStep
<1>1. /\ client.at = "dirty" /\ Send("ensure", "ensuring")
      /\ UNCHANGED served /\ UNCHANGED <<process, child>>
  BY DEF Restore, served, supervised
<1>2. /\ Typed' /\ OpsOK' /\ Ending' /\ LastAwaited' /\ Counted'
      /\ client'.at = "ensuring"
  BY <1>1, Sending DEF Awaiting
<1>3. Leftover'
  BY <1>2 DEF Leftover
<1> QED BY <1>1, <1>2, <1>3 DEF Inv, SafeStep

\* A process on its way down has its stop at the head of the queue, where the
\* verification of an agent that listens finds nothing.
LEMMA VerifiedHealthyStep ==
  ASSUME Inv, VerifiedHealthy
  PROVE  Inv' /\ SafeStep
<1>1. /\ client.at \in {"verify", "check"} /\ Answering /\ Goto("idle")
      /\ UNCHANGED <<served, queue>>
  BY DEF VerifiedHealthy
<1>2. Inv' /\ UNCHANGED <<process, child>>
  BY <1>1, Staying DEF ClientAt
<1>3. process[child] = "up"
  <2>1. child \in Process /\ process[child] \in {"up", "term"} /\ agent = "listening"
    BY <1>1 DEF Answering, Running, Inv, Typed
  <2>2. SUFFICES ASSUME process[child] = "term" PROVE FALSE
    BY <2>1
  <2>3. Len(queue) \in Nat /\ Len(queue) > 0
    BY <2>1, <2>2 DEF Inv, Typed, Ending
  <2>4. 1 \in 1..Len(queue)
    BY <2>3
  <2>5. queue[1].kind = "shutdown"
    BY <1>1, <2>4 DEF Inv, Leftover
  <2> QED BY <2>1, <2>4, <2>5 DEF Inv, OpsOK, OpOK
<1> QED BY <1>2, <1>3 DEF SafeStep

LEMMA NotHealthyStep ==
  ASSUME Inv, NotHealthy
  PROVE  Inv' /\ SafeStep
<1>1. /\ client.at \in {"verify", "check"} /\ Goto("dirty")
      /\ UNCHANGED <<served, queue>>
  BY DEF NotHealthy
<1>2. Inv' /\ client'.at = "dirty" /\ UNCHANGED <<process, child>>
  BY <1>1, Staying DEF ClientAt
<1> QED BY <1>2 DEF SafeStep

\* What was given up or was called before a restart stays in the queue.
LEMMA Abandoning ==
  ASSUME Inv, Abandon, UNCHANGED served, NEW to \in ClientAt, Goto(to),
         client.at # "idle",
         \/ to = "dirty"
         \/ client.at = "stopping" /\ to = "reset"
         \/ client.at = "executing" /\ to = "confirmed"
  PROVE  Inv' /\ SafeStep
<1>1. /\ client' \in [at : ClientAt, run : Run \cup {NoRun}]
      /\ client'.at = to /\ client'.run = client.run
      /\ begun' \subseteq Run
  BY Going
<1>2. /\ client.run \in Run /\ queue \in Seq(Operation)
      /\ UNCHANGED <<process, child>>
  BY DEF Inv, Typed, served, supervised
<1>3. /\ queue' \in Seq(Operation) /\ Len(queue') = Len(queue)
      /\ \A j \in 1..Len(queue) :
           /\ queue'[j].kind = queue[j].kind /\ queue'[j].run = queue[j].run
           /\ queue'[j].at = queue[j].at /\ queue'[j].target = queue[j].target
           /\ ~queue'[j].awaited
  BY <1>2, Abandoned DEF Abandon
<1>4. Leftover'
  BY <1>1, <1>2, <1>3 DEF Inv, Leftover
<1>5. Inv'
  BY <1>1, <1>2, <1>3, <1>4, Moving
<1>6. SafeStep
  BY <1>1, <1>2 DEF SafeStep
<1> QED BY <1>5, <1>6

LEMMA LostStep ==
  ASSUME Inv, NEW i \in DOMAIN queue, Lost(i)
  PROVE  Inv' /\ SafeStep
<1> USE DEF Inv
<1>1. /\ i \in 1..Len(queue) /\ queue \in Seq(Operation) /\ Len(queue) \in Nat
  BY DEF Typed
<1>2. /\ queue' = RemoveAt(queue, i) /\ queue[i].at = "waiting"
      /\ UNCHANGED <<agent, child, process, processError, ledger, performed,
                     client, begun>>
  BY DEF Lost, served, supervised, asked
<1> DEFINE old(j) == IF j < i THEN j ELSE j + 1
<1>3. /\ queue' \in Seq(Operation) /\ Len(queue') = Len(queue) - 1
      /\ \A j \in 1..Len(queue') :
           old(j) \in 1..Len(queue) /\ queue'[j] = queue[old(j)]
  <2>1. /\ queue' \in Seq(Operation) /\ Len(queue') = Len(queue) - 1
        /\ \A j \in 1..Len(queue) - 1 :
             queue'[j] = IF j < i THEN queue[j] ELSE queue[j + 1]
    BY <1>1, <1>2, Removed
  <2> QED BY <1>1, <2>1
<1>4. \A j, k \in 1..Len(queue') : j > k => old(j) > old(k)
  BY <1>1, <1>3
<1>5. \A j \in 1..Len(queue') : queue[old(j)].at # "waiting" => j = 1 /\ old(j) = 1
  <2>1. ASSUME NEW j \in 1..Len(queue'), queue[old(j)].at # "waiting"
        PROVE  j = 1 /\ old(j) = 1
    <3>1. old(j) \in 1..Len(queue)
      BY <1>3
    <3>2. old(j) = 1
      BY <2>1, <3>1 DEF OpsOK, OpOK
    <3> QED BY <1>1, <1>3, <3>2
  <2> QED BY <2>1
<1> HIDE DEF old
<1>6. Typed'
  <2>1. agent = "down" => FALSE
    BY <1>1 DEF Typed
  <2> QED BY SandboxAssumption, <1>1, <1>2, <1>3, <2>1 DEF Typed
<1>7. OpsOK'
  BY <1>2, <1>3, <1>5 DEF OpsOK, OpOK
<1>8. Ending'
  <2>1. ASSUME NEW p \in Process, process[p] = "term"
        PROVE  /\ Len(queue') > 0 /\ queue'[1] = queue[1]
    <3>1. queue[1].at = "terminating"
      BY <2>1 DEF Ending
    <3>2. i > 1
      BY <1>1, <1>2, <3>1
    <3>3. 1 \in 1..Len(queue') /\ Len(queue') > 0
      BY <1>1, <1>3, <3>2
    <3>4. old(1) = 1
      BY <3>2 DEF old
    <3> QED BY <1>3, <3>3, <3>4
  <2> QED BY <1>2, <2>1 DEF Ending
<1>9. LastAwaited'
  BY <1>2, <1>3, <1>4 DEF LastAwaited
<1>10. Leftover'
  <2>1. ASSUME NEW j \in 1..Len(queue'), queue'[j].kind = "stop",
               client.at \in {"broken", "confirmed", "executing"}
        PROVE  /\ child = NoProcess
               /\ \A k \in 1..Len(queue') : k < j => queue'[k].kind # "execute"
    <3>1. old(j) \in 1..Len(queue) /\ queue[old(j)].kind = "stop"
      BY <1>3, <2>1
    <3>2. ASSUME NEW k \in 1..Len(queue'), k < j
          PROVE  queue'[k].kind # "execute"
      <4>1. old(k) \in 1..Len(queue) /\ old(k) < old(j)
        BY <1>3, <1>4, <3>2, <3>1
      <4> QED BY <1>3, <2>1, <3>1, <4>1 DEF Leftover
    <3> QED BY <2>1, <3>1, <3>2 DEF Leftover
  <2> QED BY <1>2, <1>3, <2>1 DEF Leftover
<1>11. Counted'
  BY <1>2, <1>3 DEF Counted
<1>12. SafeStep
  BY <1>2 DEF SafeStep
<1> QED BY <1>6, <1>7, <1>8, <1>9, <1>10, <1>11, <1>12
-----------------------------------------------------------------------------
(* What was left behind belongs to the run that left it. *)

\* Where a restart may be performed, awaited or not.
MayRestart == {"confirmed", "executing", "dirty", "ensuring"}

\* A restart in the queue is one of the run under way or being cleaned up after.
Owned ==
  \A i \in 1..Len(queue) :
    queue[i].kind = "execute" => queue[i].run = client.run /\ client.at \in MayRestart

\* The restarts in the queue were there before, for the same runs.
NoneNew ==
  \A j \in 1..Len(queue') : queue'[j].kind = "execute" =>
    \E k \in 1..Len(queue) : queue[k].kind = "execute" /\ queue[k].run = queue'[j].run

\* The coordinator stays with its run, and none comes to be broken but by a
\* stop, before which no restart is called.
SameRun ==
  /\ client'.run = client.run
  /\ client'.at = "broken" => client.at \in {"broken", "reset", "stopping"}

LEMMA StillOwned ==
  ASSUME Inv, Inv', Owned, NoneNew, SameRun PROVE Owned'
<1> SUFFICES ASSUME NEW j \in 1..Len(queue'), queue'[j].kind = "execute"
             PROVE  queue'[j].run = client'.run /\ client'.at \in MayRestart
  BY DEF Owned
<1>1. PICK k \in 1..Len(queue) :
        queue[k].kind = "execute" /\ queue[k].run = queue'[j].run
  BY DEF NoneNew
<1>2. client'.at \notin {"idle", "check", "verify", "reset", "stopping"}
  BY DEF Inv, Leftover
<1>3. client.at \notin {"broken", "reset", "stopping"}
  BY <1>1 DEF Owned, MayRestart
<1>4. client'.at \in ClientAt
  BY DEF Inv, Typed
<1>5. client'.at \in MayRestart
  BY <1>2, <1>3, <1>4 DEF SameRun, ClientAt, Awaiting, MayRestart
<1> QED BY <1>1, <1>5 DEF Owned, SameRun

LEMMA SettlingOwned ==
  ASSUME Inv, NEW i \in DOMAIN queue, NEW ok \in BOOLEAN, Settle(i, ok)
  PROVE  NoneNew /\ SameRun
<1>1. queue \in Seq(Operation) /\ Len(queue) \in Nat /\ i \in 1..Len(queue)
  BY DEF Inv, Typed
<1>2. /\ Len(queue') = Len(queue) - 1
      /\ \A j \in 1..Len(queue) - 1 :
           queue'[j] = IF j < i THEN queue[j] ELSE queue[j + 1]
  BY <1>1, Removed DEF Settle
<1>3. ASSUME NEW j \in 1..Len(queue')
      PROVE  \E k \in 1..Len(queue) : queue'[j] = queue[k]
  <2>1. j \in 1..Len(queue) /\ j + 1 \in 1..Len(queue)
    BY <1>1, <1>2
  <2> QED BY <1>2, <2>1
<1>4. NoneNew
  BY <1>3 DEF NoneNew
<1>5. CASE ~queue[i].awaited
  BY <1>4, <1>5 DEF Settle, SameRun
<1>6. CASE queue[i].awaited
  <2>1. client' = [client EXCEPT !.at = Reply(@, ok)] /\ client.at \in Awaiting
    BY <1>1, <1>6 DEF Settle, Inv, LastAwaited
  <2>2. client'.run = client.run /\ client'.at = Reply(client.at, ok)
    BY <2>1 DEF Inv, Typed
  <2>3. Reply(client.at, ok) = "broken" => client.at = "stopping"
    BY <2>1 DEF Reply, Awaiting
  <2> QED BY <1>4, <2>2, <2>3 DEF SameRun
<1> QED BY <1>5, <1>6

LEMMA ProceedingOwned ==
  ASSUME Inv, NEW i \in DOMAIN queue, NEW at, NEW target, Proceed(i, at, target)
  PROVE  NoneNew /\ SameRun
<1>1. queue \in Seq(Operation) /\ Len(queue) \in Nat /\ DOMAIN queue = 1..Len(queue)
  BY DEF Inv, Typed
<1> DEFINE e == [queue[i] EXCEPT !.at = at, !.target = target]
<1>2. e.kind = queue[i].kind /\ e.run = queue[i].run
  <2>1. queue[i] \in Operation
    BY <1>1
  <2> QED BY <2>1 DEF Operation
<1>3. queue' = [queue EXCEPT ![i] = e] /\ client' = client
  BY DEF Proceed, asked
<1> HIDE DEF e
<1>4. Len(queue') = Len(queue)
  BY <1>1, <1>3
<1>5. \A j \in 1..Len(queue) :
        queue'[j].kind = queue[j].kind /\ queue'[j].run = queue[j].run
  BY <1>1, <1>2, <1>3
<1> QED BY <1>3, <1>4, <1>5 DEF NoneNew, SameRun

\* The manager takes from the queue, or goes on with what is in it.
LEMMA ManagerOwned == ASSUME Inv, ManagerStep PROVE NoneNew /\ SameRun
<1>1. PICK i \in DOMAIN queue :
        \/ Spawned(i) \/ SpawnFails(i) \/ Ensure(i) \/ Execute(i)
        \/ Stop(i) \/ Stopped(i) \/ GraceOver(i)
  BY DEF ManagerStep
<1>2. \/ \E ok \in BOOLEAN : Settle(i, ok)
      \/ \E at, target : Proceed(i, at, target)
  <2>1. CASE Spawned(i) \/ SpawnFails(i) \/ Stopped(i)
    BY <2>1 DEF Spawned, SpawnFails, Stopped
  <2>2. CASE Ensure(i)
    BY <2>2 DEF Ensure, StartChild
  <2>3. CASE Execute(i)
    BY <2>3 DEF Execute, StartChild
  <2>4. CASE Stop(i)
    BY <2>4 DEF Stop
  <2>5. CASE GraceOver(i)
    BY <2>5 DEF GraceOver
  <2> QED BY <1>1, <2>1, <2>2, <2>3, <2>4, <2>5
<1> QED BY <1>2, SettlingOwned, ProceedingOwned

\* The container adds a shutdown at most.
LEMMA ContainerOwned == ASSUME Inv, ContainerStep PROVE NoneNew /\ SameRun
<1>1. client' = client
  BY DEF ContainerStep, ProcessExits, LateError, AgentStarts, AgentStops,
         AgentEnds, asked
<1>2. CASE AgentStops
  <2> DEFINE e == [kind |-> "shutdown", run |-> NoRun, awaited |-> FALSE,
                   at |-> "waiting", target |-> NoProcess]
  <2>1. e \in Operation /\ e.kind = "shutdown" /\ queue' = Append(queue, e)
    BY <1>2 DEF AgentStops, Operation, Kind
  <2> HIDE DEF e
  <2>2. /\ Len(queue') = Len(queue) + 1 /\ Len(queue) \in Nat
        /\ \A j \in 1..Len(queue) : queue'[j] = queue[j]
        /\ queue'[Len(queue) + 1] = e
    BY <2>1, Appended DEF Inv, Typed
  <2>3. \A j \in 1..Len(queue') : j \in 1..Len(queue) \/ j = Len(queue) + 1
    BY <2>2
  <2> QED BY <1>1, <2>1, <2>2, <2>3 DEF NoneNew, SameRun
<1>3. CASE AgentEnds
  BY <1>1, <1>3 DEF AgentEnds, NoneNew, SameRun
<1>4. CASE queue' = queue
  BY <1>1, <1>4 DEF NoneNew, SameRun
<1> QED BY <1>2, <1>3, <1>4
        DEF ContainerStep, ProcessExits, LateError, AgentStarts

\* A call is made for the run under way; only Restart calls for a restart, when
\* the service was seen broken.
LEMMA SendingOwned ==
  ASSUME Inv, NEW kind \in {"stop", "ensure", "execute"}, NEW at \in ClientAt,
         Send(kind, at)
  PROVE  /\ client'.run = client.run /\ client'.at = at
         /\ \A j \in 1..Len(queue') :
              \/ j \in 1..Len(queue) /\ queue'[j] = queue[j]
              \/ queue'[j].kind = kind /\ queue'[j].run = client.run
<1> DEFINE e == [kind |-> kind, run |-> client.run, awaited |-> TRUE,
                 at |-> "waiting", target |-> NoProcess]
<1>1. queue' = Append(queue, e) /\ client' = [client EXCEPT !.at = at]
  BY DEF Send, Goto
<1>2. client \in [at : ClientAt, run : Run \cup {NoRun}]
  BY DEF Inv, Typed
<1>3. e \in Operation /\ e.kind = kind /\ e.run = client.run
  BY <1>2 DEF Operation, Kind
<1> HIDE DEF e
<1>4. /\ Len(queue') = Len(queue) + 1 /\ Len(queue) \in Nat
      /\ \A j \in 1..Len(queue) : queue'[j] = queue[j]
      /\ queue'[Len(queue) + 1] = e
  BY <1>1, <1>3, Appended DEF Inv, Typed
<1>5. \A j \in 1..Len(queue') : j \in 1..Len(queue) \/ j = Len(queue) + 1
  BY <1>4
<1> QED BY <1>1, <1>2, <1>3, <1>4, <1>5

LEMMA ClientOwned ==
  ASSUME Inv, Inv', Owned, ClientStep PROVE Owned'
<1>1. ASSUME NEW r \in Run, Begin(r) PROVE Owned'
  <2>1. client.at = "idle" /\ queue' = queue
    BY <1>1 DEF Begin
  <2>2. \A j \in 1..Len(queue) : queue[j].kind = "shutdown"
    BY <2>1 DEF Inv, Leftover
  <2> QED BY <2>1, <2>2 DEF Owned
<1>2. ASSUME NEW at, Goto(at), NoneNew,
             at = "broken" => client.at \in {"broken", "reset", "stopping"}
      PROVE  Owned'
  <2>1. client'.run = client.run /\ client'.at = at
    BY <1>2 DEF Goto, Inv, Typed
  <2> QED BY <1>2, <2>1, StillOwned DEF SameRun
<1>3. queue' = queue => NoneNew
  BY DEF NoneNew
<1>4. Abandon => NoneNew
  BY Abandoned DEF Abandon, NoneNew, Inv, Typed
<1>5. ASSUME NEW kind \in {"stop", "ensure"}, NEW at \in Awaiting, Send(kind, at)
      PROVE  Owned'
  <2>1. at \in ClientAt /\ at # "broken"
    BY DEF ClientAt, Awaiting
  <2>2. NoneNew /\ SameRun
    BY <1>5, <2>1, SendingOwned DEF NoneNew, SameRun
  <2> QED BY <2>2, StillOwned
<1>6. CASE Reset
  <2>1. client.at = "reset"
    BY <1>6 DEF Reset
  <2>2. \/ Send("stop", "stopping")
        \/ \E at \in {"broken", "dirty"} : Goto(at) /\ queue' = queue
    BY <1>6 DEF Reset, Status
  <2> QED BY <1>2, <1>3, <1>5, <2>1, <2>2 DEF Awaiting
<1>7. CASE Restart
  <2>1. Send("execute", "executing") /\ "executing" \in ClientAt
    BY <1>7 DEF Restart, ClientAt, Awaiting
  <2>2. /\ client'.run = client.run /\ client'.at = "executing"
        /\ \A j \in 1..Len(queue') :
             \/ j \in 1..Len(queue) /\ queue'[j] = queue[j]
             \/ queue'[j].run = client.run
    BY <2>1, SendingOwned
  <2> QED BY <2>2 DEF Owned, MayRestart
<1>8. CASE Restore
  BY <1>5, <1>8 DEF Restore, Awaiting
<1>9. CASE ConfirmFailure \/ VerifiedHealthy \/ NotHealthy
  BY <1>2, <1>3, <1>9 DEF ConfirmFailure, VerifiedHealthy, NotHealthy
<1>10. CASE GivesUp \/ ClientRestarts
  BY <1>2, <1>4, <1>10 DEF GivesUp, ClientRestarts
<1>11. ASSUME NEW i \in DOMAIN queue, Lost(i) PROVE Owned'
  <2>1. queue \in Seq(Operation) /\ Len(queue) \in Nat /\ i \in 1..Len(queue)
    BY DEF Inv, Typed
  <2>2. /\ Len(queue') = Len(queue) - 1 /\ client' = client
        /\ \A j \in 1..Len(queue) - 1 :
             queue'[j] = IF j < i THEN queue[j] ELSE queue[j + 1]
    BY <1>11, <2>1, Removed DEF Lost, asked
  <2>3. ASSUME NEW j \in 1..Len(queue')
        PROVE  \E k \in 1..Len(queue) : queue'[j] = queue[k]
    <3>1. j \in 1..Len(queue) /\ j + 1 \in 1..Len(queue)
      BY <2>1, <2>2
    <3> QED BY <2>2, <3>1
  <2>4. NoneNew /\ SameRun
    BY <2>2, <2>3 DEF NoneNew, SameRun
  <2> QED BY <2>4, StillOwned
<1> QED BY <1>1, <1>6, <1>7, <1>8, <1>9, <1>10, <1>11 DEF ClientStep

LEMMA NextOwned ==
  ASSUME Inv, Inv', Owned, [Next]_vars PROVE Owned'
<1>1. CASE ManagerStep
  BY <1>1, ManagerOwned, StillOwned
<1>2. CASE ContainerStep
  BY <1>2, ContainerOwned, StillOwned
<1>3. CASE ClientStep
  BY <1>3, ClientOwned
<1>4. CASE UNCHANGED vars
  BY <1>4 DEF vars, Owned
<1> QED BY <1>1, <1>2, <1>3, <1>4 DEF Next

\* A restart that is performed was in the queue.
LEMMA PerformedWasOwned ==
  ASSUME Inv, Owned, [Next]_vars, NEW r \in Run, performed'[r] > performed[r]
  PROVE  client.run = r /\ client.at \in MayRestart
<1>1. performed[r] \in Nat /\ ~(performed[r] > performed[r]) /\ ~(0 > performed[r])
  BY DEF Inv, Typed
<1>2. performed' # performed /\ performed' # [q \in Run |-> 0]
  BY <1>1
<1>3. ManagerStep
  BY <1>2 DEF Next, ContainerStep, ProcessExits, LateError, AgentStarts,
              AgentStops, AgentEnds, ClientStep, Begin, Reset, ConfirmFailure,
              Restart, Restore, VerifiedHealthy, NotHealthy, GivesUp,
              ClientRestarts, Lost, served, vars
<1>4. PICK i \in DOMAIN queue : Spawned(i)
  BY <1>2, <1>3 DEF ManagerStep, SpawnFails, Ensure, Execute, Stop, Stopped,
                    GraceOver, served
<1>5. /\ queue[i].kind = "execute"
      /\ performed' = [performed EXCEPT ![queue[i].run] = @ + 1]
  BY <1>2, <1>4 DEF Spawned
<1>6. queue[i].run = r
  BY <1>1, <1>5 DEF Inv, Typed
<1>7. i \in 1..Len(queue)
  BY DEF Inv, Typed
<1> QED BY <1>5, <1>6, <1>7 DEF Owned

-----------------------------------------------------------------------------
(* The theorems. *)

LEMMA InitInv == Init => Inv
<1> SUFFICES ASSUME Init PROVE Inv
  OBVIOUS
<1>1. Len(queue) = 0 /\ queue \in Seq(Operation)
  BY DEF Init
<1>2. Typed
  <2>1. 0 <= MaxOutstanding + 1
    BY SandboxAssumption
  <2>2. client \in [at : ClientAt, run : Run \cup {NoRun}] /\ client.at = "idle"
    BY DEF Init, ClientAt
  <2> QED BY SandboxAssumption, <1>1, <2>1, <2>2 DEF Init, Typed, ProcessState
<1>3. OpsOK /\ LastAwaited /\ Leftover
  BY <1>1 DEF OpsOK, LastAwaited, Leftover
<1>4. Ending /\ Counted
  BY <1>1 DEF Init, Ending, Counted
<1> QED BY <1>2, <1>3, <1>4 DEF Inv

LEMMA NextInv == Inv /\ [Next]_vars => Inv' /\ SafeStep
<1> SUFFICES ASSUME Inv, [Next]_vars PROVE Inv' /\ SafeStep
  OBVIOUS
<1>1. CASE ManagerStep
  BY <1>1, SpawnedStep, SpawnFailsStep, EnsureStep, ExecuteStep, StopStep,
     StoppedStep, GraceOverStep DEF ManagerStep
<1>2. CASE ContainerStep
  BY <1>2, ProcessExitsStep, LateErrorStep, AgentStartsStep, AgentStopsStep,
     AgentEndsStep DEF ContainerStep
<1>3. CASE ClientStep
  <2>1. ASSUME NEW r \in Run, Begin(r) PROVE Inv' /\ SafeStep
    BY <2>1, BeginStep
  <2>2. CASE Reset
    BY <2>2, ResetStep
  <2>3. CASE ConfirmFailure
    BY <2>3, ConfirmFailureStep
  <2>4. CASE Restart
    BY <2>4, RestartStep
  <2>5. CASE Restore
    BY <2>5, RestoreStep
  <2>6. CASE VerifiedHealthy
    BY <2>6, VerifiedHealthyStep
  <2>7. CASE NotHealthy
    BY <2>7, NotHealthyStep
  <2>8. CASE GivesUp
    <3>1. /\ client.at # "idle" /\ Abandon /\ Goto("dirty") /\ UNCHANGED served
          /\ "dirty" \in ClientAt
      BY <2>8 DEF GivesUp, ClientAt
    <3> QED BY <3>1, Abandoning
  <2>9. CASE ClientRestarts
    <3>1. Abandon /\ UNCHANGED served
      BY <2>9 DEF ClientRestarts
    <3>2. CASE client.at = "stopping" /\ Goto("reset")
      BY <3>1, <3>2, Abandoning DEF ClientAt
    <3>3. CASE client.at = "executing" /\ Goto("confirmed")
      BY <3>1, <3>3, Abandoning DEF ClientAt
    <3> QED BY <2>9, <3>2, <3>3 DEF ClientRestarts
  <2>10. ASSUME NEW i \in DOMAIN queue, Lost(i) PROVE Inv' /\ SafeStep
    BY <2>10, LostStep
  <2> QED BY <1>3, <2>1, <2>2, <2>3, <2>4, <2>5, <2>6, <2>7, <2>8, <2>9, <2>10
          DEF ClientStep
<1>4. CASE UNCHANGED vars
  <2>1. UNCHANGED <<agent, child, process, processError, queue, ledger,
                    performed, client, begun>>
    BY <1>4 DEF vars
  <2>2. Typed' /\ OpsOK' /\ Ending'
    BY <2>1 DEF Inv, Typed, OpsOK, OpOK, Ending
  <2>3. LastAwaited' /\ Leftover' /\ Counted'
    BY <2>1 DEF Inv, LastAwaited, Leftover, Counted
  <2> QED BY <2>1, <2>2, <2>3 DEF Inv, SafeStep
<1> QED BY <1>1, <1>2, <1>3, <1>4 DEF Next

\* The queue, the process under supervision and the place of the coordinator
\* always fit together as Inv says, whatever is lost, given up or restarted.
THEOREM SandboxSound == Spec => []Inv
<1>1. Inv /\ [Next]_vars => Inv'
  BY NextInv
<1> QED BY InitInv, <1>1, PTL DEF Spec

\* The manager never has two processes, and its queue is bounded.
THEOREM SandboxTypes == Spec => []TypeOK
<1>1. Inv => TypeOK
  BY DEF Inv, Typed, TypeOK
<1> QED BY <1>1, SandboxSound, PTL

\* executionLedger: a restart that is sent again is not performed again.
THEOREM PerformedAtMostOnce == Spec => []PerformedOnce
<1>1. Inv => PerformedOnce
  BY DEF Inv, Counted, PerformedOnce
<1> QED BY <1>1, SandboxSound, PTL

\* stopDemoServiceInternal: a stop that outlived its call, however late it is
\* served, does not take a restarted or a restored service down.
THEOREM NoStopStrays == Spec => NoStrayStop
<1>1. Inv /\ [Next]_vars
        => [\A p \in Process :
              process[p] = "up" /\ process'[p] = "term"
                => agent = "stopping"
                   \/ client.at \in {"reset", "stopping", "dirty", "ensuring"}]_vars
  BY NextInv DEF SafeStep
<1> QED BY <1>1, SandboxSound, PTL DEF Spec, NoStrayStop

\* A run that was resolved, or an environment that was restored, rests on a
\* process that nobody has told to exit.
THEOREM RecoveredStays == Spec => RecoveredIsNotEnding
<1>1. Inv /\ [Next]_vars
        => [client.at \in {"verify", "check"} /\ client'.at = "idle"
              => process[child] = "up"]_vars
  BY NextInv DEF SafeStep
<1> QED BY <1>1, SandboxSound, PTL DEF Spec, RecoveredIsNotEnding

\* runMutation: a restart that was given up or left behind is performed before
\* the restoration behind it in the queue is answered, and never in a later run.
THEOREM LateRestartsAreContained == Spec => LateRestartContained
<1>1. Init => Owned
  BY DEF Init, Owned
<1>2. Inv /\ Inv' /\ Owned /\ [Next]_vars => Owned'
  BY NextOwned
<1>3. Inv /\ Owned /\ [Next]_vars
        => [\A r \in Run : performed'[r] > performed[r] =>
              /\ client.run = r
              /\ client.at \in {"confirmed", "executing", "dirty", "ensuring"}]_vars
  BY PerformedWasOwned DEF MayRestart
<1> QED BY <1>1, <1>2, <1>3, SandboxSound, PTL DEF Spec, LateRestartContained

=============================================================================
