----------------------------- MODULE Enrollment -----------------------------
(***************************************************************************)
(* How a server becomes somebody's runner, and the rate limits in front of *)
(* it: createEnrollment, pairRunner, revoke and the first half of          *)
(* recordHeartbeat (convex/runners.ts), the pairing route, and pair.ts on  *)
(* the machine.                                                            *)
(*                                                                         *)
(* An owner asks for a code and types it on the machine, which sends it    *)
(* once.  The answer carries a credential the server keeps only a digest   *)
(* of: when it is lost the runner exists and nobody can speak for it.      *)
(*                                                                         *)
(* Every mutation is one transaction.  Time is kept as what is left of     *)
(* each window; a window with nothing left has expired.                    *)
(***************************************************************************)
EXTENDS Integers, FiniteSets

CONSTANTS
  Owner,         \* signed-in users
  Code,          \* pairing codes, each drawn at random once
  Runner,        \* runner ids, drawn by the pairing route
  Machine,       \* Linux servers
  Address,       \* digests of client addresses
  None,          \* no owner, no code, no runner
  PairLimit,     \* PAIR_ATTEMPT_LIMIT
  AddressLimit,  \* HEARTBEAT_IP_LIMIT
  RunnerLimit,   \* HEARTBEAT_RUNNER_LIMIT, HEARTBEAT_INVALID_RUNNER_LIMIT
  MaxBuckets,    \* MAX_RUNNER_RATE_LIMIT_BUCKETS
  CleanupBatch,  \* the rows one cleaning may delete
  Window,        \* RATE_LIMIT_WINDOW_MS
  InviteWindow,  \* RUNNER_PAIRING_WINDOW_MS
  MaxDenied      \* bound on the refusals for want of room

ASSUME NoneAssumption == None \notin Owner \cup Code \cup Runner
ASSUME BucketAssumption ==
  /\ IsFiniteSet(Address) /\ IsFiniteSet(Runner)
  /\ MaxBuckets \in Nat \ {0} /\ CleanupBatch \in Nat \ {0}
ASSUME WindowAssumption == Window \in Nat \ {0} /\ InviteWindow \in Nat \ {0}
ASSUME LimitAssumption ==
  /\ PairLimit \in Nat \ {0} /\ AddressLimit \in Nat \ {0}
  /\ RunnerLimit \in Nat \ {0} /\ MaxDenied \in Nat

VARIABLES
  invite,    \* runnerPairingInvites, by code
  runner,    \* registeredRunners, by id
  limits,    \* runnerRateLimitBuckets, and the counter kept beside them
  reply,     \* the credential on its way back to a machine
  config     \* the credential a machine has saved

vars == <<invite, runner, limits, reply, config>>

NoInvite == [owner |-> None, state |-> "none", left |-> 0]
NoRunner == [owner |-> None, code |-> None, status |-> "none"]

\* The bucket keys: one for pairing and one for heartbeats per address, one
\* for right and one for wrong credentials per runner.
Key == ({"pair_ip", "heartbeat_ip"} \X Address)
         \cup ({"heartbeat_runner", "heartbeat_runner_invalid"} \X Runner)

LimitOf(k) == CASE k[1] = "pair_ip" -> PairLimit
                [] k[1] = "heartbeat_ip" -> AddressLimit
                [] OTHER -> RunnerLimit

\* A bucket that was never charged or was deleted has count 0.
NoBucket == [count |-> 0, left |-> 0]
FreshBucket == [count |-> 1, left |-> Window]

Rows(t) == {k \in Key : t.bucket[k].count > 0}
Expired(t) == {k \in Rows(t) : t.bucket[k].left = 0}

Init ==
  /\ invite = [c \in Code |-> NoInvite]
  /\ runner = [r \in Runner |-> NoRunner]
  /\ limits = [bucket |-> [k \in Key |-> NoBucket], size |-> 0, denied |-> 0]
  /\ reply = [m \in Machine |-> None]
  /\ config = [m \in Machine |-> None]

-----------------------------------------------------------------------------
(* The rate limits. *)

\* Mutant of Removed: the index query finds no expired row.
Removed_Nothing(t) == {{}}

\* removeExpiredRateLimitBuckets: which expired rows go first is the index's
\* choice.
Removed(t) ==
  {S \in SUBSET Expired(t) :
     /\ Cardinality(S) <= CleanupBatch
     /\ Cardinality(S) < CleanupBatch => S = Expired(t)}

\* Mutant of Cleaned: the rows go and the counter stays.
Cleaned_NotCounted(t, S) ==
  [t EXCEPT !.bucket = [k \in Key |-> IF k \in S THEN NoBucket ELSE @[k]]]

Cleaned(t, S) ==
  [t EXCEPT !.bucket = [k \in Key |-> IF k \in S THEN NoBucket ELSE @[k]],
            !.size = @ - Cardinality(S)]

Opened(t, k) == [t EXCEPT !.bucket[k] = FreshBucket, !.size = @ + 1]

\* The deleted rows stay deleted; the counter is not written on this path.
Denied(t, S) ==
  [t EXCEPT !.bucket = Cleaned(t, S).bucket, !.denied = @ + 1]

\* consumeRateLimitBucket: the answers it can give, with the table it leaves.
Charge(t, k) ==
  LET b == t.bucket[k] IN
  IF b.count > 0
  THEN IF b.left = 0
       THEN {[allowed |-> TRUE, table |-> [t EXCEPT !.bucket[k] = FreshBucket]]}
       ELSE IF b.count >= LimitOf(k)
       THEN {[allowed |-> FALSE, table |-> t]}
       ELSE {[allowed |-> TRUE, table |-> [t EXCEPT !.bucket[k].count = @ + 1]]}
  ELSE IF t.size < MaxBuckets
  THEN {[allowed |-> TRUE, table |-> Opened(t, k)]}
  ELSE {IF Cleaned(t, S).size >= MaxBuckets
        THEN [allowed |-> FALSE, table |-> Denied(t, S)]
        ELSE [allowed |-> TRUE, table |-> Opened(Cleaned(t, S), k)]
        : S \in Removed(t)}

\* A charge whose refusal would leave the bound MaxDenied.
Charged(t, k) == {x \in Charge(t, k) : x.table.denied <= MaxDenied}

-----------------------------------------------------------------------------
(* The owner. *)

InForce(o) == {r \in Runner : runner[r].owner = o /\ runner[r].status = "paired"}

\* Mutant of Superseded: the codes asked for before stay open.
Superseded_StayOpen(o) == invite

\* A new code cancels those that were asked for before, expired or not.
Superseded(o) ==
  [c \in Code |-> IF invite[c].owner = o /\ invite[c].state = "open"
                  THEN [invite[c] EXCEPT !.state = "cancelled"]
                  ELSE invite[c]]

CreateEnrollment(o, c) ==
  /\ InForce(o) = {}
  /\ invite[c] = NoInvite
  /\ invite' = [Superseded(o) EXCEPT
                  ![c] = [owner |-> o, state |-> "open", left |-> InviteWindow]]
  /\ UNCHANGED <<runner, limits, reply, config>>

\* What revoking does to open recoveries is in ConnectedServer.
Revoke(r) ==
  /\ runner[r].status = "paired"
  /\ runner' = [runner EXCEPT ![r].status = "revoked"]
  /\ UNCHANGED <<invite, limits, reply, config>>

-----------------------------------------------------------------------------
(* Pairing. *)

\* Mutant of Usable: a code that was used is still good.
Usable_Twice(c) == invite[c].state \in {"open", "consumed"} /\ invite[c].left > 0

Usable(c) == invite[c].state = "open" /\ invite[c].left > 0

NewId(r) == runner[r].status = "none"

\* pairRunner, called by the route with an id it has just drawn.
PairRunner(m, a, c, r) ==
  /\ reply[m] = None
  /\ \E x \in Charged(limits, <<"pair_ip", a>>) :
       /\ limits' = x.table
       /\ IF /\ x.allowed
             /\ Usable(c)
             /\ NewId(r)
             /\ InForce(invite[c].owner) = {}
          THEN /\ runner' = [runner EXCEPT
                    ![r] = [owner |-> invite[c].owner, code |-> c,
                            status |-> "paired"]]
               /\ invite' = [invite EXCEPT ![c].state = "consumed"]
               /\ reply' = [reply EXCEPT ![m] = r]
          ELSE UNCHANGED <<runner, invite, reply>>
  /\ UNCHANGED config

\* saveRunnerConfig replaces what an earlier pairing left.
SaveConfig(m) ==
  /\ reply[m] # None
  /\ config' = [config EXCEPT ![m] = reply[m]]
  /\ reply' = [reply EXCEPT ![m] = None]
  /\ UNCHANGED <<invite, runner, limits>>

\* The answer is lost, or cannot be saved.
LoseReply(m) ==
  /\ reply[m] # None
  /\ reply' = [reply EXCEPT ![m] = None]
  /\ UNCHANGED <<invite, runner, limits, config>>

-----------------------------------------------------------------------------
(* Heartbeats, as far as the limits go. *)

\* A machine that has the credential of r, or a caller that has not.
Heartbeat(a, r, right) ==
  /\ right => \E m \in Machine : config[m] = r
  /\ \E x \in Charged(limits, <<"heartbeat_ip", a>>) :
       IF ~x.allowed \/ runner[r].status = "none"
       THEN limits' = x.table
       ELSE LET kind == IF right /\ runner[r].status = "paired"
                        THEN "heartbeat_runner" ELSE "heartbeat_runner_invalid"
            IN \E y \in Charged(x.table, <<kind, r>>) : limits' = y.table
  /\ UNCHANGED <<invite, runner, reply, config>>

-----------------------------------------------------------------------------
(* The clock. *)

Less(n) == IF n = 0 THEN 0 ELSE n - 1

Tick ==
  /\ invite' = [c \in Code |-> [invite[c] EXCEPT !.left = Less(@)]]
  /\ limits' = [limits EXCEPT !.bucket =
                  [k \in Key |-> [limits.bucket[k] EXCEPT !.left = Less(@)]]]
  /\ UNCHANGED <<runner, reply, config>>

-----------------------------------------------------------------------------
Next ==
  \/ \E o \in Owner, c \in Code : CreateEnrollment(o, c)
  \/ \E r \in Runner : Revoke(r)
  \/ \E m \in Machine, a \in Address, c \in Code, r \in Runner :
       PairRunner(m, a, c, r)
  \/ \E m \in Machine : SaveConfig(m) \/ LoseReply(m)
  \/ \E a \in Address, r \in Runner, right \in BOOLEAN : Heartbeat(a, r, right)
  \/ Tick

Spec == Init /\ [][Next]_vars

-----------------------------------------------------------------------------
(* Properties. *)

\* The type invariant.
Invites == [owner : Owner \cup {None}, left : 0..InviteWindow,
            state : {"none", "open", "consumed", "cancelled"}]
Runners == [owner : Owner \cup {None}, code : Code \cup {None},
            status : {"none", "paired", "revoked"}]
Tables == [bucket : [Key -> [count : Nat, left : 0..Window]],
           size : Int, denied : Nat]

EnrollmentTypeOK ==
  /\ invite \in [Code -> Invites]
  /\ runner \in [Runner -> Runners]
  /\ limits \in Tables
  /\ reply \in [Machine -> Runner \cup {None}]
  /\ config \in [Machine -> Runner \cup {None}]

\* The counter consumeRateLimitBucket keeps beside the table is the number of
\* its rows, through every insertion, reset, cleaning and refusal, so that the
\* table never holds more than MAX_RUNNER_RATE_LIMIT_BUCKETS rows.
BucketsCounted ==
  /\ limits.size = Cardinality(Rows(limits))
  /\ limits.size <= MaxBuckets

\* A caller is refused for want of room only while every row of a full table
\* is in use: expired rows are cleaned away before anybody is turned away,
\* and a refusal cleans nothing.
RefusedOnlyWhenFull ==
  [][limits'.denied > limits.denied =>
       /\ Cardinality(Rows(limits')) = MaxBuckets
       /\ Expired(limits') = {}]_vars

\* An owner has one way in: one code that was neither used nor cancelled, or
\* one runner in force, and never both, whatever order codes are asked for,
\* typed and revoked in.
OneWayIn ==
  \A o \in Owner :
    LET open == {c \in Code : invite[c].owner = o /\ invite[c].state = "open"}
    IN /\ \A c, d \in open : c = d
       /\ \A r, s \in InForce(o) : r = s
       /\ open # {} => InForce(o) = {}

\* A code brings in one runner, for the owner who asked for it: neither a
\* second machine nor the same one after a revocation comes in by a code that
\* was used.  And one machine speaks for that runner: its credential is on its
\* way to the machine that typed the code, or saved there, or lost.
OneCodeOneRunner ==
  /\ \A r \in Runner : runner[r].status # "none" =>
       /\ runner[r].code \in Code
       /\ invite[runner[r].code].state = "consumed"
       /\ invite[runner[r].code].owner = runner[r].owner
  /\ \A r, s \in Runner :
       runner[r].code = runner[s].code /\ runner[r].code # None => r = s
  /\ \A m \in Machine :
       /\ reply[m] # None => runner[reply[m]].status # "none"
       /\ config[m] # None => runner[config[m]].status # "none"
  /\ \A m, n \in Machine :
       /\ reply[m] # None => reply[m] # config[n]
       /\ m # n /\ reply[m] # None => reply[m] # reply[n]
       /\ m # n /\ config[m] # None => config[m] # config[n]
=============================================================================
