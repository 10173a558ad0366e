--------------------------- MODULE EnrollmentProofs ---------------------------
(***************************************************************************)
(* Pairing and the rate limits for any number of owners, codes, runners    *)
(* and machines, and any limits.                                           *)
(***************************************************************************)
EXTENDS Enrollment, TLAPS, FiniteSetTheorems

-----------------------------------------------------------------------------
(* The table of buckets. *)

LEMMA PairFinite ==
  ASSUME NEW a, NEW b
  PROVE  IsFiniteSet({a, b})
<1>1. IsFiniteSet({a})
  BY FS_Singleton
<1>2. IsFiniteSet({a} \cup {b})
  BY <1>1, FS_AddElement
<1>3. {a, b} = {a} \cup {b}
  OBVIOUS
<1> QED
  BY <1>2, <1>3

LEMMA KeyFinite == IsFiniteSet(Key)
<1>1. IsFiniteSet({"pair_ip", "heartbeat_ip"})
  BY PairFinite
<1>2. IsFiniteSet({"heartbeat_runner", "heartbeat_runner_invalid"})
  BY PairFinite
<1>3. IsFiniteSet({"pair_ip", "heartbeat_ip"} \X Address)
  BY <1>1, BucketAssumption, FS_Product
<1>4. IsFiniteSet({"heartbeat_runner", "heartbeat_runner_invalid"} \X Runner)
  BY <1>2, BucketAssumption, FS_Product
<1> QED
  BY <1>3, <1>4, FS_Union DEF Key

\* A table whose counter is right and within the limit.
Counted(t) ==
  /\ t \in Tables
  /\ t.size = Cardinality(Rows(t))
  /\ t.size <= MaxBuckets

\* A full table without a row that could be cleaned away.
FullOfUse(t) == Cardinality(Rows(t)) = MaxBuckets /\ Expired(t) = {}

\* The rows of a table are finitely many.
LEMMA RowsFinite ==
  ASSUME NEW t
  PROVE  /\ IsFiniteSet(Rows(t)) /\ Cardinality(Rows(t)) \in Nat
<1>1. Rows(t) \in SUBSET Key
  BY DEF Rows
<1>2. IsFiniteSet(Rows(t))
  BY <1>1, KeyFinite, FS_Subset
<1> QED
  BY <1>2, FS_CardinalityType

\* The writes of two fields of a table.
LEMMA Written ==
  ASSUME NEW F, NEW t \in [bucket : F, size : Int, denied : Nat],
         NEW B \in F, NEW n \in Int, NEW d \in Nat
  PROVE  /\ [t EXCEPT !.bucket = B, !.size = n]
              = [bucket |-> B, size |-> n, denied |-> t.denied]
         /\ [t EXCEPT !.bucket = B, !.denied = d]
              = [bucket |-> B, size |-> t.size, denied |-> d]
         /\ [t EXCEPT !.bucket = B]
              = [bucket |-> B, size |-> t.size, denied |-> t.denied]
<1>1. ASSUME NEW u \in [bucket : F, size : Int, denied : Nat]
      PROVE  u = [bucket |-> u.bucket, size |-> u.size, denied |-> u.denied]
  OBVIOUS
<1> DEFINE v == [t EXCEPT !.bucket = B, !.size = n]
           w == [t EXCEPT !.bucket = B, !.denied = d]
<1>2. /\ v \in [bucket : F, size : Int, denied : Nat]
      /\ v.bucket = B /\ v.size = n /\ v.denied = t.denied
  OBVIOUS
<1>3. /\ w \in [bucket : F, size : Int, denied : Nat]
      /\ w.bucket = B /\ w.size = t.size /\ w.denied = d
  OBVIOUS
<1>4. [t EXCEPT !.bucket = B]
        = [bucket |-> B, size |-> t.size, denied |-> t.denied]
  BY <1>1
<1> HIDE DEF v, w
<1>5. v = [bucket |-> B, size |-> n, denied |-> t.denied]
  BY <1>1, <1>2
<1>6. w = [bucket |-> B, size |-> t.size, denied |-> d]
  BY <1>1, <1>3
<1> QED
  BY <1>4, <1>5, <1>6 DEF v, w

Buckets == [Key -> [count : Nat, left : 0..Window]]

\* Cleaning takes the rows it deletes off the counter.
LEMMA CleaningCounts ==
  ASSUME NEW t, Counted(t), NEW S \in Removed(t)
  PROVE  /\ Counted(Cleaned(t, S))
         /\ Rows(Cleaned(t, S)) = Rows(t) \ S
         /\ Cleaned(t, S).denied = t.denied
         /\ Cardinality(S) \in Nat
         /\ Cleaned(t, S).size = t.size - Cardinality(S)
<1> DEFINE u == Cleaned(t, S)
<1>1. S \subseteq Rows(t) /\ S \subseteq Expired(t)
  BY DEF Removed, Expired
<1> DEFINE B == [k \in Key |-> IF k \in S THEN NoBucket ELSE t.bucket[k]]
<1>3. /\ IsFiniteSet(S) /\ Cardinality(S) \in Nat
      /\ Cardinality(S) <= Cardinality(Rows(t))
  BY <1>1, RowsFinite, FS_Subset, FS_CardinalityType
<1>4. t \in Tables /\ t.size \in Int /\ t.denied \in Nat
      /\ t.bucket \in Buckets
  BY DEF Counted, Tables, Buckets
<1>6. NoBucket \in [count : Nat, left : 0..Window]
  BY WindowAssumption DEF NoBucket
<1>7. B \in Buckets
  BY <1>4, <1>6 DEF Buckets
<1>2. u = [bucket |-> B, size |-> t.size - Cardinality(S), denied |-> t.denied]
  <2>1. u = [t EXCEPT !.bucket = B, !.size = t.size - Cardinality(S)]
    BY DEF Cleaned
  <2> HIDE DEF u, B
  <2>2. t \in [bucket : Buckets, size : Int, denied : Nat]
    BY <1>4 DEF Tables, Buckets
  <2>3. t.size - Cardinality(S) \in Int
    BY <1>3, <1>4
  <2> QED
    BY <1>7, <2>1, <2>2, <2>3, <1>4, Written
<1>5. /\ u.bucket = B /\ u.size = t.size - Cardinality(S)
      /\ u.denied = t.denied
  BY <1>2
<1>8. u \in Tables
  BY <1>2, <1>3, <1>4, <1>7 DEF Tables, Buckets
<1>9. Rows(u) = Rows(t) \ S
  <2> HIDE DEF u
  <2> QED
    BY <1>1, <1>5 DEF Rows, NoBucket
<1>10. Cardinality(Rows(u)) = Cardinality(Rows(t)) - Cardinality(S)
  <2>1. Rows(t) \cap S = S
    BY <1>1
  <2> QED
    BY <1>9, <2>1, RowsFinite, FS_Difference
<1>11. t.size = Cardinality(Rows(t)) /\ t.size <= MaxBuckets
  BY DEF Counted
<1> HIDE DEF u, B
<1>12. Counted(u)
  BY <1>3, <1>4, <1>5, <1>8, <1>10, <1>11, BucketAssumption DEF Counted
<1> QED
  BY <1>3, <1>5, <1>9, <1>12 DEF u

\* A new row is counted.
LEMMA OpeningCounts ==
  ASSUME NEW t, Counted(t), NEW k \in Key, k \notin Rows(t),
         t.size < MaxBuckets
  PROVE  Counted(Opened(t, k)) /\ Opened(t, k).denied = t.denied
<1> DEFINE u == Opened(t, k)
<1>1. /\ t \in Tables /\ t.size \in Int /\ t.denied \in Nat
      /\ t.bucket \in Buckets
  BY DEF Counted, Tables, Buckets
<1>2. FreshBucket \in [count : Nat, left : 0..Window] /\ FreshBucket.count = 1
  BY WindowAssumption DEF FreshBucket
<1> DEFINE B == [t.bucket EXCEPT ![k] = FreshBucket]
<1>6. B \in Buckets
  BY <1>1, <1>2 DEF Buckets
<1>7. u = [bucket |-> B, size |-> t.size + 1, denied |-> t.denied]
  <2>1. u = [t EXCEPT !.bucket = B, !.size = t.size + 1]
    BY DEF Opened
  <2> HIDE DEF u, B
  <2>2. t \in [bucket : Buckets, size : Int, denied : Nat]
    BY <1>1 DEF Tables, Buckets
  <2> QED
    BY <1>1, <1>6, <2>1, <2>2, Written
<1>3. /\ u.bucket = B /\ u.size = t.size + 1 /\ u.denied = t.denied
      /\ u \in Tables
  <2> HIDE DEF u, B
  <2> QED
    BY <1>1, <1>6, <1>7 DEF Tables, Buckets
<1>4. Rows(u) = Rows(t) \cup {k}
  <2> HIDE DEF u
  <2> QED
    BY <1>1, <1>2, <1>3 DEF Rows, Buckets
<1>5. Cardinality(Rows(u)) = Cardinality(Rows(t)) + 1
  BY <1>4, RowsFinite, FS_AddElement
<1>8. t.size = Cardinality(Rows(t))
  BY DEF Counted
<1> HIDE DEF u, B
<1>9. Counted(u)
  BY <1>1, <1>3, <1>5, <1>8, BucketAssumption DEF Counted
<1> QED
  BY <1>3, <1>9 DEF u

\* What consumeRateLimitBucket leaves: a right counter, and a refusal for want
\* of room only of a full table.
LEMMA ChargeCounts ==
  ASSUME NEW t, Counted(t), NEW k \in Key, NEW x \in Charge(t, k)
  PROVE  /\ Counted(x.table)
         /\ x.table.denied >= t.denied
         /\ x.allowed => x.table.denied = t.denied
         /\ x.table.denied > t.denied => FullOfUse(x.table)
<1> DEFINE b == t.bucket[k]
<1>1. /\ t \in Tables /\ t.size \in Int /\ t.denied \in Nat
      /\ t.bucket \in Buckets
      /\ b.count \in Nat
  BY DEF Counted, Tables, Buckets
<1>2. FreshBucket \in [count : Nat, left : 0..Window] /\ FreshBucket.count = 1
  BY WindowAssumption DEF FreshBucket
<1>6. t.size = Cardinality(Rows(t)) /\ t.size <= MaxBuckets
      /\ t \in [bucket : Buckets, size : Int, denied : Nat]
  BY <1>1 DEF Counted, Tables, Buckets
<1>3. CASE b.count > 0
  <2>1. CASE b.left = 0
    <3> DEFINE u == [t EXCEPT !.bucket[k] = FreshBucket]
    <3>1. x = [allowed |-> TRUE, table |-> u]
      BY <1>3, <2>1 DEF Charge
    <3> DEFINE B == [t.bucket EXCEPT ![k] = FreshBucket]
    <3>2. B \in Buckets
      BY <1>1, <1>2 DEF Buckets
    <3> HIDE DEF u
    <3>3. u.size = t.size /\ u.denied = t.denied /\ u \in Tables
          /\ u.bucket = B
      <4>1. u = [t EXCEPT !.bucket = B]
        BY <1>6 DEF u
      <4> HIDE DEF B
      <4> QED
        BY <1>1, <1>6, <3>2, <4>1, Written DEF Tables, Buckets
    <3>4. Rows(u) = Rows(t)
      BY <1>1, <1>2, <1>3, <3>3 DEF Rows, Buckets
    <3>5. Counted(u)
      BY <1>1, <1>6, <3>3, <3>4 DEF Counted
    <3>6. x.table = u
      BY <3>1 DEF u
    <3> QED
      BY <1>1, <3>3, <3>5, <3>6
  <2>2. CASE b.left # 0 /\ b.count >= LimitOf(k)
    <3>1. x = [allowed |-> FALSE, table |-> t]
      BY <1>3, <2>2 DEF Charge
    <3> QED
      BY <1>1, <3>1
  <2>3. CASE b.left # 0 /\ ~ (b.count >= LimitOf(k))
    <3> DEFINE u == [t EXCEPT !.bucket[k].count = @ + 1]
    <3>1. x = [allowed |-> TRUE, table |-> u]
      BY <1>3, <2>3 DEF Charge
    <3>2. [b EXCEPT !.count = b.count + 1] \in [count : Nat, left : 0..Window]
          /\ [b EXCEPT !.count = b.count + 1].count = b.count + 1
      <4>1. b \in [count : Nat, left : 0..Window]
        BY <1>1 DEF Buckets
      <4> HIDE DEF b
      <4> QED
        BY <4>1
    <3> DEFINE B == [t.bucket EXCEPT ![k] = [b EXCEPT !.count = b.count + 1]]
    <3>3. B \in Buckets
      BY <1>1, <3>2 DEF Buckets
    <3> HIDE DEF u
    <3>4. u.size = t.size /\ u.denied = t.denied /\ u \in Tables
          /\ u.bucket = B
      <4>1. u = [t EXCEPT !.bucket = B]
        BY <1>6 DEF u
      <4> HIDE DEF B
      <4> QED
        BY <1>1, <1>6, <3>3, <4>1, Written DEF Tables, Buckets
    <3>5. Rows(u) = Rows(t)
      BY <1>1, <1>3, <3>2, <3>4 DEF Rows, Buckets
    <3>6. Counted(u)
      BY <1>1, <1>6, <3>4, <3>5 DEF Counted
    <3>7. x.table = u
      BY <3>1 DEF u
    <3> QED
      BY <1>1, <3>4, <3>6, <3>7
  <2> QED
    BY <2>1, <2>2, <2>3
<1>4. CASE ~ (b.count > 0) /\ t.size < MaxBuckets
  <2>1. x = [allowed |-> TRUE, table |-> Opened(t, k)]
    BY <1>4 DEF Charge
  <2>2. k \notin Rows(t)
    BY <1>4 DEF Rows
  <2> QED
    BY <1>1, <1>4, <2>1, <2>2, OpeningCounts
<1>5. CASE ~ (b.count > 0) /\ ~ (t.size < MaxBuckets)
  <2>1. PICK S \in Removed(t) :
          x = IF Cleaned(t, S).size >= MaxBuckets
              THEN [allowed |-> FALSE, table |-> Denied(t, S)]
              ELSE [allowed |-> TRUE, table |-> Opened(Cleaned(t, S), k)]
    BY <1>5 DEF Charge
  <2> DEFINE c == Cleaned(t, S)
  <2>2. /\ Counted(c) /\ Rows(c) = Rows(t) \ S /\ c.denied = t.denied
        /\ Cardinality(S) \in Nat /\ c.size = t.size - Cardinality(S)
    BY <2>1, CleaningCounts
  <2>3. c.size \in Int
    BY <2>2 DEF Counted, Tables, Buckets
  <2>4. CASE c.size >= MaxBuckets
    <3>1. x = [allowed |-> FALSE, table |-> Denied(t, S)]
      BY <2>1, <2>4
    <3>2. t.size = MaxBuckets /\ Cardinality(S) = 0
      BY <1>1, <2>2, <2>4, BucketAssumption DEF Counted
    <3>3. Expired(t) = {} /\ S = {}
      <4>1. S = Expired(t)
        BY <3>2, BucketAssumption DEF Removed
      <4>2. IsFiniteSet(S)
        <5>1. S \in SUBSET Rows(t)
          BY <4>1 DEF Expired
        <5> QED
          BY <5>1, RowsFinite, FS_Subset
      <4> QED
        BY <3>2, <4>1, <4>2, FS_EmptySet
    <3>4. c.bucket = t.bucket
      BY <1>1, <3>3 DEF Cleaned, Tables
    <3> DEFINE u == Denied(t, S)
    <3>5. u = [bucket |-> t.bucket, size |-> t.size, denied |-> t.denied + 1]
      <4>1. u = [t EXCEPT !.bucket = t.bucket, !.denied = t.denied + 1]
        BY <3>4 DEF Denied
      <4> HIDE DEF u
      <4> QED
        BY <1>1, <1>6, <4>1, Written
    <3> HIDE DEF u
    <3>6. Rows(u) = Rows(t) /\ Expired(u) = Expired(t)
      BY <3>5 DEF Rows, Expired
    <3>7. u \in Tables /\ u.size = t.size /\ u.denied = t.denied + 1
      BY <1>1, <3>5 DEF Tables, Buckets
    <3>8. Counted(u) /\ FullOfUse(u)
      BY <1>1, <1>6, <3>2, <3>3, <3>6, <3>7 DEF Counted, FullOfUse
    <3>9. x.table = u /\ x.allowed = FALSE
      BY <3>1 DEF u
    <3> QED
      BY <1>1, <3>7, <3>8, <3>9
  <2>5. CASE ~ (c.size >= MaxBuckets)
    <3>1. x = [allowed |-> TRUE, table |-> Opened(c, k)]
      BY <2>1, <2>5
    <3>2. k \notin Rows(c)
      BY <1>5, <2>2 DEF Rows
    <3>3. c.size < MaxBuckets
      BY <2>3, <2>5, BucketAssumption
    <3>4. Counted(Opened(c, k)) /\ Opened(c, k).denied = c.denied
      BY <2>2, <3>2, <3>3, OpeningCounts
    <3> QED
      BY <1>1, <2>2, <3>1, <3>4
  <2> QED
    BY <2>4, <2>5
<1> QED
  BY <1>3, <1>4, <1>5

\* The clock leaves the rows where they are.
LEMMA TickCounts ==
  ASSUME Counted(limits), Tick
  PROVE  Counted(limits') /\ limits'.denied = limits.denied
<1> DEFINE B == [k \in Key |-> [limits.bucket[k] EXCEPT
                                 !.left = Less(limits.bucket[k].left)]]
<1>1. /\ limits \in [bucket : Buckets, size : Int, denied : Nat]
      /\ limits.size = Cardinality(Rows(limits)) /\ limits.size <= MaxBuckets
      /\ limits.bucket \in Buckets
  BY DEF Counted, Tables, Buckets
<1>2. ASSUME NEW b \in [count : Nat, left : 0..Window]
      PROVE  /\ [b EXCEPT !.left = Less(b.left)] \in [count : Nat, left : 0..Window]
             /\ [b EXCEPT !.left = Less(b.left)].count = b.count
  <2>1. Less(b.left) \in 0..Window
    BY WindowAssumption DEF Less
  <2> QED
    BY <2>1
<1>3. B \in Buckets /\ \A k \in Key : B[k].count = limits.bucket[k].count
  BY <1>1, <1>2 DEF Buckets
<1>4. limits' = [limits EXCEPT !.bucket = B]
  BY DEF Tick
<1> HIDE DEF B
<1>5. limits' = [bucket |-> B, size |-> limits.size, denied |-> limits.denied]
  BY <1>1, <1>3, <1>4, Written
<1>6. limits' \in Tables
  BY <1>1, <1>3, <1>5 DEF Tables, Buckets
<1>7. Rows(limits') = Rows(limits)
  BY <1>3, <1>5 DEF Rows
<1> QED
  BY <1>1, <1>5, <1>6, <1>7 DEF Counted

-----------------------------------------------------------------------------
(* The inductive invariant. *)

\* A runner id that was not drawn yet belongs to nobody.
FreshIds == \A r \in Runner : runner[r].status = "none" => runner[r] = NoRunner

EnrollmentInv ==
  /\ EnrollmentTypeOK
  /\ Counted(limits)
  /\ FreshIds
  /\ OneWayIn
  /\ OneCodeOneRunner

LEMMA InitHolds == Init => EnrollmentInv
<1> SUFFICES ASSUME Init PROVE EnrollmentInv
  OBVIOUS
<1>1. NoInvite \in Invites /\ NoRunner \in Runners
  BY WindowAssumption DEF NoInvite, NoRunner, Invites, Runners
<1>2. NoBucket \in [count : Nat, left : 0..Window] /\ NoBucket.count = 0
  BY WindowAssumption DEF NoBucket
<1>3. limits \in Tables /\ limits.size = 0
  BY <1>2 DEF Init, Tables
<1>4. Rows(limits) = {}
  BY <1>2 DEF Init, Rows
<1>5. Counted(limits)
  BY <1>3, <1>4, FS_EmptySet, BucketAssumption DEF Counted
<1>6. EnrollmentTypeOK
  BY <1>1, <1>3 DEF Init, EnrollmentTypeOK
<1>7. OneWayIn
  BY DEF Init, OneWayIn, NoInvite, NoRunner, InForce
<1>8. OneCodeOneRunner
  BY DEF Init, OneCodeOneRunner, NoRunner
<1>9. FreshIds
  BY DEF Init, FreshIds
<1> QED
  BY <1>5, <1>6, <1>7, <1>8, <1>9 DEF EnrollmentInv

-----------------------------------------------------------------------------
(* The limits through a step. *)

\* What a step may do to the table: keep it counted, and count a refusal only
\* when the table is full of rows in use.
Charges == /\ Counted(limits')
           /\ limits'.denied >= limits.denied
           /\ limits'.denied > limits.denied => FullOfUse(limits')

LEMMA PairingCharges ==
  ASSUME EnrollmentInv, NEW m \in Machine, NEW a \in Address, NEW c \in Code,
         NEW r \in Runner, PairRunner(m, a, c, r)
  PROVE  Charges
<1> DEFINE k == <<"pair_ip", a>>
<1>1. k \in Key
  BY DEF Key
<1>2. PICK x \in Charge(limits, k) : limits' = x.table
  BY DEF PairRunner, Charged
<1> HIDE DEF k
<1> QED
  BY <1>1, <1>2, ChargeCounts DEF EnrollmentInv, Charges

LEMMA BeatingCharges ==
  ASSUME EnrollmentInv, NEW a \in Address, NEW r \in Runner,
         NEW right \in BOOLEAN, Heartbeat(a, r, right)
  PROVE  Charges
<1> DEFINE k == <<"heartbeat_ip", a>>
           kind == IF right /\ runner[r].status = "paired"
                   THEN "heartbeat_runner" ELSE "heartbeat_runner_invalid"
           l == <<kind, r>>
<1>1. k \in Key /\ l \in Key
  BY DEF Key
<1>2. PICK x \in Charge(limits, k) :
        IF ~x.allowed \/ runner[r].status = "none"
        THEN limits' = x.table
        ELSE \E y \in Charge(x.table, l) : limits' = y.table
  BY DEF Heartbeat, Charged
<1> HIDE DEF k, l
<1>3. /\ Counted(x.table) /\ x.table.denied >= limits.denied
      /\ x.allowed => x.table.denied = limits.denied
      /\ x.table.denied > limits.denied => FullOfUse(x.table)
  BY <1>1, <1>2, ChargeCounts DEF EnrollmentInv
<1>4. CASE ~x.allowed \/ runner[r].status = "none"
  BY <1>2, <1>3, <1>4 DEF Charges
<1>5. CASE ~(~x.allowed \/ runner[r].status = "none")
  <2>1. PICK y \in Charge(x.table, l) : limits' = y.table
    BY <1>2, <1>5
  <2>2. /\ Counted(y.table) /\ y.table.denied >= x.table.denied
        /\ y.table.denied > x.table.denied => FullOfUse(y.table)
    BY <1>1, <1>3, <2>1, ChargeCounts
  <2>3. x.table.denied = limits.denied
    BY <1>3, <1>5
  <2> QED
    BY <2>1, <2>2, <2>3 DEF Charges
<1> QED
  BY <1>4, <1>5

LEMMA StepCharges ==
  ASSUME EnrollmentInv, [Next]_vars
  PROVE  Charges
<1>1. ASSUME UNCHANGED limits
      PROVE  Charges
  <2>1. limits.denied \in Nat /\ Counted(limits)
    BY DEF EnrollmentInv, Counted, Tables
  <2>2. Counted(limits')
    BY <1>1, <2>1
  <2> QED
    BY <1>1, <2>1, <2>2 DEF Charges
<1>2. CASE UNCHANGED vars
  BY <1>1, <1>2 DEF vars
<1>3. ASSUME NEW o \in Owner, NEW c \in Code, CreateEnrollment(o, c)
      PROVE  Charges
  BY <1>1, <1>3 DEF CreateEnrollment
<1>4. ASSUME NEW r \in Runner, Revoke(r)
      PROVE  Charges
  BY <1>1, <1>4 DEF Revoke
<1>5. ASSUME NEW m \in Machine, SaveConfig(m) \/ LoseReply(m)
      PROVE  Charges
  BY <1>1, <1>5 DEF SaveConfig, LoseReply
<1>6. CASE Tick
  <2>1. limits.denied \in Nat
    BY DEF EnrollmentInv, Counted, Tables
  <2> QED
    BY <1>6, <2>1, TickCounts DEF EnrollmentInv, Charges
<1> QED
  BY <1>2, <1>3, <1>4, <1>5, <1>6, PairingCharges, BeatingCharges DEF Next

-----------------------------------------------------------------------------
(* Codes, runners and machines through a step. *)

LEMMA TypesKept ==
  ASSUME EnrollmentInv, [Next]_vars
  PROVE  EnrollmentTypeOK'
<1> USE DEF EnrollmentInv, EnrollmentTypeOK
<1>1. limits' \in Tables
  BY StepCharges DEF Charges, Counted
<1>2. CASE UNCHANGED vars
  BY <1>1, <1>2 DEF vars
<1>3. ASSUME NEW o \in Owner, NEW c \in Code, CreateEnrollment(o, c)
      PROVE  EnrollmentTypeOK'
  <2>1. [owner |-> o, state |-> "open", left |-> InviteWindow] \in Invites
    BY WindowAssumption DEF Invites
  <2>2. Superseded(o) \in [Code -> Invites]
    BY DEF Superseded, Invites
  <2> QED
    BY <1>1, <1>3, <2>1, <2>2 DEF CreateEnrollment
<1>4. ASSUME NEW r \in Runner, Revoke(r)
      PROVE  EnrollmentTypeOK'
  BY <1>1, <1>4 DEF Revoke, Runners
<1>5. ASSUME NEW m \in Machine, NEW a \in Address, NEW c \in Code,
             NEW r \in Runner, PairRunner(m, a, c, r)
      PROVE  EnrollmentTypeOK'
  <2>1. CASE UNCHANGED <<runner, invite, reply>>
    BY <1>1, <1>5, <2>1 DEF PairRunner
  <2>2. CASE /\ runner' = [runner EXCEPT
                    ![r] = [owner |-> invite[c].owner, code |-> c,
                            status |-> "paired"]]
             /\ invite' = [invite EXCEPT ![c].state = "consumed"]
             /\ reply' = [reply EXCEPT ![m] = r]
    <3>1. [owner |-> invite[c].owner, code |-> c, status |-> "paired"] \in Runners
      BY DEF Invites, Runners
    <3>2. invite' \in [Code -> Invites]
      BY <2>2 DEF Invites
    <3> QED
      BY <1>1, <1>5, <2>2, <3>1, <3>2 DEF PairRunner
  <2> QED
    BY <1>5, <2>1, <2>2 DEF PairRunner
<1>6. ASSUME NEW m \in Machine, SaveConfig(m) \/ LoseReply(m)
      PROVE  EnrollmentTypeOK'
  BY <1>1, <1>6 DEF SaveConfig, LoseReply
<1>7. ASSUME NEW a \in Address, NEW r \in Runner, NEW right \in BOOLEAN,
             Heartbeat(a, r, right)
      PROVE  EnrollmentTypeOK'
  BY <1>1, <1>7 DEF Heartbeat
<1>8. CASE Tick
  <2>1. ASSUME NEW i \in Invites
        PROVE  [i EXCEPT !.left = Less(i.left)] \in Invites
    <3>1. i.left \in 0..InviteWindow
      BY DEF Invites
    <3>2. Less(i.left) \in 0..InviteWindow
      BY <3>1, WindowAssumption DEF Less
    <3> QED
      BY <3>2 DEF Invites
  <2> QED
    BY <1>1, <1>8, <2>1 DEF Tick
<1> QED
  BY <1>2, <1>3, <1>4, <1>5, <1>6, <1>7, <1>8 DEF Next

\* The steps that touch codes and runners: what they leave of both.
Paired(m, c, r) ==
  /\ invite[c].state = "open" /\ runner[r].status = "none"
  /\ InForce(invite[c].owner) = {} /\ reply[m] = None
  /\ runner' = [runner EXCEPT
        ![r] = [owner |-> invite[c].owner, code |-> c, status |-> "paired"]]
  /\ invite' = [invite EXCEPT ![c].state = "consumed"]
  /\ reply' = [reply EXCEPT ![m] = r]
  /\ UNCHANGED config

\* A step that leaves owners, states, runners and credentials alone.
Quiet ==
  /\ \A c \in Code : invite'[c].owner = invite[c].owner
                      /\ invite'[c].state = invite[c].state
  /\ UNCHANGED <<runner, reply, config>>

\* Every step is one of six.
LEMMA StepIs ==
  ASSUME EnrollmentInv, [Next]_vars
  PROVE  \/ Quiet
         \/ \E o \in Owner, c \in Code : CreateEnrollment(o, c)
         \/ \E r \in Runner : Revoke(r)
         \/ \E m \in Machine, c \in Code, r \in Runner : Paired(m, c, r)
         \/ \E m \in Machine : SaveConfig(m)
         \/ \E m \in Machine : LoseReply(m)
<1>1. CASE UNCHANGED vars
  BY <1>1 DEF vars, Quiet
<1>2. CASE Tick
  <2>1. \A c \in Code : invite'[c] = [invite[c] EXCEPT !.left = Less(invite[c].left)]
    BY <1>2 DEF Tick
  <2>2. \A c \in Code : invite[c] \in Invites
    BY DEF EnrollmentInv, EnrollmentTypeOK
  <2>3. ASSUME NEW i \in Invites
        PROVE  LET j == [i EXCEPT !.left = Less(i.left)]
               IN j.owner = i.owner /\ j.state = i.state
    BY DEF Invites
  <2> QED
    BY <1>2, <2>1, <2>2, <2>3 DEF Tick, Quiet
<1>3. ASSUME NEW a \in Address, NEW r \in Runner, NEW right \in BOOLEAN,
             Heartbeat(a, r, right)
      PROVE  Quiet
  BY <1>3 DEF Heartbeat, Quiet
<1>4. ASSUME NEW m \in Machine, NEW a \in Address, NEW c \in Code,
             NEW r \in Runner, PairRunner(m, a, c, r)
      PROVE  Quiet \/ Paired(m, c, r)
  BY <1>4 DEF PairRunner, Quiet, Paired, Usable, NewId
<1> QED
  BY <1>1, <1>2, <1>3, <1>4 DEF Next

LEMMA FreshIdsKept ==
  ASSUME EnrollmentInv, [Next]_vars
  PROVE  FreshIds'
<1> USE DEF EnrollmentInv, EnrollmentTypeOK, FreshIds
<1>1. CASE UNCHANGED runner
  BY <1>1
<1>2. ASSUME NEW r \in Runner, Revoke(r)
      PROVE  FreshIds'
  BY <1>2 DEF Revoke, Runners
<1>3. ASSUME NEW m \in Machine, NEW c \in Code, NEW r \in Runner, Paired(m, c, r)
      PROVE  FreshIds'
  BY <1>3 DEF Paired, Runners
<1> QED
  BY <1>1, <1>2, <1>3, StepIs
     DEF Quiet, CreateEnrollment, SaveConfig, LoseReply

\* The two halves of OneWayIn and OneCodeOneRunner that are read one owner,
\* one runner and one machine at a time.
Open(c, o) == invite[c].owner = o /\ invite[c].state = "open"

LEMMA OneWayInIs ==
  OneWayIn <=> \A o \in Owner :
    /\ \A c, d \in Code : Open(c, o) /\ Open(d, o) => c = d
    /\ \A r, s \in InForce(o) : r = s
    /\ \A c \in Code : Open(c, o) => InForce(o) = {}
  BY DEF OneWayIn, Open

LEMMA OneWayKept ==
  ASSUME EnrollmentInv, [Next]_vars
  PROVE  OneWayIn'
<1> USE DEF EnrollmentInv, EnrollmentTypeOK
<1>1. SUFFICES ASSUME NEW o \in Owner
      PROVE  /\ \A c, d \in Code : Open(c, o)' /\ Open(d, o)' => c = d
             /\ \A r, s \in InForce(o)' : r = s
             /\ \A c \in Code : Open(c, o)' => InForce(o)' = {}
  BY DEF OneWayIn, Open
<1>2. /\ \A c, d \in Code : Open(c, o) /\ Open(d, o) => c = d
      /\ \A r, s \in InForce(o) : r = s
      /\ \A c \in Code : Open(c, o) => InForce(o) = {}
  BY OneWayInIs
<1>3. CASE /\ InForce(o)' = InForce(o)
           /\ \A c \in Code : Open(c, o)' <=> Open(c, o)
  BY <1>2, <1>3
<1>4. CASE Quiet
  BY <1>3, <1>4 DEF Quiet, InForce, Open
<1>5. ASSUME NEW p \in Owner, NEW c \in Code, CreateEnrollment(p, c)
      PROVE  /\ \A d, e \in Code : Open(d, o)' /\ Open(e, o)' => d = e
             /\ \A r, s \in InForce(o)' : r = s
             /\ \A d \in Code : Open(d, o)' => InForce(o)' = {}
  <2>1. InForce(o)' = InForce(o)
    BY <1>5 DEF CreateEnrollment, InForce
  <2>2. \A d \in Code : invite'[d] =
          IF d = c THEN [owner |-> p, state |-> "open", left |-> InviteWindow]
          ELSE IF invite[d].owner = p /\ invite[d].state = "open"
               THEN [invite[d] EXCEPT !.state = "cancelled"] ELSE invite[d]
    BY <1>5 DEF CreateEnrollment, Superseded
  <2>3. \A d \in Code :
          LET i == [invite[d] EXCEPT !.state = "cancelled"]
          IN i.state = "cancelled" /\ i.owner = invite[d].owner
    BY DEF Invites
  <2>4. CASE o = p
    <3>1. \A d \in Code : Open(d, o)' => d = c
      BY <2>2, <2>3, <2>4 DEF Open
    <3>2. InForce(o) = {}
      BY <1>5, <2>4 DEF CreateEnrollment
    <3> QED
      BY <2>1, <3>1, <3>2
  <2>5. CASE o # p
    <3>1. invite[c].state = "none"
      BY <1>5 DEF CreateEnrollment, NoInvite
    <3>2. ASSUME NEW d \in Code
          PROVE  Open(d, o)' <=> Open(d, o)
      <4>1. CASE d = c
        <5>1. invite'[c] = [owner |-> p, state |-> "open", left |-> InviteWindow]
          BY <2>2
        <5>2. invite'[c].owner = p
          BY <5>1
        <5> QED
          BY <2>5, <3>1, <4>1, <5>2 DEF Open
      <4>2. CASE d # c /\ invite[d].owner = p
        <5>1. invite'[d].owner = p
          BY <2>2, <2>3, <4>2
        <5> QED
          BY <2>5, <4>2, <5>1 DEF Open
      <4>3. CASE d # c /\ invite[d].owner # p
        BY <2>2, <4>3 DEF Open
      <4> QED
        BY <4>1, <4>2, <4>3
    <3> QED
      BY <1>3, <2>1, <3>2
  <2> QED
    BY <2>4, <2>5
<1>6. ASSUME NEW r \in Runner, Revoke(r)
      PROVE  /\ \A d, e \in Code : Open(d, o)' /\ Open(e, o)' => d = e
             /\ \A q, s \in InForce(o)' : q = s
             /\ \A d \in Code : Open(d, o)' => InForce(o)' = {}
  <2>1. \A d \in Code : Open(d, o)' <=> Open(d, o)
    BY <1>6 DEF Revoke, Open
  <2>2. InForce(o)' \subseteq InForce(o)
    BY <1>6 DEF Revoke, InForce, Runners
  <2> QED
    BY <1>2, <2>1, <2>2
<1>7. ASSUME NEW m \in Machine, NEW c \in Code, NEW r \in Runner, Paired(m, c, r)
      PROVE  /\ \A d, e \in Code : Open(d, o)' /\ Open(e, o)' => d = e
             /\ \A q, s \in InForce(o)' : q = s
             /\ \A d \in Code : Open(d, o)' => InForce(o)' = {}
  <2>1. \A d \in Code : /\ invite'[d].owner = invite[d].owner
                        /\ invite'[d].state =
                             IF d = c THEN "consumed" ELSE invite[d].state
    BY <1>7 DEF Paired, Invites
  <2>2. \A d \in Code : Open(d, o)' <=> Open(d, o) /\ d # c
    BY <2>1 DEF Open
  <2>3. \A q \in Runner : runner'[q] =
          IF q = r THEN [owner |-> invite[c].owner, code |-> c, status |-> "paired"]
                   ELSE runner[q]
    BY <1>7 DEF Paired
  <2>4. CASE invite[c].owner = o
    <3>1. Open(c, o) /\ InForce(o) = {}
      BY <1>7, <2>4 DEF Open, Paired
    <3>2. InForce(o)' \subseteq {r}
      BY <2>3, <3>1 DEF InForce
    <3>3. \A d \in Code : ~Open(d, o)'
      BY <1>2, <2>2, <3>1
    <3> QED
      BY <3>2, <3>3
  <2>5. CASE invite[c].owner # o
    <3>1. runner[r].owner # o
      BY <1>7, NoneAssumption DEF Paired, FreshIds, NoRunner
    <3>2. InForce(o)' = InForce(o)
      BY <2>3, <2>5, <3>1 DEF InForce
    <3>3. \A d \in Code : Open(d, o)' <=> Open(d, o)
      BY <2>2, <2>5 DEF Open
    <3> QED
      BY <1>3, <3>2, <3>3
  <2> QED
    BY <2>4, <2>5
<1>8. ASSUME NEW m \in Machine, SaveConfig(m) \/ LoseReply(m)
      PROVE  /\ InForce(o)' = InForce(o)
             /\ \A c \in Code : Open(c, o)' <=> Open(c, o)
  BY <1>8 DEF SaveConfig, LoseReply, InForce, Open
<1> QED
  BY <1>3, <1>4, <1>5, <1>6, <1>7, <1>8, StepIs

\* OneCodeOneRunner, by what it says of runners and of machines.
CodesOfRunners ==
  \A r \in Runner : runner[r].status # "none" =>
    /\ runner[r].code \in Code
    /\ invite[runner[r].code].state = "consumed"
    /\ invite[runner[r].code].owner = runner[r].owner

CodesApart ==
  \A r, s \in Runner :
    runner[r].code = runner[s].code /\ runner[r].code # None => r = s

CredentialsReal ==
  \A m \in Machine :
    /\ reply[m] # None => runner[reply[m]].status # "none"
    /\ config[m] # None => runner[config[m]].status # "none"

CredentialsApart ==
  \A m, n \in Machine :
    /\ reply[m] # None => reply[m] # config[n]
    /\ m # n /\ reply[m] # None => reply[m] # reply[n]
    /\ m # n /\ config[m] # None => config[m] # config[n]

LEMMA OneCodeIs ==
  OneCodeOneRunner <=>
    CodesOfRunners /\ CodesApart /\ CredentialsReal /\ CredentialsApart
  BY DEF OneCodeOneRunner, CodesOfRunners, CodesApart, CredentialsReal,
         CredentialsApart

LEMMA OneCodeKept ==
  ASSUME EnrollmentInv, [Next]_vars
  PROVE  OneCodeOneRunner'
<1> USE DEF EnrollmentInv, EnrollmentTypeOK
<1>0. /\ CodesOfRunners /\ CodesApart /\ CredentialsReal /\ CredentialsApart
  BY OneCodeIs
<1> SUFFICES CodesOfRunners' /\ CodesApart' /\ CredentialsReal' /\ CredentialsApart'
  BY DEF OneCodeOneRunner, CodesOfRunners, CodesApart, CredentialsReal,
         CredentialsApart
<1>1. CASE Quiet
  <2>1. CodesApart' /\ CredentialsReal' /\ CredentialsApart'
    BY <1>0, <1>1 DEF Quiet, CodesApart, CredentialsReal, CredentialsApart
  <2>2. CodesOfRunners'
    BY <1>0, <1>1 DEF Quiet, CodesOfRunners
  <2> QED
    BY <2>1, <2>2
<1>2. ASSUME NEW o \in Owner, NEW c \in Code, CreateEnrollment(o, c)
      PROVE  CodesOfRunners' /\ CodesApart' /\ CredentialsReal' /\ CredentialsApart'
  <2>1. CodesApart' /\ CredentialsReal' /\ CredentialsApart'
    BY <1>0, <1>2 DEF CreateEnrollment, CodesApart, CredentialsReal, CredentialsApart
  <2>2. \A d \in Code : invite[d].state = "consumed" => invite'[d] = invite[d]
    BY <1>2 DEF CreateEnrollment, Superseded, NoInvite
  <2>3. CodesOfRunners'
    BY <1>0, <1>2, <2>2 DEF CreateEnrollment, CodesOfRunners
  <2> QED
    BY <2>1, <2>3
<1>3. ASSUME NEW r \in Runner, Revoke(r)
      PROVE  CodesOfRunners' /\ CodesApart' /\ CredentialsReal' /\ CredentialsApart'
  <2>1. \A q \in Runner : /\ runner'[q].owner = runner[q].owner
                          /\ runner'[q].code = runner[q].code
                          /\ runner'[q].status # "none" <=> runner[q].status # "none"
    BY <1>3 DEF Revoke, Runners
  <2>2. UNCHANGED <<invite, reply, config>>
    BY <1>3 DEF Revoke
  <2>3. CodesOfRunners'
    BY <1>0, <2>1, <2>2 DEF CodesOfRunners
  <2>4. CodesApart'
    BY <1>0, <2>1 DEF CodesApart
  <2>5. CredentialsReal'
    BY <1>0, <2>1, <2>2 DEF CredentialsReal
  <2>6. CredentialsApart'
    BY <1>0, <2>2 DEF CredentialsApart
  <2> QED
    BY <2>3, <2>4, <2>5, <2>6
<1>4. ASSUME NEW m \in Machine, NEW c \in Code, NEW r \in Runner, Paired(m, c, r)
      PROVE  CodesOfRunners' /\ CodesApart' /\ CredentialsReal' /\ CredentialsApart'
  <2>1. \A d \in Code : /\ invite'[d].owner = invite[d].owner
                        /\ invite'[d].state =
                             IF d = c THEN "consumed" ELSE invite[d].state
    BY <1>4 DEF Paired, Invites
  <2>2. \A q \in Runner : runner'[q] =
          IF q = r THEN [owner |-> invite[c].owner, code |-> c, status |-> "paired"]
                   ELSE runner[q]
    BY <1>4 DEF Paired
  <2>3. /\ config' = config /\ r # None
        /\ \A n \in Machine : reply'[n] = IF n = m THEN r ELSE reply[n]
    BY <1>4, NoneAssumption DEF Paired
  <2>4. CodesOfRunners'
    BY <1>0, <2>1, <2>2 DEF CodesOfRunners
  <2>5. \A q \in Runner : runner[q].code # c
    <3>1. invite[c].state = "open" /\ c # None
      BY <1>4, NoneAssumption DEF Paired
    <3> QED
      BY <1>0, <3>1 DEF CodesOfRunners, FreshIds, NoRunner
  <2>6. CodesApart'
    BY <1>0, <2>2, <2>5 DEF CodesApart
  <2>7. \A n \in Machine : reply[n] # r /\ config[n] # r
    BY <1>0, <1>4, <2>3 DEF CredentialsReal, Paired
  <2>8. CredentialsReal'
    BY <1>0, <2>2, <2>3 DEF CredentialsReal
  <2>9. CredentialsApart'
    BY <1>0, <2>3, <2>7 DEF CredentialsApart
  <2> QED
    BY <2>4, <2>6, <2>8, <2>9
<1>5. ASSUME NEW m \in Machine, SaveConfig(m) \/ LoseReply(m)
      PROVE  CodesOfRunners' /\ CodesApart' /\ CredentialsReal' /\ CredentialsApart'
  <2>1. CodesOfRunners' /\ CodesApart'
    BY <1>0, <1>5 DEF SaveConfig, LoseReply, CodesOfRunners, CodesApart
  <2>2. /\ UNCHANGED runner /\ reply[m] # None
        /\ \A n \in Machine : /\ reply'[n] = IF n = m THEN None ELSE reply[n]
                              /\ n # m => config'[n] = config[n]
        /\ config'[m] \in {reply[m], config[m]}
    BY <1>5 DEF SaveConfig, LoseReply
  <2>3. CredentialsReal'
    BY <1>0, <2>2 DEF CredentialsReal
  <2>4. CredentialsApart'
    BY <1>0, <2>2 DEF CredentialsApart
  <2> QED
    BY <2>1, <2>3, <2>4
<1> QED
  BY <1>1, <1>2, <1>3, <1>4, <1>5, StepIs

-----------------------------------------------------------------------------
(* The theorems. *)

LEMMA StepHolds == EnrollmentInv /\ [Next]_vars => EnrollmentInv'
  BY StepCharges, TypesKept, FreshIdsKept, OneWayKept, OneCodeKept
     DEF EnrollmentInv, Charges

\* Types, counter, codes and credentials in every reachable state.
THEOREM EnrollmentSound == Spec => []EnrollmentInv
<1>1. EnrollmentInv /\ [Next]_vars => EnrollmentInv'
  BY StepHolds
<1> QED
  BY InitHolds, <1>1, PTL DEF Spec

\* Type correctness of the five tables.
THEOREM EnrollmentTypes == Spec => []EnrollmentTypeOK
<1>1. EnrollmentInv => EnrollmentTypeOK
  BY DEF EnrollmentInv
<1> QED
  BY EnrollmentSound, <1>1, PTL

\* The counter beside the rate-limit table is the number of its rows and never
\* above MAX_RUNNER_RATE_LIMIT_BUCKETS, for any limits.
THEOREM BucketsAreCounted == Spec => []BucketsCounted
<1>1. EnrollmentInv => BucketsCounted
  BY DEF EnrollmentInv, Counted, BucketsCounted
<1> QED
  BY EnrollmentSound, <1>1, PTL

\* consumeRateLimitBucket turns a caller away for want of room only when every
\* row of a full table is in use.
THEOREM RefusalsAreDue == Spec => RefusedOnlyWhenFull
<1>1. EnrollmentInv /\ [Next]_vars =>
        [limits'.denied > limits.denied =>
           /\ Cardinality(Rows(limits')) = MaxBuckets
           /\ Expired(limits') = {}]_vars
  BY StepCharges DEF Charges, FullOfUse
<1> QED
  BY EnrollmentSound, <1>1, PTL DEF Spec, RefusedOnlyWhenFull

\* One open code or one runner in force for every owner, and never both.
THEOREM OwnersHaveOneWayIn == Spec => []OneWayIn
<1>1. EnrollmentInv => OneWayIn
  BY DEF EnrollmentInv
<1> QED
  BY EnrollmentSound, <1>1, PTL

\* A code brings in one runner, and one machine speaks for it.
THEOREM CodesBringOneRunner == Spec => []OneCodeOneRunner
<1>1. EnrollmentInv => OneCodeOneRunner
  BY DEF EnrollmentInv
<1> QED
  BY EnrollmentSound, <1>1, PTL
=============================================================================
