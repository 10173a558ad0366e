CONSTANTS
  Owner = {o1, o2}
  Code = {c1, c2, c3}
  Runner = {r1, r2}
  Machine = {m1, m2}
  Address = {a1}
  None = None
  PairLimit = 2
  AddressLimit = 2
  RunnerLimit = 1
  MaxBuckets = 3
  CleanupBatch = 1
  Window = 1
  InviteWindow = 2
  MaxDenied = 1
SPECIFICATION Spec
SYMMETRY Alike
INVARIANTS
  BucketsCounted
  OneWayIn
  OneCodeOneRunner
PROPERTIES
  RefusedOnlyWhenFull
