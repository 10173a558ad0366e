CONSTANTS
  Run = {r1, r2}
  NoRun = NoRun
  HeartbeatLoss = 1
  StepDeadline = 1
  ClaimLease = 1
  RunDeadline = 1
  RequestCooldown = 1
  CommandExpiry = 1
  ApprovalWindow = 1
  DailyCap = 1
  MaxIncidentVersion = 1
SYMMETRY RunSymmetry
SPECIFICATION Spec
INVARIANTS
  RunLock
  RestorationGate
CHECK_DEADLOCK FALSE
