CONSTANTS
  Run = {r1}
  NoRun = NoRun
  HeartbeatLoss = 1
  StepDeadline = 2
  ClaimLease = 2
  RunDeadline = 3
  RequestCooldown = 1
  CommandExpiry = 3
  ApprovalWindow = 2
  DailyCap = 1
  MaxIncidentVersion = 9
SPECIFICATION CoordinatorSpec
INVARIANTS
  RestartedOnce
  RestartNeedsPermission
  OneHandOnTheSandbox
  WaitingCanBeClosed
  NoOpenDecision
PROPERTIES
  RestartsSentBeforeRestoration
  RulesKept
CHECK_DEADLOCK FALSE
