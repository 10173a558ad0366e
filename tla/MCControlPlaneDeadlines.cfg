CONSTANTS
  Run = {r1}
  NoRun = NoRun
  HeartbeatLoss = 2
  StepDeadline = 3
  ClaimLease = 4
  RunDeadline = 5
  RequestCooldown = 1
  CommandExpiry = 6
  ApprovalWindow = 7
  DailyCap = 1
  MaxIncidentVersion = 3
SPECIFICATION Spec
INVARIANTS
  RecoveryMatchesPhase
  ExecutionAuthorised
PROPERTIES
  OutcomeIsFinal
  DecisionIsFinal
  ImplementsPromise
CHECK_DEADLOCK FALSE
