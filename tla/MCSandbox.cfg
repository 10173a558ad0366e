SPECIFICATION FairSpec
CONSTANTS
  Run = {r1, r2}
  NoRun = NoRun
  Process = {p1, p2}
  NoProcess = NoProcess
  MaxOutstanding = 3
INVARIANT
  PerformedOnce
PROPERTIES
  NoStrayStop
  RecoveredIsNotEnding
  LateRestartContained
  EnvironmentRestored
