CONSTANTS
  Incident = {i1, i2}
  None = None
  MaxSnapshots = 3
SPECIFICATION Spec
INVARIANTS
  QuietOnceClosed
  InvestigationSound
PROPERTIES
  StopEnds
  NewestIsTaken
CHECK_DEADLOCK FALSE
