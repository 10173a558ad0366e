CONSTANTS
  Runner = {g1, g2}
  NoRunner = NoRunner
  MaxCommands = 1
  MaxInstances = 1
  Instance = {0, 1}
  HistoryLimit = 2
  JournalLimit = 1
  MaxDelayed = 0
SPECIFICATION DeliveringSpec
PROPERTY
  ResentUntilAccepted
CHECK_DEADLOCK FALSE
