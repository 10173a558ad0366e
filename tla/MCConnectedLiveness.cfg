CONSTANTS
  Runner = {g1}
  NoRunner = NoRunner
  MaxCommands = 1
  MaxInstances = 2
  Instance = {0, 1, 2}
  HistoryLimit = 2
  JournalLimit = 1
  MaxDelayed = 1
SPECIFICATION FairFreshSpec
PROPERTIES
  EveryCommandEnds
  ResultReachesServer
CHECK_DEADLOCK FALSE
