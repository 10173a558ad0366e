CONSTANTS
  Runner = {g1}
  NoRunner = NoRunner
  MaxCommands = 2
  MaxInstances = 2
  Instance = {0, 1, 2}
  HistoryLimit = 1
  JournalLimit = 1
  MaxDelayed = 1
SPECIFICATION FreshSpec
INVARIANTS
  OneActive
  OutcomeHasGrounds
  ReportIsTrue
PROPERTIES
  TerminalIsFinal
  AgentContract
  ContractKept
CHECK_DEADLOCK FALSE
