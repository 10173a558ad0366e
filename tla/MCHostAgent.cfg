CONSTANTS
  MaxCommands = 3
  MaxInstances = 2
  JournalLimit = 2
SPECIFICATION AgentSpec
INVARIANTS
  ExecutedOnce
  OneUndelivered
PROPERTIES
  JournalKeepsResults
