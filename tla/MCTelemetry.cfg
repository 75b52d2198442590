CONSTANTS
  Provider = {"mlflow"}
  Event <- AllEvents
  Disabled = {"session_start", "turn_end", "message_end"}
  Cap = 2
  None = None
  Call = {"bash"}
  Agent = {"scout"}
  MaxSeq = 2
  MaxTaken = 3
  MaxSessions = 2
SPECIFICATION FairSpec
INVARIANTS
  OneTerminalEvent
  SpansAreKept
PROPERTIES
  ShutdownSettles
  KeepsOrder
CHECK_DEADLOCK FALSE
