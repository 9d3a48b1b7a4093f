SPECIFICATION FairSpec
CONSTANTS
  MaxReconnectAttempts = 2
  MaxSockets = 2
  MaxUnanswered = 2
INVARIANTS WireInv InputsAtTheirPrompts
PROPERTIES DropsResolved
CHECK_DEADLOCK FALSE
