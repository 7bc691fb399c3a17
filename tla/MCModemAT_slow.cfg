SPECIFICATION Spec
CONSTANTS
  Commands <- NoCommands
  MaxRetries = 1
  Programs = 3
  Backlog = 12
CHECK_DEADLOCK FALSE
INVARIANT LineIsCleared
