SPECIFICATION FairSpec
CONSTANTS
  Commands <- Configured
  MaxRetries = 2
  Programs = 3
  Backlog = 3
CHECK_DEADLOCK FALSE
INVARIANTS
  TypeOK
  ResultIsOurs
  LineIsCleared
PROPERTIES
  DialReturns
