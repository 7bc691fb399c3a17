SPECIFICATION Spec
CONSTANTS
  Sessions = {s1}
  owner <- Alices
  Submits = {1}
  Users = {"alice", "bob"}
  NoAccount = NoAccount
  InitialUsers <- StartUsers
  Passwords = {"short", "new", "long"}
  Temporary = "temp"
  TooShort = {"short"}
  TooLong = {"long"}
  LegacyUsers <- Legacy
  Operator = Operator
  Migrator = Migrator
  OperatorCalls = 1
  NoOp = NoOp
CHECK_DEADLOCK FALSE
PROPERTY MigrationRunsOnce
