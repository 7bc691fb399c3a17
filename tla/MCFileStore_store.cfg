SPECIFICATION FairSpec
CONSTANTS
  hub = hub
  manage = manage
  c1 = c1
  c2 = c2
  c3 = c3
  Processes = {hub, manage}
  Calls = {c1, c2, c3}
  ProcessOf <- HubAndManage
  OpsOf <- HubOps
  Users = {"alice", "bob", "carol"}
  NoAccount = NoAccount
  InitialUsers <- StartUsers
  ConcurrentStart = FALSE
  TooLong = {"long"}
  Crashes = TRUE
  Inodes = {i1, i2}
  NoInode = NoInode
  Partial = Partial
  NoOp = NoOp
  NoCall = NoCall
  NoData = NoData
CHECK_DEADLOCK FALSE
INVARIANTS
  TypeOK
  LiveFileParses
  OneUpdate
  UpdatesOwnUser
PROPERTIES
  ImplementsUserStore
  CallsReturn
