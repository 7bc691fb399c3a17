SPECIFICATION FairSpec
CONSTANTS
  hub = hub
  manage = manage
  c1 = c1
  c2 = c2
  c3 = c3
  Processes = {hub, manage}
  Calls = {c1, c3}
  ProcessOf <- OneEach
  OpsOf <- LoginOps
  Users = {"alice", "bob", "carol"}
  NoAccount = NoAccount
  InitialUsers <- StartUsers
  ConcurrentStart = TRUE
  TooLong = {}
  Crashes = FALSE
  Inodes = {i1, i2, i3, i4}
  NoInode = NoInode
  Partial = Partial
  NoOp = NoOp
  NoCall = NoCall
  NoData = NoData
CHECK_DEADLOCK FALSE
PROPERTY AccountsStay
