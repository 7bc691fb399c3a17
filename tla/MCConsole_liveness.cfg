SPECIFICATION FairSpec
CONSTANTS
  s1 = s1
  s2 = s2
  Sessions = {s1, s2}
  Dials = {d1, d2}
  SiteNames = {A}
  Idle = Idle
  WithModemInit = {A}
  Outcomes = {"CONNECT", "NO CARRIER"}
  maxRetries = 2
  Impatient = {s1}
  LogDirFails = TRUE
  NoDial = NoDial
  NoSession = NoSession
CHECK_DEADLOCK FALSE
PROPERTIES
  HeldForeverMeansUsedOrLeaked
  DialingScreenResolves
  DisconnectEndsSession
