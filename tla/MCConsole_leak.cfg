SPECIFICATION Spec
CONSTANTS
  s1 = s1
  s2 = s2
  Sessions = {s1}
  Dials = {d1, d2}
  SiteNames = {A, B}
  Idle = Idle
  WithModemInit = {A}
  Outcomes = {"CONNECT", "NO CARRIER"}
  maxRetries = 1
  Impatient = {s1}
  LogDirFails = FALSE
  NoDial = NoDial
  NoSession = NoSession
SYMMETRY DialSymmetry
CHECK_DEADLOCK FALSE
INVARIANT ActiveSiteIsInUse
