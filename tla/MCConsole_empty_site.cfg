SPECIFICATION Spec
CONSTANTS
  s1 = s1
  s2 = s2
  Sessions = {s1, s2}
  Dials = {d1, d2}
  SiteNames = {Idle}
  Idle = Idle
  WithModemInit = {}
  Outcomes = {"CONNECT", "NO CARRIER"}
  maxRetries = 1
  Impatient = {}
  LogDirFails = FALSE
  NoDial = NoDial
  NoSession = NoSession
SYMMETRY DialSymmetry
CHECK_DEADLOCK FALSE
INVARIANT OneSessionHoldsDevice
