SPECIFICATION Spec
CONSTANTS
  s1 = s1
  s2 = s2
  Sessions = {s1, s2}
  Dials = {d1, d2}
  SiteNames = {A, B}
  Idle = Idle
  WithModemInit = {A}
  Outcomes = {"CONNECT", "BUSY", "NO CARRIER"}
  maxRetries = 3
  Impatient = {s1}
  LogDirFails = FALSE
  NoDial = NoDial
  NoSession = NoSession
SYMMETRY DialSymmetry
CHECK_DEADLOCK FALSE
INVARIANTS
  TypeOK
  ExclusiveDevice
  ClaimMatchesLock
  FailedDialLeavesNothing
  PatientConnectsRight
  PatientNeverLeaks
PROPERTIES
  ImplementsDeviceClaim
