\* No request is left to make once every lookup is drawn and the clock is at its
\* bound: the server then idles, which is no deadlock.
CHECK_DEADLOCK FALSE
SPECIFICATION Spec
CONSTANTS
  Device = {d1, d2}
  Token = {t1, t2, t3}
  Request = {r1, r2}
  NoDevice = NoDevice
  EnrollTTL = 1
  MaxTime = 1
SYMMETRY Symmetry
INVARIANTS
  TypeOK
  EnrollmentIntact
  PriorTokensDead
  OneCredentialUnlessContended
  DeletedIsLockedOutUnlessContended
  AuditIsTruthful
PROPERTIES
  NothingIsRestored
  ImplementsOneTimeEnrollment
