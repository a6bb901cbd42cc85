\* One handler at a time is enough: the calls that disagree follow each other.
CHECK_DEADLOCK FALSE
SPECIFICATION Spec
CONSTANTS
  Device = {d1}
  Token = {t1, t2, t3}
  Request = {r1}
  NoDevice = NoDevice
  EnrollTTL = 1
  MaxTime = 0
INVARIANT RevokedIsLockedOut
