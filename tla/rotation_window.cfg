\* Two handlers on one device in flight at once, one of them a rotation.
CHECK_DEADLOCK FALSE
SPECIFICATION Spec
CONSTANTS
  Device = {d1}
  Token = {t1, t2, t3}
  Request = {r1, r2}
  NoDevice = NoDevice
  EnrollTTL = 1
  MaxTime = 0
INVARIANT OneCredential
