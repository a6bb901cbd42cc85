\* Three requests for two slots: one of them finds the limiter full.
SPECIFICATION Spec
CONSTANTS
  Operator = {o1}
  NoOperator = NoOperator
  Session = {s1, s2}
  NoSession = NoSession
  Request = {r1, r2, r3}
  Capacity = 2
  MaxResets = 2
INVARIANTS
  TypeOK
  SlotsAreAccounted
  ResetEndsSessionsUnlessRaced
PROPERTY CapacityComesBack
