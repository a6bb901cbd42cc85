\* One login beside one reset.
SPECIFICATION Spec
CONSTANTS
  Operator = {o1}
  NoOperator = NoOperator
  Session = {s1}
  NoSession = NoSession
  Request = {r1, r2}
  Capacity = 2
  MaxResets = 1
INVARIANT ResetEndsSessions
