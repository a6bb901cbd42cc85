\* One group, one device in it, one alias aimed at it.
CHECK_DEADLOCK FALSE
SPECIFICATION Spec
CONSTANTS
  Alias = {a1}
  Profile = {p1}
  Device = {d1}
  Request = {r1}
  None = None
  Limit = 1
PROPERTY DeletedGroupStopsReaching
