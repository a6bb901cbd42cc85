\* One alias whose edit swaps its groups and its pins while a sync reads it.
CHECK_DEADLOCK FALSE
SPECIFICATION Spec
CONSTANTS
  Alias = {a1}
  Profile = {p1}
  Device = {d1, d2}
  Request = {r1}
  None = None
  Limit = 1
INVARIANT ServedWasTargeted
