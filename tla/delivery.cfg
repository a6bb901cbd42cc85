\* Every id may be drawn and deleted: the operators then have nothing left to do.
CHECK_DEADLOCK FALSE
SPECIFICATION Spec
CONSTANTS
  Alias = {a1, a2}
  Profile = {p1}
  Device = {d1, d2}
  Request = {r1}
  None = None
  Limit = 2
SYMMETRY Symmetry
INVARIANTS
  TypeOK
  StableAliasesServedExactly
  NothingDangles
PROPERTIES
  EditKeepsWhatTheFormHides
  DeletionNarrowsUnlessLastTarget
VIEW View
