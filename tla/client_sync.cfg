SPECIFICATION DeviceSpec
CONSTANTS
  Content = {c1, c2}
  Edited = Edited
  None = None
  Watcher = w
  Process = {w, m}
  MaxEvents = 2
  Name <- MCName
  Unnamed = ""
  Command = {"c1", "c2"}
  Fold <- MCFold
  Rank <- MCRank
  MaxAliases = 3
  Held <- MCHeld
  NoDocument = NoDocument
  MaxEdits = 2
  Shell = {s1}
  OwnNames = {"gs"}
  Own = "own"
  Absent = "absent"
  Legacy <- MCLegacy
  MaxUses = 2
  RcFile <- MCRcFile
  MaxRcEdits = 4
  Ticket = {t1, t2}
  Page = {t1}
  Row = {d1, d2}
  Key = {k1, k2, k3}
  Run = {r1, r2}
  Nobody = nobody
  MaxMishaps = 2
INVARIANTS
  DeviceTypeOK
  BlockIsOnRecord
  CurrentUnlessBranch
  OneBadAliasStopsNoOther
  NoLeftovers
  SyncSettles
  ImportReadsTheUsers
  OneDeviceUnlessLeft
PROPERTIES
  EventuallyCurrent
  RegistrationIsUsable
  StaleWasCurrent
  UnrelatedAliasesAreKept
  ShellsCatchUp
  UninstallGivesBack
  RegisterKeepsWorkingToken
  TicketsAdmitOnce
  PageTellsItsTruth
  PageStopsWaiting
