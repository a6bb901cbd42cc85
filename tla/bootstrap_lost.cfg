SPECIFICATION Spec
CONSTANTS
  Content = {c1, c2}
  Edited = Edited
  None = None
  Watcher = w
  Process = {w, m}
  MaxEvents = 0
INVARIANT UninstallRemovesBlock
