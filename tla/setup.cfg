\* A table of two page tokens, so that a third one evicts.
SPECIFICATION Spec
CONSTANTS
  Username = {Admin, alice}
  Admin = Admin
  PageToken = {k1, k2, k3}
  Request = {r1, r2}
  MaxTokens = 2
  TTL = 2
  MaxTime = 2
SYMMETRY Symmetry
INVARIANTS
  TypeOK
  OneOperator
  SetupIsOpen
  PageTokenLasts
PROPERTY OnceDoneStaysDone
