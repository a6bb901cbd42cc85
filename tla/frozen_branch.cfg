SPECIFICATION SourcesSpec
CONSTANTS
  Name = {"ll"}
  Unnamed = ""
  Command = {"c1", "c2"}
  Fold <- MCFold
  Rank <- MCRank
  MaxAliases = 1
  Held <- MCHeld
  NoDocument = NoDocument
  MaxEdits = 1
INVARIANT NotStaleIsCurrent
