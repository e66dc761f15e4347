CONSTANTS
  Article = {a1}
  MaxCases = 2
  MaxRevision = 3
  MaxQueued = 1
  MaxHandlers = 2
  CommitMayFail = TRUE
SPECIFICATION Spec
SYMMETRY Symmetry
PROPERTIES TerminalDossier
CHECK_DEADLOCK FALSE
