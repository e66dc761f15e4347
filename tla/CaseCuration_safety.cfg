CONSTANTS
  Article = {a1, a2, a3}
  MaxCases = 2
  MaxRevision = 3
  MaxQueued = 1
  MaxHandlers = 1
  CommitMayFail = TRUE
SPECIFICATION Spec
SYMMETRY Symmetry
INVARIANTS SnapshotIsCurrent CountsMatch AuditedEvidence
PROPERTIES MergeKeepsEvidence RetrievalSeesMutations
CHECK_DEADLOCK FALSE
