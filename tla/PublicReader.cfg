CONSTANTS
  Article <- MCArticle
  Case = {1, 2}
  MaxIdentities <- MCMaxIdentities
  Cards <- MCCards
  Descriptions <- MCDescriptions
  CandidateLimit = 2
  References <- MCReferences
  CommitMayFail = {"entity", "event"}
SPECIFICATION Spec
INVARIANTS TypeOK LinksMatchAssignments AssignmentsFollowLinks  
 
CHECK_DEADLOCK FALSE
