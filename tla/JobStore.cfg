SPECIFICATION FairSpec
CONSTANTS
    ArticleJob = {a1}
    CaseJob = {k1}
    Worker = {w1, w2}
    MaxAttempts = 2
    MaxRevision = 3
INVARIANTS TypeOK ExclusiveLease FailedIsRecoverable AttemptBudget NoLostRevision NewRevisionHasBudget
PROPERTIES ImplementsRevisionedWork SuccessIsKept EventuallySettled
CHECK_DEADLOCK FALSE
