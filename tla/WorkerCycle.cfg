SPECIFICATION FairSpec
CONSTANTS
    gate = gate
    audit = audit
    ArticleJob = {gate}
    CaseJob = {audit}
    Worker = {w1, w2}
    Slot = {s1, s2}
    MaxAttempts = 1
    TypeOf <- MCTypeOf
    Schedule <- MCSchedule
    ClaimLimit = 2
    Mode = {"once", "drain", "single"}
    MaxFaults = 1
INVARIANTS ClaimsStop ClaimedIsExecuted OneLimitPerCycle AnswerIsRecorded
PROPERTIES CycleEnds EligibleIsClaimed
CHECK_DEADLOCK FALSE
