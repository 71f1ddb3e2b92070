SPECIFICATION LiveSpec
CONSTANTS
    Requests = {r1, r2}
    CnhTexts <- SomeTexts
    TwoYears = 1
    Horizon = 3
    None = None
INVARIANTS
    NoLessonWithoutApproval
    ExpiredIsPast
PROPERTIES
    DateNotLost
    CredentialsExpire
    LapsedCnhBlocks
