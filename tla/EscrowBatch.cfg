SPECIFICATION LiveSpec
CONSTANTS
    Lessons = {l1, l2}
    Requests = {r1}
    None = None
    MaxAttempts = 2
    Steps = {"end"}
    Disputed = {l2}
    Calls = {"accept", "cancelStale", "checkOut", "escrowRetry", "checkIn", "biometry"}
    PaymentEvents = {"PAYMENT_RECEIVED"}
    PatchStatuses = {}
    Elapsed = {2970}
INVARIANT
    PaidLessonWasGiven
PROPERTY
    HeldIsDecided
