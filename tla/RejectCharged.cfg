SPECIFICATION Spec
CONSTANTS
    Lessons = {l1}
    Requests = {r1, r2}
    None = None
    MaxAttempts = 2
    Steps = {}
    Disputed = {}
    Calls = {"accept", "reject"}
    PaymentEvents = {"PAYMENT_CONFIRMED"}
    PatchStatuses = {}
    Elapsed = {3000}
PROPERTY
    RejectedIsNotCharged
CHECK_DEADLOCK FALSE
