SPECIFICATION Spec
CONSTANTS
    Lessons = {l1}
    Requests = {r1}
    None = None
    MaxAttempts = 2
    Steps = {}
    Disputed = {}
    Calls = {"accept", "checkIn", "checkOut", "resolveDispute"}
    PaymentEvents = {"PAYMENT_CONFIRMED"}
    PatchStatuses = {}
    Elapsed = {3000}
INVARIANT
    ReleaseOrRefund
