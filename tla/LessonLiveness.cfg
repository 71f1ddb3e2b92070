SPECIFICATION LiveSpec
CONSTANTS
    Lessons = {l1}
    Requests = {r1, r2}
    None = None
    MaxAttempts = 2
    Steps = {}
    Disputed = {}
    Calls = {"accept", "checkIn", "checkOut", "resolveReleaseFailed", "escrowRetry"}
    PaymentEvents = {"PAYMENT_RECEIVED"}
    PatchStatuses = {}
    Elapsed = {3000}
PROPERTIES
    HeldIsDecided
    RequestsEnd
