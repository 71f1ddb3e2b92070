SPECIFICATION Spec
CONSTANTS
    Lessons = {l1}
    Requests = {r1, r2}
    None = None
    MaxAttempts = 2
    Steps = {}
    Disputed = {}
    Calls <- Endpoints
    PaymentEvents = {"PAYMENT_RECEIVED", "PAYMENT_OVERDUE"}
    PatchStatuses = {"completed"}
    Elapsed = {2970}
SYMMETRY Symmetry
INVARIANTS
    TypeOK
    NoTransferWithoutFunds
    OneTransferPerLesson
    RowsTellTheTruth
    UpcomingIsCharged
PROPERTY
    ImplementsLedger
