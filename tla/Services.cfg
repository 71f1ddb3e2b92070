SPECIFICATION ServicesSpec
CONSTANTS
    None = None
    Requests = {r1, r2}
    Accounts = {a1, a2, a3}
    Shadowed = {a3}
    Tokens = {t1, t2, t3}
    b1 = b1
    b2 = b2
    Batches = {b1, b2}
    Velocities <- MCVelocities
    Lessons = {l1, l2}
    Scores = {1, 5}
    Grids = {g1, g2, g3, g4}
    EmptyGrids = {g4}
    Seeds = {s1, s2}
    SIMULADO_CACHE_TTL = 3
    SimuladoScores = {20, 21}
    SimuladoMinutes = {14, 15}
    Instructors = {i1, i2}
    VehicleIds = {v1, v2, v3}
    Plates = {p0, p1}
    EmptyPlate = p0
    Bodies <- MCBodies
    Known <- MCKnown
SYMMETRY Symmetry
INVARIANTS
    TokenUsedOnce
    LatestTokenStays
    HashCoversTelemetry
    EventsMatchTelemetry
    RatingIsAverage
    GridIsReplaced
    PoolIsRecent
    ChecklistIsEarned
    OneVehicle
    SwapIsCaught
PROPERTIES
    OnlyLatestResets
    ReportIsCurrent
CHECK_DEADLOCK FALSE
