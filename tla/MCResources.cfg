SPECIFICATION MCSpec
CONSTANTS
    Capacity = 5
    Headroom = 1
    Step = 2
    Overhead = 1
    RatioNum = 3
    RatioDen = 4
    InitialBudget = 3
    Snapshots <- RestoredBalloons
    ColdModes = {FALSE}
    RestoreModes = {TRUE}
    Avails = {0, 3}
    HostCharges = {0}
    QueueCap = 1
    MaxReports = 2
    MaxDisturbances = 2
    MaxFaults = 2
    MaxRestarts = 1
    MaxMoves = 3
    Runs = {r1, r2, r3}
    Inventory = inventory
    None = None
    N = 3
    Seeded = {2}
    Workers = {w1, w2}
    w1 = w1
    w2 = w2
    FillPages = 2
    VCPUs = {v1}
    MaxReleases = 1
INVARIANTS
    WithinReservation
    ReservationExact
    OwnerKeepsLease
    WindowExact
    SamplesHonest
PROPERTIES
    BalloonKept
