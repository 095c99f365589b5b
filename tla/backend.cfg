CONSTANTS
    Creators = {t1, t2}
    Requested = {1, 2}
    MinInterval = 1
    MaxInterval = 2
    TogetherAllowed = FALSE
    WordsPerRun = 1
    RunsKept = 2
    ItemsKept = 2
    MaxClock = 2
    MaxStops = 1
    p1 = p1
    p2 = p2
    Pulls = {p1, p2}
    MaxPolls = 1
    MaxPushes <- TwoThenOne
    MaxFailures = 1
CHECK_DEADLOCK FALSE
SPECIFICATION BackendSpec
INVARIANTS
    BackendTypeOK
    TasksAreKept
    RecordIsKept
    ReviewsAreRight
PROPERTIES
    BackendGetsOn
