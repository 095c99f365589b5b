CONSTANTS
    Creators = {t1, t2}
    Requested = {20}
    MinInterval = 10
    MaxInterval = 100
    TogetherAllowed = TRUE
CHECK_DEADLOCK FALSE
SPECIFICATION TasksSpec
INVARIANTS
    NeverTruncated
