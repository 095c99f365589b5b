CONSTANTS
    Clients = {k1, k2}
    Limit = 2
    Window = 2
    Second = 1
    ForgetAt = 1
    MaxTime = 1
    Requests = {q1, q2, q3}
    Conversations = {c1, c2}
    NoConversation = none
    MaxConcurrent = 2
    MaxCrashes = 1
    Turns = {r1, r2}
    Servers <- ThreeServers
    Offers <- OneToolEach
    MaxFailures = 1
    MaxCalls = 1
    Called = {"save_to_file"}
    MaxNames = 4
    SavesOverlap = FALSE
CHECK_DEADLOCK FALSE
SPECIFICATION TurnsSpec
INVARIANTS
    TurnsTypeOK
    PlacesAreHeld
    ConversationsAreWhole
    SavedIsTrue
    OnlyItsOwnTools
PROPERTIES
    NobodyWaitsForEver
