CONSTANTS
    r1 = r1
    r2 = r2
    a1 = a1
    typed = typed
    main = main
    side = side
    c1 = c1
    p1 = p1
    p2 = p2
    n1 = n1
    Turns = {r1, r2, a1}
    Runs = {r1, r2}
    Asks = {a1}
    Written = typed
    BranchNames = {main, side}
    MainBranch = main
    CheckpointNames = {c1}
    Notes = {}
    RecentKept = 1
    Threshold = 1
    Plans = {p1}
    Overlap = TRUE
    Requested = {"summary", "layered_memory"}
    Dialogues <- MCDialogues
    Moves = {"idle", "planning", "execution", "validation", "done"}
    Evidence <- AllEvidence
    MaxOps = 3
    MaxCrashes = 1
CHECK_DEADLOCK FALSE
SPECIFICATION AboutSpec
INVARIANTS
    TaskEarned
    RefusalsStillTrue
    TypeOK
    TurnsWhole
