CONSTANTS
    r1 = r1
    r2 = r2
    a1 = a1
    typed = typed
    main = main
    side = side
    c1 = c1
    p1 = p1
    p2 = p2
    n1 = n1
    Turns = {r1, a1}
    Runs = {r1}
    Asks = {a1}
    Written = typed
    BranchNames = {main}
    MainBranch = main
    CheckpointNames = {}
    Notes = {}
    RecentKept = 1
    Threshold = 1
    Plans = {p1}
    Overlap = TRUE
    Requested = {"full"}
    Dialogues <- NoDialogues
    Moves = {}
    Evidence <- NoEvidence
    MaxOps = 0
    MaxCrashes = 0
CHECK_DEADLOCK FALSE
SPECIFICATION Spec
PROPERTIES
    NextPicksUp
