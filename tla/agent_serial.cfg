CONSTANTS
    r1 = r1
    r2 = r2
    a1 = a1
    typed = typed
    main = main
    side = side
    c1 = c1
    p1 = p1
    p2 = p2
    n1 = n1
    Turns = {r1, a1}
    Runs = {r1}
    Asks = {a1}
    Written = typed
    BranchNames = {main, side}
    MainBranch = main
    CheckpointNames = {c1}
    Notes = {n1}
    RecentKept = 1
    Threshold = 1
    Plans = {p1}
    Overlap = FALSE
    Requested = {"sticky_facts", "layered_memory"}
    Dialogues <- NoDialogues
    Moves = {"idle", "planning", "execution", "validation", "done"}
    Evidence <- AllEvidence
    MaxOps = 4
    MaxCrashes = 1
CHECK_DEADLOCK FALSE
SPECIFICATION Spec
PROPERTIES
    NothingLost
    BranchesApart
    TaskMachineSpec
