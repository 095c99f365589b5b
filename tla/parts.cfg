CONSTANTS
    Parts = {"limiter", "prompt", "tasks", "chunking", "reader", "plan", "findings", "draft", "patch", "search"}
    Clients = {k1, k2}
    Limit = 2
    Window = 3
    Second = 2
    ForgetAt = 2
    MaxTime = 7
    Texts <- SmallTexts
    MaxHistory = 3
    Contexts = {1, 3, 5, 6, 8}
    Reserve = 1
    Recents = {0, 1, 2, 4}
    Wrapper = 2
    Label = 2
    Creators = {t1, t2, t3}
    Requested = {5, 20, 999}
    MinInterval = 10
    MaxInterval = 100
    TogetherAllowed = TRUE
    Corpora <- SmallCorpora
    Settings <- SmallSettings
    MAX_STRUCTURAL_CHARS = 3
    MIN_STRUCTURAL_CHARS = 2
    Diffs <- SmallDiffs
    UnsafePath = "unsafe"
    MAX_FILES = 2
    ChangedFiles <- SmallChanges
    Chunks = {1, 2, 3}
    CostOf <- ItsNumber
    Scores = {1, 2}
    MaxQueries = 2
    ANCHOR_CHUNKS = 3
    CONTEXT_CHUNKS = 2
    ReviewedFiles <- SmallFiles
    Budgets = {0, 1, 4, 7, 10, 14}
    CONTEXT_SHARE = 35
    Places = {"f", "g"}
    LinesOf <- SmallLines
    Quotes = {"x", "y", "z", "w"}
    Numbers = {1, 2, 9}
    Titles = {1, 2}
    Severities = {1, 2}
    MAX_FINDINGS = 2
    MaxProposed = 5
    Facts <- SmallFacts
    Evidences <- SmallEvidences
    NoFile = "none"
    Sentences = {"t", "u", "faster"}
    Claims = {"faster"}
    Asked = {"Added", "Removed", "Fixed", "other"}
    MAX_CHANGELOG = 1
    MAX_NOTES = 1
    MaxEntries = 2
    Scripts <- SmallScripts
    Around = 1
    OtherBases <- ShorterLongerOther
    Projects <- SmallProjects
    MAX_RESULTS = 2
    MAX_LISTED = 2
    MAX_WALK = 2
CHECK_DEADLOCK FALSE
SPECIFICATION PartsSpec
INVARIANTS
    AtMostLimitPerWindow
    WaitIsEnough
    PlanIsBest
    IdsAreApart
    ChunksAreTheText
    ReadAsWritten
    FindingsAreRight
    DraftIsRight
    PatchIsRight
    SearchIsTold
PROPERTIES
    PromptIsFair
