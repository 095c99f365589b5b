SPECIFICATION FairSpec
CONSTANTS
    Sizes <- TwoThreeOne
    Requests = {r1}
    RetrievalTopK = 2
    FinalTopK = 1
    QUERY_REWRITE_ENABLED = TRUE
    RETRY_WITH_QUESTION = FALSE
CHECK_DEADLOCK FALSE
INVARIANTS
    IndexIsWhole
    OutcomeIsTrue
PROPERTIES
    QuestionsEnd
