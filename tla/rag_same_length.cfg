SPECIFICATION FairSpec
CONSTANTS
    Sizes <- Alike
    Requests = {r1}
    RetrievalTopK = 1
    FinalTopK = 1
    QUERY_REWRITE_ENABLED = TRUE
    RETRY_WITH_QUESTION = FALSE
INVARIANTS NeverTheWrongChunk
CHECK_DEADLOCK FALSE
