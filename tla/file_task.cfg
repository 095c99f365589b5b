SPECIFICATION SizedSpec
CONSTANTS
    d1 = d1
    d2 = d2
    d3 = d3
    d4 = d4
    t1 = t1
    t2 = t2
    Docs = {d1, d2, d3, d4}
    Tasks = {t1, t2}
    Texts = {original, edited, t1, t2}
    Original = original
    Ends <- BothEnds
    Mentions <- FirstBothThenAll
    MaxToolCalls = 11
    MaxModelCalls = 5
    MaxRounds = 1
    MaxEdits = 1
    MaxFailures = 1
    TasksOverlap = FALSE
    EditsMeanwhile = FALSE
CHECK_DEADLOCK FALSE
INVARIANTS
    ResultIsTrue
PROPERTIES
    AppliedToWhatItWasMadeFor
    TasksEnd
