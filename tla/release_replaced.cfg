SPECIFICATION AboutSpec
CONSTANTS
    f1 = f1
    f2 = f2
    f3 = f3
    c1 = c1
    c2 = c2
    n1 = n1
    n2 = n2
    i1 = i1
    i2 = i2
    Files = {f1, f2, f3}
    Checks <- TwoChecks
    Names <- TwoNames
    Ids = {i1, i2}
    MaxIdTries = 2
    BatchFiles = 2
    MaxBatches = 1
    MaxRuns = 1
    MaxChanges = 2
    MaxOthers = 2
    MaxFailures = 1
CHECK_DEADLOCK FALSE
PROPERTY NeverOverwritten
