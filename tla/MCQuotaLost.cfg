SPECIFICATION Spec
CONSTANTS
    q1 = q1
    q2 = q2
    a1 = a1
    a2 = a2
    a3 = a3
    NoAction = NoAction
    Quotas <- TwoQuotas
    Actions <- TwoActions
    Orig <- FullAndRoom
    Base <- UsedSoFar
    Need <- PodSizes
    MaxFailures = 1
    MaxCrashes = 0
INVARIANTS
    StretchedIsMarked
CHECK_DEADLOCK FALSE
