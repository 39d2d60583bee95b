SPECIFICATION FairSpec
CONSTANTS
    grow = grow
    out = out
    in = in
    by = by
    c1 = c1
    c2 = c2
    NoAction = NoAction
    Actions <- ResizeOutIn
    Kind <- Kinds
    ScaleBy <- ByOne
    Containers <- TwoContainers
    Items <- GrowFirst
    Replicas0 = 1
    Template0 <- Start
    UserAmount = 5
    Attempts = 2
    Pauses = {TRUE, FALSE}
    UserReplicas = {0, 2}
    MaxFailures = 1
    MaxWrites = 1
INVARIANTS
    NoLostScaling
    FailedResizeLeavesNoTrace
PROPERTIES
    EveryActionEnds
CHECK_DEADLOCK FALSE
