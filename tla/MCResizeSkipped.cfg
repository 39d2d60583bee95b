SPECIFICATION Spec
CONSTANTS
    grow = grow
    out = out
    in = in
    by = by
    c1 = c1
    c2 = c2
    NoAction = NoAction
    Actions <- JustGrow
    Kind <- Kinds
    ScaleBy <- ByOne
    Containers <- TwoContainers
    Items <- ShrinkSecond
    Replicas0 = 1
    Template0 <- Start
    UserAmount = 5
    Attempts = 3
    Pauses = {FALSE}
    UserReplicas = {0, 2}
    MaxFailures = 0
    MaxWrites = 0
INVARIANTS
    SuccessIsDesired
CHECK_DEADLOCK FALSE
