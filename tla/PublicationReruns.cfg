SPECIFICATION Spec
CONSTANTS
    Run = {r1}
    Reviewer = {v1, v2}
    Head = {h1, h2}
    MaxBase = 1
    MaxAttempt = 2
    Routed <- RoutedByHead
    MayClose = TRUE
    Faults = TRUE
    None = None
    h1 = h1
    h2 = h2
    v1 = v1
    v2 = v2
    r1 = r1
    r2 = r2
INVARIANTS
    SuccessIsVisible
    CommentsAreTruthful
    OneLateWrite
    EarlierAttemptsDoNotBlock
CHECK_DEADLOCK FALSE
