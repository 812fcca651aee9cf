SPECIFICATION Spec
CONSTANTS
    Run = {r1}
    Reviewer = {v1, v2}
    Head = {h1, h2}
    MaxBase = 2
    MaxAttempt = 2
    Routed <- RoutedByHead
    MayClose = TRUE
    Faults = FALSE
    None = None
    h1 = h1
    h2 = h2
    v1 = v1
    v2 = v2
    r1 = r1
    r2 = r2
PROPERTIES
    FailedPublisherRevokes
CHECK_DEADLOCK FALSE
