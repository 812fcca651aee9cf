SPECIFICATION Spec
CONSTANTS
    Run = {r1, r2}
    Reviewer = {v1}
    Head = {h1, h2}
    MaxBase = 2
    MaxAttempt = 1
    Routed <- RoutedByHead
    MayClose = TRUE
    Faults = FALSE
    None = None
    h1 = h1
    h2 = h2
    v1 = v1
    v2 = v2
    r1 = r1
    r2 = r2
CHECK_DEADLOCK FALSE
PROPERTIES
    PendingSettles
