SPECIFICATION Spec
CONSTANTS
    Process = {p1, p2}
    MaxRuns = 5
    Version = {v1, v2}
    Links = 2
    None = None
CHECK_DEADLOCK FALSE
INVARIANTS
    ExposedIsComplete
    RefusalExplained
PROPERTIES
    ReportedIsInstalled
