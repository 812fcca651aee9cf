SPECIFICATION Spec
CONSTANTS
    MaxSignals = 3
    Source = {s1, s2}
    MaxEdits = 3
    None = None
CHECK_DEADLOCK FALSE
INVARIANTS
    RecordIsTruthful
    CleanupUnlessInterrupted
PROPERTIES
    ReleaseEnds
