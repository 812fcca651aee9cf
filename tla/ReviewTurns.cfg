SPECIFICATION Spec
CONSTANTS
    Deadline = 3
    Margin = 1
    Patience = 1
    Threads = 2
    Items = 2
    MaxTurns = 2
    Prompt <- Prompts
    Native = 4
    Chunk = 3
    Envelope = 1
    MaxBytes = 6
    MaxEvents = 7
    MaxRows = 5
CHECK_DEADLOCK FALSE
INVARIANTS
    NothingSurvives
    HistoryTellsDelivery
PROPERTIES
    StreamsAreWellFormed
    DeliverySpec
    ReviewEnds
