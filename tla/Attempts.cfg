SPECIFICATION Spec
CONSTANTS
    Attempt = {submit, query}
    Submitting = {submit}
    Identity = {alice, bob, elsewhere}
    Trusted = {alice, bob}
    Reason = {"account-changed", "disconnected"}
    Silent = TRUE
    MaxGeneration = 2
    None = None
INVARIANTS
    HashReported
    SuccessLeavesNoListener
PROPERTIES
    CancellationSettles
    ExecuteUnchanged
    ResultUnchanged
CHECK_DEADLOCK FALSE
