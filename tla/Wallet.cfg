SPECIFICATION Spec
CONSTANTS
    Account = {alice, bob}
    Selected = alice
    Chain = {mainnet, testnet}
    Wanted = mainnet
    NoAccount = NoAccount
    MaxChanges = 3
    None = None
INVARIANTS
    ListenersRemoved
PROPERTIES
    EventSettles
    UnderSelection
CHECK_DEADLOCK FALSE
