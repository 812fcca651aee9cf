SPECIFICATION SessionSpec
CONSTANTS
    s1 = s1
    s2 = s2
    zero_account = zero_account
    e1 = e1
    e2 = e2
    zero_eth = zero_eth
    EthAddress = {zero_eth, e1, e2}
    ContractAddress = {zero_account, s1, s2}
    ZeroEth = zero_eth
    ZeroAccount = zero_account
    MaxNonce = 3
    MaxCount = 1
    MaxTime = 2
    Requests <- SessionRequests
    Presigned <- SessionRequests
    MaxSigned = 0
    Rival = e2
    NoCall = NoCall
    NoResult = NoResult
INVARIANTS
    MismatchExplained
    MatchedIsOurs
PROPERTIES
    RevertExplained
CONSTRAINT RivalOnlyLinks
SYMMETRY SessionSymmetry
CHECK_DEADLOCK FALSE
