SPECIFICATION Spec
CONSTANTS
    e0 = e0
    e1 = e1
    e2 = e2
    e3 = e3
    a0 = a0
    a1 = a1
    a2 = a2
    EthAddress = {e0, e1, e2, e3}
    ContractAddress = {a0, a1, a2}
    ZeroEth = e0
    ZeroAccount = a0
    MaxNonce = 2
    MaxCount = 2
    MaxTime = 0
    MaxSigned = 0
    Requests <- AllRequests
    Presigned <- AllRequests
CHECK_DEADLOCK FALSE
SYMMETRY RegistrySymmetry
INVARIANTS
    TypeOK
    ListsMirrorLinks
    PagesPartitionMembership
    OwnerCanAlwaysLeave
