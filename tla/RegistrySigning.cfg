SPECIFICATION Spec
CONSTANTS
    e0 = e0
    e1 = e1
    a0 = a0
    a1 = a1
    a2 = a2
    EthAddress = {e0, e1}
    ContractAddress = {a0, a1, a2}
    ZeroEth = e0
    ZeroAccount = a0
    MaxNonce = 3
    MaxCount = 1
    MaxTime = 3
    MaxSigned = 2
    Requests <- TimedRequests
    Presigned = {}
CHECK_DEADLOCK FALSE
PROPERTIES
    NewOwnerWasConsented
    StaleForever
    ChangeRetiresConsent
    ConsentSpec
    EventsDescribeStep
