SPECIFICATION Spec
CONSTANTS
    BumpPercent = 10
    MinGasPrice = 10
    MaxGasPrice = 200
    SoftGasCap = 125
    Opps = {o1, o2, o3}
    NoOpp = NoOpp
    NoTx = NoTx
    Victim <- MCVictim
    Gross <- MCGross
    NetworkFloors <- NarrowFloors
    GasLimit = 2
    GasUsed = 1
    MinRoi = 10
    MaxDailySpend = 221
    BreakerEnabled = TRUE
    MaxConsecutiveFailures = 2
    InitNonce = 0
    MaxRestarts = 1
SYMMETRY Symmetry
CHECK_DEADLOCK FALSE
INVARIANTS
    FailuresBounded
    OffersWithinSoftCap
    NoNonceGap
    NonceNotShared
    ConfirmedIsMined
PROPERTIES
    NoSendWhileOpen
    BreakerLatched
