SPECIFICATION FairSpec
CONSTANTS
    BumpPercent = 10
    MinGasPrice = 10
    MaxGasPrice = 200
    SoftGasCap = 165
    Opps = {o1, o2}
    NoOpp = NoOpp
    NoTx = NoTx
    Victim <- MCVictim
    Gross <- MCGross
    NetworkFloors <- LadderFloors
    GasLimit = 2
    GasUsed = 1
    MinRoi = 10
    MaxDailySpend = 221
    BreakerEnabled = TRUE
    MaxConsecutiveFailures = 2
    InitNonce = 0
    MaxRestarts = 1
CHECK_DEADLOCK FALSE
INVARIANTS
    TypeOK
    BidsBounded
    OneTrackedBid
PROPERTIES
    WindsDown
    ExecutionSettles
    ImplementsLifecycle
