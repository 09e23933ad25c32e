SPECIFICATION FairSpec
CONSTANTS
    Eth = 1000
    MaxWholeEth = 100
    U256Max = 2000000000
    MinTxValue = 100
    MinGasPrice = 1
    MaxGasPrice = 50
    BumpPercent = 15
    SlippageBps = 50
    BaseLiquidity = 10000
    MinRoi = 15
    MaxRiskScore = 60
    Workers = {w1, w2}
    Main = Main
    Candidates <- MCCandidates
    Ratio <- MCRatio
    Ttl = 1
    FetchTicks = 1
    Lag = 1
    MaxBlock = 2
INVARIANTS
    TypeOK
    StateAgeBounded
    OwnFetchNotOlder
    TokenTransfersDeclined
    FoundPays
PROPERTY CacheCatchesUp
