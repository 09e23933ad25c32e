SPECIFICATION FairSpec
CONSTANTS
    t1 = t1
    t2 = t2
    t3 = t3
    t4 = t4
    Panicking = {t4}
    Txs = {t1, t2, t4}
    NoTx = NoTx
    Score <- MCScore
    ExecutionEnabled = TRUE
    WorkerCount = 2
    MaxQueueSize = 2
CHECK_DEADLOCK FALSE
INVARIANTS
    TypeOK
    PermitsAccounted
    ReadyMeansServing
PROPERTIES
    BestScoreKept
    EveryTransactionSettles
    RefreshHappens
    ImplementsService
