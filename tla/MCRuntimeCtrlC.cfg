SPECIFICATION FairSpec
CONSTANTS
    t1 = t1
    t2 = t2
    t3 = t3
    t4 = t4
    Panicking = {}
    Txs = {t1, t2, t3}
    NoTx = NoTx
    Score <- MCScore
    ExecutionEnabled = TRUE
    WorkerCount = 1
    MaxQueueSize = 2
CHECK_DEADLOCK FALSE
PROPERTY ShutdownNoticed
