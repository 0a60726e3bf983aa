SPECIFICATION LiveSpec
CONSTANTS
    N = 2
    Workers = {w1, w2}
    NoWorker = NoWorker
    Addr <- OneContract
    Type <- AllRun
    MaxRecovery = 1
    MaxRetries = 2
    MaxCrashes = 1
    MaxFaults = 0
    MaxAppeals = 1
    Env = {}
PROPERTIES EveryTransactionEnds OrderedFinalitySpec
CHECK_DEADLOCK FALSE
