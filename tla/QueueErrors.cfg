SPECIFICATION LiveSpec
CONSTANTS
    N = 3
    Workers = {w1}
    NoWorker = NoWorker
    Addr <- OneContract
    Type <- SendUpgradeRun
    MaxRecovery = 1
    MaxRetries = 2
    MaxCrashes = 0
    MaxFaults = 0
    MaxAppeals = 0
    Env = {"missing", "faulty"}
PROPERTIES EveryTransactionEnds
CHECK_DEADLOCK FALSE
