SPECIFICATION Spec
CONSTANTS
    N = 2
    Workers = {w1, w2}
    NoWorker = NoWorker
    Addr <- OneContract
    Type <- AllRun
    MaxRecovery = 1
    MaxRetries = 2
    MaxCrashes = 0
    MaxFaults = 2
    MaxAppeals = 1
    Env = {"latecommit", "rowlock"}
SYMMETRY AnyWorker
INVARIANTS TypeOK LeaseHeld SerialExecution DecidedHasResult
CHECK_DEADLOCK FALSE
