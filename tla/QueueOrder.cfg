SPECIFICATION Spec
CONSTANTS
    N = 3
    Workers = {w1, w2}
    NoWorker = NoWorker
    Addr <- OneContract
    Type <- AllRun
    MaxRecovery = 1
    MaxRetries = 2
    MaxCrashes = 1
    MaxFaults = 0
    MaxAppeals = 0
    Env = {"rowlock", "snapshot"}
SYMMETRY AnyWorker
INVARIANTS QueueOrder
CHECK_DEADLOCK FALSE
