SPECIFICATION Spec
CONSTANTS
    N = 3
    Workers = {w1, w2}
    NoWorker = NoWorker
    Addr <- OneContract
    Type <- AllRun
    MaxRecovery = 1
    MaxRetries = 2
    MaxCrashes = 0
    MaxFaults = 0
    MaxAppeals = 2
    Env = {}
SYMMETRY AnyWorker
PROPERTIES OrderedFinalitySpec
CHECK_DEADLOCK FALSE
