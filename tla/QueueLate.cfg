SPECIFICATION Spec
CONSTANTS
    N = 1
    Workers = {w1, w2}
    NoWorker = NoWorker
    Addr <- OneContract
    Type <- AllRun
    MaxRecovery = 3
    MaxRetries = 2
    MaxCrashes = 0
    MaxFaults = 1
    MaxAppeals = 0
    Env = {"slow", "stuck", "handover"}
SYMMETRY AnyWorker
PROPERTIES DecisionKept LeaseNotStolen
CHECK_DEADLOCK FALSE
