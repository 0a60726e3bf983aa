SPECIFICATION Spec
CONSTANTS
    N = 3
    Workers = {w1, w2}
    Envs <- MCEnvs
    MaxCrashes = 1
    MaxAppeals = 1
SYMMETRY AnyWorker
INVARIANTS StorageRestored
CHECK_DEADLOCK FALSE
