SPECIFICATION Spec
CONSTANTS
    Tries = 2
    Attempts = 2
    Machines = 2
    Validators = 2
    Program <- MCProgram
    Replacements = 1
    Commits = 2
    FailureThreshold = 2
    MinPermits = 1
    Sustain = 1
    Cooldown = 2
    Managers = {"rpc", "worker"}
    Rpc = "rpc"
    Changes = 2
    Sims = {1}
    Slots = {1, 2}
    Threshold = 2
    Channels = {"a", "b"}
    Events = 2
    Limits <- MCLimits
    CallLimit <- MCCallLimit
    MaxConcurrent = 1
    Delay = 1
    Horizon = 2
    Requests = 4
    MaxValidators = 6
    Envs <- MCEnvs
    Initials = {1, 2}
    MaxRotations = 1
    MaxAppeals = 3
INVARIANTS ServedIsReturned NoFalseViolation NewValidatorsUsed RateKept
PROPERTIES MachinesStop ReadyAgain StallReported WorkGoesOn EventsArrive PanelIsDue
CHECK_DEADLOCK FALSE
