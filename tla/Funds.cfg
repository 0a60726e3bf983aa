SPECIFICATION Spec
CONSTANTS
    user = user
    contract = contract
    other = other
    Addr <- MCAddr
    Workers = {w1, w2}
    Callers = {c1}
    Funding <- MCFunding
    Opened <- MCOpened
    Submissions <- MCSubmissions
    Faucets <- MCFaucets
    MaxRows = 3
    MaxFaults = 1
INVARIANTS TypeOK NoOverdraw CreditedOnce Conserved FreezeKept
CHECK_DEADLOCK FALSE
SYMMETRY MCSymmetry
