SPECIFICATION Spec
CONSTANTS
    Distribution <- MCDistribution
    Allocations <- MCAllocations
    Policy <- MCPolicy
    Deposit <- MCDeposit
    Receipts <- MCReceipts
    TopUps <- MCTopUps
    Bonds <- MCBonds
    Callers = {c1}
    MaxHistory = 3
    MaxFailures = 2
    MaxCalls = 1
INVARIANTS TypeOK LedgerAgrees RefundBounded PotsHold FinalizationNeverRaises
PROPERTY ClosedForGood
CHECK_DEADLOCK FALSE
