SPECIFICATION Spec
CONSTANTS
    NumPayers = 4
    MaxBatch = 2
    MaxFailed = 3
    PayerBalance = 2
    Fee = 1
    LamportsPerSol = 10
    StartFunds = {0, 11, 12, 15}
    Balances = {0, 1, 2}
INVARIANTS BalancesValid
CHECK_DEADLOCK FALSE
