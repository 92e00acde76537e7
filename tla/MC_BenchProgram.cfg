SPECIFICATION ProgramFairSpec
CONSTANTS
    NumPayers = 4
    MaxBatch = 2
    MaxFailed = 3
    PayerBalance = 2
    Fee = 1
    LamportsPerSol = 10
    StartFunds = {0, 11, 12, 15}
    Balances = {0, 1, 2}
    MaxUnstaked = 1
    MinStaked = 1
    MaxStaked = 4
    TotalStaked = 9
    DefaultStreams = 2
    Votes <- VoteAccounts
    Instructions = 1
    Lamports = 5
    CuBudget = 4
    CuCost = 2
    PoolSize = 2
    MaxBatches = 3
INVARIANTS ProgramTypeOK BatchFits FundsSuffice PayersBalanced FileServes
PROPERTIES Terminates
CHECK_DEADLOCK FALSE
