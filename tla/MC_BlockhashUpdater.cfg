SPECIFICATION FairSpec
CONSTANTS
    UpdateInterval = 2
    StuckInterval = 10
    RpcTimeout = 3
    MaxLate = 3
INVARIANTS TypeOK AgeBounded GoneBounded StuckInVain
PROPERTIES PublishesOrEnds
CHECK_DEADLOCK FALSE
