SPECIFICATION FairSpec
CONSTANTS
    Kinds = {"pinned", "legacy", "ws", "yellowstone", "custom"}
    Peers = {p1, p2, p3}
    NumConnections = 2
    SendFanout = 1
    MaxTurns = 3
    MaxTxs = 2
INVARIANTS TypeOK LeaderHasWorker ConnectionsBounded
PROPERTIES Stops
