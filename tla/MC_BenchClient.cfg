SPECIFICATION FairSpec
CONSTANTS
    Leaders = {l1, l2}
    WorkerChannel = 1
    PoolSize = 2
    ChannelSize = 1
INVARIANTS TypeOK AllBatchesTaken
PROPERTIES DropOnlyIfGone DurationEnds SchedulerLost
