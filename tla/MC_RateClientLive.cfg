SPECIFICATION FairSpec
CONSTANTS
    MaxTxAge = 1
    ReadAtOnce = 1
    ReadAtOnceCsv = 1
    ChannelSize = 1
    MaxTxs = 1
    MaxLandings = 0
    MaxTime = 0
    MaxSlots = 1
    IoErrors = TRUE
PROPERTIES FailureStops TimeoutEnds
