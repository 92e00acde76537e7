SPECIFICATION FairSpec
CONSTANTS
    MaxTxAge = 1
    ReadAtOnce = 2
    ReadAtOnceCsv = 2
    ChannelSize = 1
    MaxTxs = 1
    MaxLandings = 1
    MaxTime = 2
    IoErrors = TRUE
PROPERTIES Terminates RowsReachFile
