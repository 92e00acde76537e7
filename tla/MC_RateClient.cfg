SPECIFICATION Spec
CONSTANTS
    MaxTxAge = 2
    ReadAtOnce = 1
    ReadAtOnceCsv = 1
    ChannelSize = 1
    MaxTxs = 1
    MaxLandings = 1
    MaxTime = 1
    MaxSlots = 1
    IoErrors = FALSE
INVARIANTS ClientTypeOK ResultTold CsvClosed
