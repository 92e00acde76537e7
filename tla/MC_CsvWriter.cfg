SPECIFICATION Spec
CONSTANTS
    MaxTxAge = 1
    ReadAtOnce = 2
    ReadAtOnceCsv = 2
    ChannelSize = 1
    MaxTxs = 2
    MaxLandings = 2
    MaxTime = 2
    IoErrors = FALSE
CONSTRAINT FewRecords
INVARIANTS TypeOK StatusOnce FileComplete
PROPERTIES ScanComplete ReportingSpec
