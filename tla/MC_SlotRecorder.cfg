SPECIFICATION FairSpec
CONSTANTS
    Slots = {1}
    Blocks <- TickBlocks
    ChannelSize = 1
INVARIANTS TypeOK TickRight PanicNeedsGap AllRowsSent BlockOrder
PROPERTIES TasksEnd
CHECK_DEADLOCK FALSE
