SPECIFICATION MdSpec
CONSTANTS
    MaxMessages = 2
    Prices = {1, 2, 3}
    ChecksumDepth = 2
    Snapshots <- MCSnapshots
    Changes <- MCChanges
    UpdatedMarkets = {1}
    MaxUpdates = 2
INVARIANTS
    OneWriterIffBacklog
    MergeExact
    PublishedIsExchange
PROPERTY EveryPairSubscribed
CHECK_DEADLOCK FALSE
