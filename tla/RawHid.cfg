CONSTANTS
    RxTimeout = 0
    TxTimeout = 2
    MaxRequests = 2
    MaxReplies = 2
    MaxSent = 2
    MaxResets = 1
    Controls <- MCControls
SPECIFICATION FairSpec
INVARIANTS
    TypeOK
    OwnEndpoint
    WaitsItsTime
    RepliesInOrder
PROPERTIES
    LinkSpec
    CallsEnd
