CONSTANTS
    wLengths <- MCwLengths
    Addresses = {1, 2}
    MaxTransfers = 3
SPECIFICATION FairSpec
INVARIANT ReadsWhole
PROPERTIES
    OldAddressUntilStatus
    TransfersEnd
CHECK_DEADLOCK FALSE
