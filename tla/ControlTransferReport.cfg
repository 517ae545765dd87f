CONSTANTS
    wLengths = {0, 8, 64}
    Addresses = {1}
    MaxTransfers = 2
SPECIFICATION FairSpec
PROPERTY CallsCanTimeOut
CHECK_DEADLOCK FALSE
