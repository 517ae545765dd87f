CONSTANTS
    REVERSE_TIMEOUT = 1
    SEARCH_TIMEOUT = 1
    SCRAMBLE_TIMEOUT = 1
    DRIFTON_TIMEOUT = 1
    FAST_DRIFTON_TIMEOUT = 1
    DRIFTONHARD_TIMEOUT = 1
    DRIFTCENTER_TIMEOUT = 1
    Base = 2
    ByteOrders <- HighFirst
SPECIFICATION SearchSpec
PROPERTIES
    TimedStatesEnd
    SearchWallEnds
