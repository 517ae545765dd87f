CONSTANTS
    REVERSE_TIMEOUT = 2
    SEARCH_TIMEOUT = 2
    SCRAMBLE_TIMEOUT = 1
    DRIFTON_TIMEOUT = 2
    FAST_DRIFTON_TIMEOUT = 1
    DRIFTONHARD_TIMEOUT = 1
    DRIFTCENTER_TIMEOUT = 1
    Base = 2
    ByteOrders <- BothOrders
SPECIFICATION Spec
INVARIANTS
    TypeOK
    TimeoutArmed
    MotorsFollowState
    HalfPowerOverEdge
PROPERTY FollowsDiagram
