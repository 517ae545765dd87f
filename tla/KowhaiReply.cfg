CONSTANTS
    MaxPacket = 24
    Requests <- MCRequests
SPECIFICATION Spec
INVARIANTS
    TypeOK
    PacketsTile
    PacketsFit
    DataIntact
CHECK_DEADLOCK FALSE
