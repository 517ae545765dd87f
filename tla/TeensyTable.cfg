CONSTANTS
    Analog = {0, 2}
    Booms = {4, 5}
    Programs = {"STAY_ON_TABLE", "CALIBRATE", "BOOTLOADER"}
    Samples = {3, 15}
    AdcMax = 16
    Hist = 1
    Rise = 1
    Base = 4
    Word = 64
    FrontTime = 2
    RearTime = 3
    ByteOrders = {"low first", "high first"}
SPECIFICATION FairSpec
INVARIANT KeepsOffEdge
PROPERTY DrivesOn
CHECK_DEADLOCK FALSE
