CONSTANTS
    Analog = {0}
    Booms = {4}
    Programs = {"REPORT", "CALIBRATE", "SEARCH_INIT"}
    Samples = {3, 11, 14}
    AdcMax = 16
    Hist = 2
    Rise = 1
    Base = 4
    Word = 64
    FrontTime = 2
    RearTime = 3
    ByteOrders = {"low first", "high first"}
SPECIFICATION FairSpec
INVARIANTS
    TypeOK
    SearchMissesNoEdge
PROPERTIES
    HysteresisCalibrated
    TruthSettles
