CONSTANTS
    MaxPresses = 4
    Programs = 2
    Endless <- EndlessPrograms
SPECIFICATION FairSpec
INVARIANTS
    TypeOK
    QuietIsZero
    ProgramOfBurst
    OneController
PROPERTY Settles
CHECK_DEADLOCK FALSE
