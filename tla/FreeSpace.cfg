SPECIFICATION FairSpec
CONSTANTS
    MaxSlot = 4
    Clock = {1, 2}
    TotalBytes = 3
    Reserves = {2, 3}
    InodeTables = {3, 5}
    ReserveFloor = 3
    ReserveDivisor = 3
    CapDivisor = 2
    MaxStale = 2
    MaxTrouble = 1
ACTION_CONSTRAINT SmallSteps
INVARIANTS TypeOK TargetIsReachable
PROPERTIES NewestFootageStays EvictsOnlyUnderPressure VerdictIsFinal PressureIsAnswered
