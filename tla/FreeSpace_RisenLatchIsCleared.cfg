SPECIFICATION FairSpec
CONSTANTS
    MaxSlot = 3
    Clock = {1, 2}
    TotalBytes = 2
    Reserves = {1}
    InodeTables = {3}
    ReserveFloor = 2
    ReserveDivisor = 3
    CapDivisor = 2
    MaxStale = 2
    MaxTrouble = 1
PROPERTY RisenLatchIsCleared
