SPECIFICATION BacklogSpec
CONSTANTS
    Clips = {c1}
    MaxSlot = 5
    MaxSize = 5
    MaxRelinkFailures = 2
    MaxRecoverFailures = 1
    MaxTrouble = 1
PROPERTY DebtsAreServed
