SPECIFICATION Spec
CONSTANTS
    Clips = {c1, c2}
    MaxSlot = 3
    MaxSize = 1
    MaxRelinkFailures = 2
    MaxRecoverFailures = 2
    MaxTrouble = 2
SYMMETRY Symmetry
ACTION_CONSTRAINTS Commuting StopsOnly
INVARIANT ReleaseOrphansNothing
