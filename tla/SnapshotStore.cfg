SPECIFICATION Spec
CONSTANTS
    Clips = {c1, c2}
    MaxSlot = 3
    MaxSize = 1
    MaxRelinkFailures = 1
    MaxRecoverFailures = 1
    MaxTrouble = 2
SYMMETRY Symmetry
ACTION_CONSTRAINT Commuting
INVARIANTS TypeOK NothingForgotten LinksLeadToClips
PROPERTIES ImagesOutliveReuse NewerTargetsStay
