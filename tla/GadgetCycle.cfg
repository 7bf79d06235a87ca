SPECIFICATION FairSpec
CONSTANTS
  MaxRecoveries = 1
  MaxStops = 1
  Users = {"chime", "toggle"}
  Faults = {"bind", "storage", "reclaim"}
INVARIANT TypeOK
INVARIANT NoTwoWriters
INVARIANT BoundIsPopulated
PROPERTY ImagesHaveOneWriter
PROPERTY DriveComesBack
