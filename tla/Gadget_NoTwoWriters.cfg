SPECIFICATION Spec
CONSTANTS
  MaxRecoveries = 1
  MaxStops = 0
  Users = {"toggle"}
  Faults = {"toggle"}
INVARIANT NoTwoWriters
