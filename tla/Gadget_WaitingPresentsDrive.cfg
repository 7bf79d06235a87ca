SPECIFICATION Spec
CONSTANTS
  MaxRecoveries = 0
  MaxStops = 0
  Users = {}
  Faults = {}
INVARIANT WaitingPresentsDrive
