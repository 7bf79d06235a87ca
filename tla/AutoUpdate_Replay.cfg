SPECIFICATION UpdateSpec
CONSTANT MaxAttempts = 2
CONSTANT MaxBoots = 3
CONSTANT MaxRestarts = 0
CONSTANT MaxCycles = 2
CONSTANT MaxWorkers = 1
CONSTANT MaxManuals = 1
CONSTANT MaxSaveFaults = 0
INVARIANT FailedIsNotReplayed
