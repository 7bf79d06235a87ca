SPECIFICATION MCSpec
CONSTANT Fields = {"f1", "f2"}
CONSTANT MaxEdits = 2
CONSTANT MaxOthers = 1
CONSTANT MaxFaults = 2
INVARIANT RatesRecoverable
INVARIANT UnsentEditsShow
PROPERTY EditsArrive
PROPERTY OthersEditsSurvive
PROPERTY QueueDrains
