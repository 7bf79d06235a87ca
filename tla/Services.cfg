SPECIFICATION MCSpec
CONSTANT Kinds = {"a", "b"}
CONSTANT RetryKinds = {"a"}
CONSTANT BootWindow = 2
CONSTANT MaxAge = 3
CONSTANT MaxPushes = 3
CONSTANT MaxUptime = 3
CONSTANT MaxAttempts = 2
CONSTANT MaxBoots = 3
CONSTANT MaxRestarts = 1
CONSTANT MaxCycles = 2
CONSTANT MaxWorkers = 1
CONSTANT MaxManuals = 1
CONSTANT MaxSaveFaults = 1
CONSTANT Requests = {"r1", "r2"}
CONSTANT Keys = {"k1", "k2"}
CONSTANT SnapNames = {"s1", "s2"}
CONSTANT MaxClears = 2
CONSTANT MaxImages = 3
CONSTANT MaxCalls = 4
CONSTANT MaxBusy = 2
CONSTANT MaxSession = 2
CONSTANT Large = {2}
CONSTANT MaxImports = 1
CONSTANT MaxDeletes = 2
CONSTANT MaxTroubles = 1
CONSTANT MaxPairings = 2
CONSTANT MaxRotations = 1
CONSTANT MaxBreaks = 1
INVARIANT PushTakenOnce
PROPERTY RetryIsNewest
PROPERTY PendingIsSettled
INVARIANT ReplacementIsAlone
PROPERTY VerifiedIsEarned
INVARIANT MigratesOnce
PROPERTY AttemptsSettle
INVARIANT AnswersFollowClears
PROPERTY FiguresMatchImages
INVARIANT SessionsAreWatched
PROPERTY SessionsEnd
INVARIANT OwnerIsReleased
INVARIANT CursorWaits
PROPERTY ChargesAgree
INVARIANT EndedStaysEnded
INVARIANT RevokeHitsItsOwn
PROPERTY SpinnerStops
CHECK_DEADLOCK FALSE
