SPECIFICATION ServicesSpec
CONSTANTS
    Callers = {a, b}
    MaxAttempts = 2
    MaxRaces = 2
    MaxForeign = 1
    Hazards = {"estimateFails", "unsent", "answerLost", "timeout", "reverts"}
    PageLimit = 2
    DepthCap = 2
    LastBlock = 4
    MaxEvents = 5
    MaxLate = 1
    Addresses = {1, 2, 3, 4, 5}
    PageSize = 2
    MaxPages <- MCMaxPages
    ErrorsBeforeCrash = 2
    MaxRowChanges = 2
    MaxRequestErrors = 1
INVARIANTS Serialized ExecutedAtMostOncePerCall RangesAccounted NothingSteadyMissed
PROPERTIES EveryCallerSettles ReadsComplete
