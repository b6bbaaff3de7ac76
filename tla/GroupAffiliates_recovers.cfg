SPECIFICATION MCFairSpec
CONSTANTS
    LastIndex = 2
    Changes <- MCMoves
    MaxBlock = 2
    MaxLogsPerBlock = 1
    StartCursor <- MCStartCursor
    Hazards = {}
    Humans = {h}
    Groups = {ga, gb, gz}
    NoGroup = NoGroup
    Managed = {ga, gb}
    ZeroGroup = gz
    Threshold <- MCThreshold
    Scores = {1, 2}
    Confirmations = 0
    StartBlock = 0
    MaxDisturbances = 2
    IndexLags = FALSE
    ProbeFails = FALSE
INVARIANTS SavedCursorCoversApplied MapCurrentWhenQuiet TrustedInOneGroup
PROPERTIES TrustConverges
