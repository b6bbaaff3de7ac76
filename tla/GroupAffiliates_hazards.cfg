SPECIFICATION WorkerSpec
CONSTANTS
    LastIndex = 2
    Changes <- MCMoves
    MaxBlock = 2
    MaxLogsPerBlock = 1
    StartCursor <- MCStartCursor
    Hazards = {"minedWhileConnecting", "reconnectDuringCatchUp", "catchUpFails", "callbackFails"}
    Humans = {h}
    Groups = {ga, gz}
    NoGroup = NoGroup
    Managed = {ga}
    ZeroGroup = gz
    Threshold <- MCThreshold
    Scores = {2}
    Confirmations = 0
    StartBlock = 0
    MaxDisturbances = 1
    IndexLags = TRUE
    ProbeFails = TRUE
INVARIANTS BatchesEndInOrder
PROPERTIES TrustFollowsMap
