SPECIFICATION WorkerSpec
CONSTANTS
    LastIndex = 2
    Changes <- MCChanges
    MaxBlock = 2
    MaxLogsPerBlock = 1
    StartCursor <- MCStartCursor
    Hazards = {}
    Humans = {h}
    Groups = {ga, gb, gz}
    NoGroup = NoGroup
    Managed = {ga, gb}
    ZeroGroup = gz
    Threshold <- MCThreshold
    Scores = {2}
    Confirmations = 1
    StartBlock = 0
    MaxDisturbances = 1
    IndexLags = FALSE
    ProbeFails = FALSE
INVARIANTS MapCurrentWhenQuiet
