SPECIFICATION OldSpec
CONSTANTS
    LastIndex = 2
    Changes <- MCChanges
    MaxBlock = 2
    MaxLogsPerBlock = 2
    MaxLogs = 3
    StartCursor <- MCStartCursor
    Hazards = {"flushWhileDelivering", "reconnectBeforeFlush"}
    Humans = {h}
    Groups = {ga, gb}
    NoGroup = NoGroup
INVARIANTS MapRepaired
PROPERTIES ImplementsFeed EveryLogProcessed
