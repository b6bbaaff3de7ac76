SPECIFICATION MultiListenerSpec
CONSTANTS
    Humans = {h1, h2}
    Groups = {ga, gz}
    NoGroup = NoGroup
    Managed = {ga}
    ZeroGroup = gz
    MaxHead = 2
    DeployBlock = 1
    MultiRowFails = FALSE
    RequestsFail = FALSE
INVARIANTS NoEventMissed
