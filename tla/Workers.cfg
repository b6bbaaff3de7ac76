SPECIFICATION WorkersSpec
CONSTANTS
    Apps = {"oic", "dublin-tms", "router2", "gnosis-group", "new-gnosis", "gp-crc"}
    Humans = {h1, h2}
    AlwaysTrusted = {h1}
    FirstBlock = 1
    Confirmations = 1
    GroupBatchSize = 1
    GroupBatchAttempts = 2
    ErrorLimit = 2
    MaxHeight = 3
    MaxMoves = 1
    MaxMishaps = 1
    NoList = NoList
    Avatars = {1, 2, 3}
    Safes = {s1}
    MaxSwitches = 1
    BatchSize = 1
    ErrorsBeforeCrash = 2
    NotLoaded = NotLoaded
    MaxLinks = 3
    MaxChanges = 1
    MaxFailures = 1
INVARIANTS AffiliatesAreReplay NoRegistrationSkipped NoMoreTrusteesThanSafes
PROPERTIES RightfulKept LoopsConverge
