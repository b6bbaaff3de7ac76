SPECIFICATION FairCommunitySpec
CONSTANTS
    Humans = {h1, h2}
    Groups = {ga, gz}
    NoGroup = NoGroup
    NoRow = NoRow
    Managed = {ga}
    ZeroGroup = gz
    MaxHead = 2
    MaxBlock = 2
    StartBlock = 1
    DeployBlock = 1
    StoreFails = TRUE
    MultiRowFails = TRUE
    Variants <- MCVariants
    Threshold <- MCThreshold
    Scores = {1, 2}
    TestAddresses = {h1}
    BypassReputation = TRUE
    Grandfathered <- MCGrandfathered
    TrustedBefore <- MCTrustedBefore
    MaxUntrustTotal = 1
    RatioNum = 1
    RatioDen = 2
    BatchSize = 1
    ErrorsBeforeCrash = 2
    MaxMishaps = 1
    MaxCriteriaChanges = 1
INVARIANTS MultiMapIsReplay OldMapIsReplay
PROPERTIES CycleWithinCaps RowsNeverGoBack SteadyMembersKept CommunityConverges
