SPECIFICATION FairSpec
CONSTANTS
    Avatars = {a1, a2}
    Reverting = {a2}
    BatchSize = 2
    ErrorsBeforeCrash = 1
    Persistent = TRUE
    NotLoaded = NotLoaded
    Hazards = {"markFails"}
    MaxFailures = 1
    MaxListings = 1
    MaxRestarts = 1
INVARIANTS BadAddressesSetApart
PROPERTIES NothingMarkedTwice HumansRouted BaseGroupFollows
