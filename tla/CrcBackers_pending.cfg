SPECIFICATION Spec
CONSTANTS
    Backers = {b1}
    NotLoaded = NotLoaded
    MaxBlock = 5
    Confirmations = 1
    IndexLag = 1
    ExpectedTime = 2
    OrderLifetime = 4
    ErrorsBeforeCrash = 2
    MaxFailures = 0
    MaxListings = 0
    MaxReorganisations = 0
INVARIANTS PendingStaysInRange
