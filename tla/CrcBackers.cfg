SPECIFICATION FairSpec
CONSTANTS
    Backers = {b1, b2}
    NotLoaded = NotLoaded
    MaxBlock = 4
    Confirmations = 1
    IndexLag = 1
    ExpectedTime = 1
    OrderLifetime = 2
    ErrorsBeforeCrash = 2
    MaxFailures = 2
    MaxListings = 1
    MaxReorganisations = 1
INVARIANTS TrustsOnlyFinalCompletions CursorCoversHandled RunUntrustsBlacklisted
PROPERTIES CompletionsTrusted
