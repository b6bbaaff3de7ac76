SPECIFICATION FairListenerSpec
CONSTANTS
    Sockets = {s1, s2}
    None = None
    DelaySteps = 1
    LateClose = FALSE
    LastIndex = 2
    MaxBlock = 2
    MaxLogsPerBlock = 2
INVARIANTS CurrentSocketOnly NeverExits NeverStranded NothingPassedOver
PROPERTIES SubscribedAgain RegistrationsHandedOver
