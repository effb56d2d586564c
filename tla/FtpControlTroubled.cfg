SPECIFICATION FairSpec
CONSTANTS
    Commands <- TroubledCommands
    Lines <- TroubledLines
    MaxUnread = 1
    MayInterrupt = TRUE
    Troubles <- AllTroubles
INVARIANTS
    ClientTypeOK
    RepliesPaired
    RepresentationAgreed
    EndpointAgreed
PROPERTIES
    SignalEndsClient
    SessionEnds
CHECK_DEADLOCK FALSE
