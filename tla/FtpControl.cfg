SPECIFICATION FairSpec
CONSTANTS
    Commands <- PlainCommands
    Lines <- PlainLines
    MaxUnread = 1
    MayInterrupt = TRUE
    Troubles = {}
INVARIANTS
    ServerIdle
PROPERTIES
    FinalReplyIsOwn
    CommandReturns
CHECK_DEADLOCK FALSE
