SPECIFICATION FairSpec
CONSTANTS
    Commands <- AborCommands
    Lines <- AborLines
    MaxUnread = 1
    MayInterrupt = FALSE
    Troubles = {}
INVARIANTS
    AlwaysSameRepresentation
CHECK_DEADLOCK FALSE
