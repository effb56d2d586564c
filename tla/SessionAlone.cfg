SPECIFICATION Spec
CONSTANTS
    Commands <- AllCommands
    MaxPending = 1
    Troubles <- AllTroubles
INVARIANTS
    TypeOK
    PassiveSocketMatchesMode
    TransferHasEndpoint
    OnlyLoggedInClients
    RenameFollowsRnfr
CHECK_DEADLOCK FALSE
