SPECIFICATION Spec
CONSTANTS
    Byte <- Bytes
    Buffers <- ShortLastOrNone
    MSS = 2
    NoDataAck = 9
    InitialCwnd = 1
    InitialSsthresh = 2
    MaxWindowSegments = 3
    MaxRetransmitRounds = 1
    AdvertisedWindow = 3
    BufferCapacity = 3
    MaxFaults = 2
    DataFaults = {"lose", "duplicate", "delay"}
    AckFaults = {"lose", "duplicate", "delay", "corrupt"}
    SendErrors = TRUE
    MayCancel = {}
    PromptNetwork = FALSE
    ReceiverPollsFaster = TRUE
INVARIANTS
    TypeOK
    PrefixDelivered
    IndInv
    CompleteOnFin
    InFlightWithinWindow
PROPERTIES
    ImplementsReliableStream
    RetransmissionsAreBounded
CHECK_DEADLOCK FALSE
