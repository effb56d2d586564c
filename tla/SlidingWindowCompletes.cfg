SPECIFICATION FairSpec
CONSTANTS
    Byte <- Bytes
    Buffers <- ThreeSegments
    MSS = 1
    NoDataAck = 9
    InitialCwnd = 1
    InitialSsthresh = 3
    MaxWindowSegments = 3
    MaxRetransmitRounds = 3
    AdvertisedWindow = 3
    BufferCapacity = 4
    MaxFaults = 2
    DataFaults = {"lose", "duplicate", "delay", "corrupt"}
    AckFaults = {}
    SendErrors = FALSE
    MayCancel = {"sender", "receiver"}
    PromptNetwork = TRUE
    ReceiverPollsFaster = TRUE
INVARIANTS
    CompleteOnFin
    SuccessIsAgreed
PROPERTIES
    TransferCompletes
    SenderReturns
    AbortStopsReceiver
CHECK_DEADLOCK FALSE
