SPECIFICATION FairSpec
CONSTANTS
    Byte <- Bytes
    Buffers <- ThreeSegments
    MSS = 1
    NoDataAck = 9
    InitialCwnd = 1
    InitialSsthresh = 2
    MaxWindowSegments = 3
    MaxRetransmitRounds = 3
    AdvertisedWindow = 3
    BufferCapacity = 3
    MaxFaults = 2
    DataFaults = {"lose"}
    AckFaults = {"lose"}
    SendErrors = FALSE
    MayCancel = {}
    PromptNetwork = TRUE
    ReceiverPollsFaster = TRUE
PROPERTIES
    SenderReturns
CHECK_DEADLOCK FALSE
