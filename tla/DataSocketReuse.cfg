SPECIFICATION Spec
CONSTANTS
    Byte <- Bytes
    Payloads <- ThreePayloads
    Directions = {"download", "upload"}
    MSS = 1
    NoDataAck = 99
    InitialCwnd = 8
    InitialSsthresh = 8
    MaxWindowSegments = 32
    MaxRetransmitRounds = 3
    AdvertisedWindow = 8
    BufferCapacity = 16
    MaxFaults = 4
    PromptNetwork = TRUE
    ReceiverPollsFaster = TRUE
INVARIANTS
    SuccessLeavesNothing
    StreamsAreSeparate
    SuccessIsOwnDelivery
CHECK_DEADLOCK FALSE
