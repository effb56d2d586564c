SPECIFICATION Spec
CONSTANTS
    Byte <- Bytes
    Payloads <- TwoPayloads
    Directions = {"download"}
    MSS = 1
    NoDataAck = 9
    InitialCwnd = 1
    InitialSsthresh = 2
    MaxWindowSegments = 2
    MaxRetransmitRounds = 2
    AdvertisedWindow = 2
    BufferCapacity = 4
    MaxFaults = 1
    PromptNetwork = TRUE
    ReceiverPollsFaster = TRUE
INVARIANTS
    ReceivedIsComplete
CHECK_DEADLOCK FALSE
