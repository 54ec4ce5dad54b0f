CONSTANTS
    Capacity = 8
    HeadLen = 2
    HeadBits = 16
    SizeBits = 16
    Prefix <- NoAffix
    Suffix <- NoAffix
    Streams <- MCStreams
    SwitchMsgs <- MCSwitchMsgs
    PeerWaitsAt <- MCPeerWaitsAt
SPECIFICATION Spec
\* reading ends for good once on_recv_error has been called
CHECK_DEADLOCK FALSE
INVARIANT RecvErrorExplained
INVARIANT DeliveredInOrder
INVARIANT RecvRegionNonEmpty
INVARIANT ErrorSeesHalfMsg
PROPERTY ReadingEnds
