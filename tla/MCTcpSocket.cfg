CONSTANTS
    u1 = u1
    u2 = u2
    Users <- MCUsers
    MaxMsgs = 3
    MaxMsgNum = 1
    MaxSendSize = 2
    MsgSize <- MCMsgSize
    GracefulTicks = 2
    PeerCooperates = FALSE
SPECIFICATION Spec
INVARIANT TypeOK
INVARIANT AtMostOneWrite
INVARIANT AllSentNotified
PROPERTY SendPipelineRefined
PROPERTY AcceptedEventuallyResolved
PROPERTY SafeSendReturns
PROPERTY SyncGracefulEndsClosed
