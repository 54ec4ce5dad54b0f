CONSTANTS
    u1 = u1
    u2 = u2
    Users <- MCUsers
    MaxMsgs = 1
    MaxMsgNum = 1
    MaxSendSize = 2
    MsgSize <- MCMsgSize
    GracefulTicks = 2
    PeerCooperates = TRUE
SPECIFICATION Spec
INVARIANT NoRedundantShutdown
