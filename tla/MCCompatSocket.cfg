CONSTANTS
    u1 = u1
    u2 = u2
    io = io
    Users <- MCUsers
    Handler = io
    MaxMsgs = 4
    MaxMsgNum = 1
    MaxSendSize = 2
    MsgSize <- MCMsgSize
    GracefulTicks = 2
SPECIFICATION Spec
\* once the MaxMsgs messages are written the connection idles, waiting for calls
CHECK_DEADLOCK FALSE
INVARIANT AtMostOneWrite
INVARIANT SendingHasOwner
PROPERTY SendPipelineRefined
PROPERTY NoStrandedMessage
PROPERTY SyncGracefulEndsForced
