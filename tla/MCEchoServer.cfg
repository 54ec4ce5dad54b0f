CONSTANTS
    MaxMsgs = 7
    MaxMsgNum = 2
    MaxSendSize = 2
    MsgSize <- MCMsgSize
SPECIFICATION Spec
\* the client stops after MaxMsgs messages; the server then idles
CHECK_DEADLOCK FALSE
INVARIANT BuffersBounded
PROPERTY EveryMsgEchoed
