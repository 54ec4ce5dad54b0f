CONSTANTS
    Capacity = 8
    HeadLen = 2
    HeadBits = 3
    SizeBits = 4
    Prefix <- MCPrefix
    Suffix <- MCSuffix
    MaxSpans = 3
    MaxSpanLen = 3
    Bytes = {7, 8}
SPECIFICATION Spec
INVARIANT MsgSizeCheckCorrect
INVARIANT LengthPrefixedRoundTrip
INVARIANT PooledMatchesPacker
INVARIANT PrefixSuffixRawData
INVARIANT CompatPackersAgree
