-------------------------------- MODULE Framing --------------------------------
(***************************************************************************)
(* The framing layer: the packers of ext/st_asio_wrapper_packer.h, and the *)
(* length-prefixed unpacker they pair with (spec 4.2 and 6; the unpacker's *)
(* code is not in this repository).  Messages are sequences of bytes; a    *)
(* span handed to pack_msg is a record whose `null` field stands for a     *)
(* null pstr[i], with its length given separately in len[i].  size_t and   *)
(* ST_ASIO_HEAD_TYPE are unsigned integers of SizeBits and HeadBits bits.  *)
(***************************************************************************)
EXTENDS Integers, Sequences, SequencesExt

CONSTANTS Capacity,  \* ST_ASIO_MSG_BUFFER_SIZE
          HeadLen,   \* ST_ASIO_HEAD_LEN, bytes the header takes on the wire
          HeadBits,  \* width of ST_ASIO_HEAD_TYPE
          SizeBits,  \* width of size_t
          Prefix,    \* prefix_suffix_packer's _prefix
          Suffix     \* prefix_suffix_packer's _suffix (never empty)

SizeT(x) == x % (2 ^ SizeBits)
NPos == 2 ^ SizeBits - 1            \* (size_t) -1
HeadType(x) == x % (2 ^ HeadBits)   \* (ST_ASIO_HEAD_TYPE) x

\* ST_ASIO_HEAD_H2N then the bytes of the header in memory: big-endian.
HeadBytes(v) == [i \in 1..HeadLen |-> (v \div (256 ^ (HeadLen - i))) % 256]

\* The span bytes pack_msg copies, in argument order, null spans skipped.
Copied(pstr, len) ==
    FlattenSeq([i \in DOMAIN pstr |->
                  IF pstr[i].null THEN <<>> ELSE SubSeq(pstr[i].data, 1, len[i])])

\* A memory_pool buffer fresh from checkout holds unknown bytes.
Garbage == -1

\* memcpy(buf + off, bytes, Len(bytes)), bytes past the end of buf dropped.
WriteAt(buf, off, bytes) ==
    [p \in DOMAIN buf |-> IF p > off /\ p <= off + Len(bytes)
                          THEN bytes[p - off] ELSE buf[p]]

-----------------------------------------------------------------------------
\* Variant without the `last_total_len > total_len` wrap test.
msg_size_check_no_wrap(pre_len, pstr, len) ==
    LET step(acc, i) ==
          IF acc.err \/ pstr[i].null THEN acc
          ELSE LET t == SizeT(acc.total + len[i])
               IN [total |-> t, last |-> t, err |-> t > Capacity]
        r == FoldLeft(step, [total |-> pre_len, last |-> pre_len, err |-> FALSE],
                      [i \in DOMAIN pstr |-> i])
    IN IF r.err THEN NPos ELSE r.total

\* packer_helper::msg_size_check: add the lengths of the non-null spans to
\* pre_len in size_t arithmetic; (size_t) -1 once a running sum decreases
\* (it wrapped) or exceeds ST_ASIO_MSG_BUFFER_SIZE.
msg_size_check(pre_len, pstr, len) ==
    LET step(acc, i) ==
          IF acc.err \/ pstr[i].null THEN acc
          ELSE LET t == SizeT(acc.total + len[i])
               IN [total |-> t, last |-> t, err |-> acc.last > t \/ t > Capacity]
        r == FoldLeft(step, [total |-> pre_len, last |-> pre_len, err |-> FALSE],
                      [i \in DOMAIN pstr |-> i])
    IN IF r.err THEN NPos ELSE r.total

\* Variant without the `total_len != head_len` test on the header's range.
pack_msg_no_head_check(pstr, len, native) ==
    LET pre_len   == IF native THEN 0 ELSE HeadLen
        total_len == msg_size_check(pre_len, pstr, len)
    IN IF total_len = NPos \/ total_len <= pre_len THEN <<>>
       ELSE IF native THEN Copied(pstr, len)
       ELSE HeadBytes(HeadType(total_len)) \o Copied(pstr, len)

\* packer::pack_msg: an empty message on a size error, on a header that
\* cannot hold total_len, or when there is nothing but the header.
pack_msg(pstr, len, native) ==
    LET pre_len   == IF native THEN 0 ELSE HeadLen
        total_len == msg_size_check(pre_len, pstr, len)
        head_len  == HeadType(total_len)
    IN IF total_len = NPos \/ total_len <= pre_len THEN <<>>
       ELSE IF native THEN Copied(pstr, len)
       ELSE IF total_len # head_len THEN <<>>
       ELSE HeadBytes(head_len) \o Copied(pstr, len)

\* packer::raw_data / raw_data_len: the body starts after the header.
raw_data(msg) == SubSeq(msg, HeadLen + 1, HeadLen + SizeT(Len(msg) - HeadLen))

\* Variant that never rewinds total_len to pre_len before the copy loop.
pooled_pack_msg_no_rewind(pstr, len, native) ==
    LET pre_len   == IF native THEN 0 ELSE HeadLen
        total_len == msg_size_check(pre_len, pstr, len)
        buf0      == [p \in 1..total_len |-> Garbage]
        buf1      == IF native THEN buf0 ELSE WriteAt(buf0, 0, HeadBytes(total_len))
        step(acc, i) ==
          IF pstr[i].null THEN acc
          ELSE [buf |-> WriteAt(acc.buf, acc.off, SubSeq(pstr[i].data, 1, len[i])),
                off |-> acc.off + len[i]]
    IN IF total_len = NPos \/ total_len <= pre_len THEN <<>>
       ELSE IF ~native /\ total_len # HeadType(total_len) THEN <<>>
       ELSE FoldLeft(step, [buf |-> buf1, off |-> total_len],
                     [i \in DOMAIN pstr |-> i]).buf

\* pooled_packer::pack_msg: check out total_len bytes from the pool, memcpy
\* the header, then memcpy each span at a running offset from pre_len.
pooled_pack_msg(pstr, len, native) ==
    LET pre_len   == IF native THEN 0 ELSE HeadLen
        total_len == msg_size_check(pre_len, pstr, len)
        buf0      == [p \in 1..total_len |-> Garbage]
        buf1      == IF native THEN buf0 ELSE WriteAt(buf0, 0, HeadBytes(total_len))
        step(acc, i) ==
          IF pstr[i].null THEN acc
          ELSE [buf |-> WriteAt(acc.buf, acc.off, SubSeq(pstr[i].data, 1, len[i])),
                off |-> acc.off + len[i]]
    IN IF total_len = NPos \/ total_len <= pre_len THEN <<>>
       ELSE IF ~native /\ total_len # HeadType(total_len) THEN <<>>
       ELSE FoldLeft(step, [buf |-> buf1, off |-> pre_len],
                     [i \in DOMAIN pstr |-> i]).buf

\* prefix_suffix_packer::pack_msg: [prefix] body suffix.
prefix_suffix_pack_msg(pstr, len, native) ==
    LET pre_len   == IF native THEN 0 ELSE Len(Prefix) + Len(Suffix)
        total_len == msg_size_check(pre_len, pstr, len)
    IN IF total_len = NPos \/ total_len <= pre_len THEN <<>>
       ELSE IF native THEN Copied(pstr, len)
       ELSE Prefix \o Copied(pstr, len) \o Suffix

\* Variant of raw_data_len that forgets the suffix.
prefix_suffix_raw_data_keeps_suffix(msg) ==
    SubSeq(msg, Len(Prefix) + 1, Len(Prefix) + SizeT(Len(msg) - Len(Prefix)))

\* prefix_suffix_packer::raw_data / raw_data_len.
prefix_suffix_raw_data(msg) ==
    SubSeq(msg, Len(Prefix) + 1,
           Len(Prefix) + SizeT(Len(msg) - Len(Prefix) - Len(Suffix)))

\* Variant of the compatible packer::pack_msg without the header-range test.
compat_pack_msg_no_head_check(pstr, len, native) ==
    LET pre_len   == IF native THEN 0 ELSE HeadLen
        total_len == msg_size_check(pre_len, pstr, len)
    IN IF total_len = NPos THEN [ok |-> FALSE, msg |-> <<>>]
       ELSE IF total_len <= pre_len THEN [ok |-> TRUE, msg |-> <<>>]
       ELSE IF native THEN [ok |-> TRUE, msg |-> Copied(pstr, len)]
       ELSE [ok |-> TRUE, msg |-> HeadBytes(HeadType(total_len)) \o Copied(pstr, len)]

\* The compatible edition's packer::pack_msg(msg, ...): msg.clear(), then
\* false on a size error or a header that cannot hold total_len; true with
\* msg left empty when there is nothing but the header.  replaceable_packer
\* stores the same result in a new string_buffer.
compat_pack_msg(pstr, len, native) ==
    LET pre_len   == IF native THEN 0 ELSE HeadLen
        total_len == msg_size_check(pre_len, pstr, len)
    IN IF total_len = NPos THEN [ok |-> FALSE, msg |-> <<>>]
       ELSE IF total_len <= pre_len THEN [ok |-> TRUE, msg |-> <<>>]
       ELSE IF native THEN [ok |-> TRUE, msg |-> Copied(pstr, len)]
       ELSE IF total_len # HeadType(total_len) THEN [ok |-> FALSE, msg |-> <<>>]
       ELSE [ok |-> TRUE, msg |-> HeadBytes(HeadType(total_len)) \o Copied(pstr, len)]

\* The compatible edition's prefix_suffix_packer::pack_msg(msg, ...).
compat_prefix_suffix_pack_msg(pstr, len, native) ==
    LET pre_len   == IF native THEN 0 ELSE Len(Prefix) + Len(Suffix)
        total_len == msg_size_check(pre_len, pstr, len)
    IN IF total_len = NPos THEN [ok |-> FALSE, msg |-> <<>>]
       ELSE IF total_len <= pre_len THEN [ok |-> TRUE, msg |-> <<>>]
       ELSE IF native THEN [ok |-> TRUE, msg |-> Copied(pstr, len)]
       ELSE [ok |-> TRUE, msg |-> Prefix \o Copied(pstr, len) \o Suffix]

\* pooled_stream_packer::pack_msg: the spans concatenated, no framing.
stream_pack_msg(pstr, len) ==
    LET total_len == msg_size_check(0, pstr, len)
    IN IF total_len = NPos \/ total_len = 0 THEN <<>> ELSE Copied(pstr, len)

-----------------------------------------------------------------------------
(* The length-prefixed unpacker (spec 4.2), as functions of its buffer.   *)

Header(d) == FoldLeft(LAMBDA acc, b : acc * 256 + b, 0, SubSeq(d, 1, HeadLen))

\* Variant admitting a frame one byte longer than the buffer.
ValidLen_one_over(n) == n > HeadLen /\ n <= Capacity + 1

\* A header the packer can have written: more than the header itself and
\* no more than the buffer.
ValidLen(n) ==
    n > HeadLen /\ n <= Capacity

\* "as many as possible", bounded by the free region anyway
MaxTransfer == Capacity

\* completion_condition: 0 once a whole frame is buffered, or once the
\* header is invalid (stop reading and let parse_msg report it).
completion_condition(d) ==
    IF Len(d) < HeadLen THEN MaxTransfer
    ELSE IF ~ValidLen(Header(d)) \/ Len(d) >= Header(d) THEN 0
    ELSE MaxTransfer

\* parse_msg: cut every complete frame off the front; stop at a partial
\* frame (kept for the next read) or at an invalid header (ok = FALSE, the
\* malformed data left in the buffer for on_unpack_error to inspect).
\* Variant whose loop stops after the first complete frame.
ParseFrames_first_only(d, msgs) ==
    IF Len(d) < HeadLen THEN [msgs |-> msgs, rest |-> d, ok |-> TRUE]
    ELSE LET n == Header(d) IN
         IF ~ValidLen(n) THEN [msgs |-> msgs, rest |-> d, ok |-> FALSE]
         ELSE IF Len(d) < n THEN [msgs |-> msgs, rest |-> d, ok |-> TRUE]
         ELSE [msgs |-> Append(msgs, SubSeq(d, HeadLen + 1, n)),
               rest |-> SubSeq(d, n + 1, Len(d)), ok |-> TRUE]

RECURSIVE ParseFrames(_, _)
ParseFrames(d, msgs) ==
    IF Len(d) < HeadLen THEN [msgs |-> msgs, rest |-> d, ok |-> TRUE]
    ELSE LET n == Header(d) IN
         IF ~ValidLen(n) THEN [msgs |-> msgs, rest |-> d, ok |-> FALSE]
         ELSE IF Len(d) < n THEN [msgs |-> msgs, rest |-> d, ok |-> TRUE]
         ELSE ParseFrames(SubSeq(d, n + 1, Len(d)),
                          Append(msgs, SubSeq(d, HeadLen + 1, n)))

parse_msg(d) == ParseFrames(d, <<>>)

\* prepare_next_recv: the size of the free region after the partial data.
prepare_next_recv(remain) == Capacity - Len(remain)
================================================================================
