------------------------------ MODULE MCFraming ------------------------------
(***************************************************************************)
(* Checks the packers and the unpacker of Framing over every small input: *)
(* up to MaxSpans spans of up to MaxSpanLen bytes, some of them null, and *)
(* for the size check alone, every list of lengths in size_t.  The inputs *)
(* are variables fixed by Init; Next leaves them unchanged.               *)
(***************************************************************************)
EXTENDS Framing, FiniteSets

CONSTANTS MaxSpans,    \* most spans handed to one pack_msg
          MaxSpanLen,  \* longest span
          Bytes        \* the byte values spans are made of

\* prefix_suffix("<<", ">>")
MCPrefix == <<60, 60>>
MCSuffix == <<62, 62>>

NullSpan == [null |-> TRUE, data |-> <<>>]
Spans == {NullSpan} \cup {[null |-> FALSE, data |-> s] : s \in BoundedSeq(Bytes, MaxSpanLen)}

\* The caller's len[]: the length of each span (any value for a null one).
LenOf(pstr) == [i \in DOMAIN pstr |-> Len(pstr[i].data)]

VARIABLES pstr, native, lens
vars == <<pstr, native, lens>>

\* Either real spans for pack_msg, or bare lengths for msg_size_check.
Init == \/ /\ pstr \in BoundedSeq(Spans, MaxSpans)
           /\ native \in BOOLEAN
           /\ lens = <<>>
        \/ /\ pstr = <<>> /\ native = FALSE
           /\ lens \in BoundedSeq(0..NPos, MaxSpans)

Next == UNCHANGED vars

Spec == Init /\ [][Next]_vars

\* The exact sum of a list of lengths, without wrapping.
ExactSum(pre, l) == FoldLeft(LAMBDA a, b : a + b, pre, l)

-----------------------------------------------------------------------------
(* msg_size_check reports (size_t) -1 exactly when the true total of the   *)
(* header and the lengths exceeds ST_ASIO_MSG_BUFFER_SIZE, and the total   *)
(* otherwise, even when the lengths are large enough for size_t to wrap    *)
(* back to a small sum (spec 4.1 "wrap detection").                        *)
MsgSizeCheckCorrect ==
    LET spans == [i \in DOMAIN lens |-> [null |-> FALSE, data |-> <<>>]]
        exact == ExactSum(HeadLen, lens)
    IN msg_size_check(HeadLen, spans, lens) = IF exact > Capacity THEN NPos ELSE exact

(* A framed packer::pack_msg either fails (empty message) or produces a    *)
(* frame that the length-prefixed unpacker decodes back, as one message,  *)
(* into the concatenation of the spans, with nothing left over, and whose *)
(* raw_data is that body; it fails exactly when the body is empty, the     *)
(* frame exceeds the buffer, or its length does not fit the header type.   *)
LengthPrefixedRoundTrip ==
    LET m     == pack_msg(pstr, LenOf(pstr), FALSE)
        body  == Copied(pstr, LenOf(pstr))
        total == HeadLen + Len(body)
    IN IF body # <<>> /\ total <= Capacity /\ total < 2 ^ HeadBits
       THEN /\ parse_msg(m) = [msgs |-> <<body>>, rest |-> <<>>, ok |-> TRUE]
            /\ raw_data(m) = body
       ELSE m = <<>>

(* pooled_packer writes into a pool buffer by offsets what packer appends, *)
(* native or not: every byte of the checked-out buffer is overwritten.     *)
PooledMatchesPacker ==
    pooled_pack_msg(pstr, LenOf(pstr), native) = pack_msg(pstr, LenOf(pstr), native)

(* prefix_suffix_packer's raw_data gives back exactly the spans' bytes of  *)
(* a framed message, and the stream packer's message is those bytes.      *)
PrefixSuffixRawData ==
    LET body == Copied(pstr, LenOf(pstr))
        m    == prefix_suffix_pack_msg(pstr, LenOf(pstr), FALSE)
    IN /\ m # <<>> => prefix_suffix_raw_data(m) = body
       /\ (m = <<>>) <=> (body = <<>> \/ Len(Prefix) + Len(Suffix) + Len(body) > Capacity)
       /\ stream_pack_msg(pstr, LenOf(pstr)) =
              IF body = <<>> \/ Len(body) > Capacity THEN <<>> ELSE body

(* The compatible edition's packers put the same bytes on the wire as the *)
(* main edition's for every input, and report failure exactly when the    *)
(* frame (native or not) would exceed the buffer or, length-prefixed, the *)
(* header type; an empty body is a success with an empty message.         *)
CompatPackersAgree ==
    LET body == Copied(pstr, LenOf(pstr))
        fits(pre) == pre + Len(body) <= Capacity
        c  == compat_pack_msg(pstr, LenOf(pstr), native)
        cp == compat_prefix_suffix_pack_msg(pstr, LenOf(pstr), native)
        hd == IF native THEN 0 ELSE HeadLen
        ps == IF native THEN 0 ELSE Len(Prefix) + Len(Suffix)
    IN /\ c.msg = pack_msg(pstr, LenOf(pstr), native)
       /\ c.ok <=> fits(hd) /\ (native \/ hd + Len(body) < 2 ^ HeadBits)
       /\ cp.msg = prefix_suffix_pack_msg(pstr, LenOf(pstr), native)
       /\ cp.ok <=> fits(ps)
================================================================================
