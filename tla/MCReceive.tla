------------------------------ MODULE MCReceive ------------------------------
(***************************************************************************)
(* The receive path fed with streams the packer wrote, with and without a *)
(* malformed header between the frames, and one whose second message     *)
(* makes on_msg switch to a new unpacker, its peer waiting for the switch *)
(* before it writes the third.                                            *)
(***************************************************************************)
EXTENDS Receive

\* prefix_suffix_packer is not used on this path.
NoAffix == <<>>

Frame(payload) == pack_msg(<<[null |-> FALSE, data |-> payload]>>, <<Len(payload)>>, FALSE)

\* A header declaring one byte more than ST_ASIO_MSG_BUFFER_SIZE.
BadHeader == HeadBytes(Capacity + 1)

\* What the peer sends: the frames before the malformed header, whether
\* there is one, and the frames after it.
\* wait: the number of frames after which the peer waits (0: none).
Sent == {[before |-> <<<<7>>, <<8, 8>>>>, bad |-> FALSE, after |-> <<>>, wait |-> 0],
         [before |-> <<<<7>>>>, bad |-> TRUE, after |-> <<<<8, 8>>, <<7>>>>, wait |-> 0],
         [before |-> <<<<7>>, <<9>>, <<8, 8>>>>, bad |-> FALSE, after |-> <<>>, wait |-> 2]}

\* The message telling the application to switch unpackers.
MCSwitchMsgs == {<<9>>}

Bytes(r) == FlattenSeq([i \in 1..Len(r.before) |-> Frame(r.before[i])])
            \o (IF r.bad THEN BadHeader ELSE <<>>)
            \o FlattenSeq([i \in 1..Len(r.after) |-> Frame(r.after[i])])

MCStreams == {Bytes(r) : r \in Sent}
MCStreamsBad == {Bytes(r) : r \in {r2 \in Sent : r2.bad}}

SentOf(s) == CHOOSE r \in Sent : Bytes(r) = s

WaitTable ==
    [s \in MCStreams |->
        LET r == SentOf(s)
        IN IF r.wait = 0 THEN -1
           ELSE Len(FlattenSeq([i \in 1..r.wait |-> Frame(r.before[i])]))]

MCPeerWaitsAt(s) == WaitTable[s]

-----------------------------------------------------------------------------
(* recv_handler and dispatch hand the messages over in the order they were *)
(* sent: up to the first framing error, what the consumer has received is *)
(* a prefix of the frames the peer sent, and all of them once the whole  *)
(* stream has arrived and been read without error, however TCP split it;  *)
(* a peer that fails mid-frame leaves no partial message delivered.       *)
DeliveredInOrder ==
    LET before == SentOf(stream).before IN
    /\ IsPrefix(delivered, before) \/ IsPrefix(before, delivered)
    /\ (rstate = "stopped" /\ errors = 0 /\ arrived = Len(stream)) => delivered = before

(* do_recv_msg asserts that prepare_next_recv gives a non-empty region:   *)
(* until a framing error, no partial frame left behind by parse_msg ever  *)
(* fills the whole buffer, because the header test bounds a frame by      *)
(* ST_ASIO_MSG_BUFFER_SIZE.  (After a framing error the next read is      *)
(* issued on the failed unpacker, and its malformed data can fill it.)    *)
RecvRegionNonEmpty ==
    errors = 0 => region > 0

(* on_unpack_error runs before reset_state, so it sees the malformed data, *)
(* starting with the offending header.                                    *)
ErrorSeesHalfMsg ==
    errors > 0 => Len(errView) >= HeadLen /\ ~ValidLen(Header(errView))

(* recv_handler takes its error branch, on_recv_error, only at the real   *)
(* end of the connection, once the peer has closed and every byte it      *)
(* wrote has been taken (mid-frame or not), or after a framing error; a   *)
(* read that completes with ec = 0 and no bytes, because it began with    *)
(* the completion condition already satisfied, never ends a connection    *)
(* whose data is well formed: parse_msg leaves no whole frame behind.     *)
RecvErrorExplained ==
    rstate = "stopped" => (peerClosed /\ consumed = arrived) \/ errors > 0

(* The receive loop never stalls: with a peer that closes in the end,     *)
(* reading ends, through on_recv_error, whatever the peer sent and however *)
(* TCP split it.                                                           *)
ReadingEnds ==
    <>(rstate = "stopped")

(* Spec 4.2, and the comment at on_unpack_error's declaration ("the link  *)
(* is still available"): a framing error does not end the connection;    *)
(* reading stops only once the peer has closed and everything it wrote   *)
(* has been read.                                                          *)
FramingErrorKeepsReading ==
    rstate = "stopped" => peerClosed /\ consumed = arrived
================================================================================
