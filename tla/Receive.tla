-------------------------------- MODULE Receive --------------------------------
(***************************************************************************)
(* The receive path of st_tcp_socket_base: do_recv_msg issues one          *)
(* async_read into the unpacker's free region, whose completion condition *)
(* is the unpacker's; recv_handler parses, moves the messages into        *)
(* temp_msg_buffer and dispatches them; dispatch_msg issues the next read *)
(* (st_socket's do_start, spec 4.2), and only then, on a framing error,   *)
(* does recv_handler call on_unpack_error and reset the unpacker.         *)
(*                                                                         *)
(* The unpacker is the length-prefixed one of Framing.  The peer writes a *)
(* fixed byte stream; TCP hands it over in pieces of any size.            *)
(*                                                                         *)
(* dispatch_msg runs the application's on_msg inside recv_handler, and    *)
(* on_msg may replace the unpacker with inner_unpacker(p) (the comment at *)
(* its declaration allows it there).  recv_handler is therefore two steps *)
(* around on_msg: parse and dispatch, then the next read and the         *)
(* unpack-error handling, which use whatever unpacker_ is by then.  A     *)
(* swapped-in unpacker is a fresh one.                                     *)
(***************************************************************************)
EXTENDS Framing

CONSTANTS Streams,       \* the byte streams the peer may send
          SwitchMsgs,    \* messages on which on_msg swaps in a new unpacker
          PeerWaitsAt(_) \* bytes of a stream after which its peer waits for
                         \* the swap before writing more (-1: never waits)

VARIABLES stream,     \* the bytes the peer sends (fixed per behaviour)
          arrived,    \* bytes of stream the peer has written so far
          peerClosed, \* the peer closed after writing everything
          raw_buff,   \* unpacker buffer: remaining partial data, then new bytes
          got,        \* bytes transferred by the current async_read
          consumed,   \* bytes taken from the socket
          rstate,     \* "reading", "dispatching" (on_msg runs), "zero_read"
                      \* (a read that completes at once with no bytes) or
                      \* "stopped"
          region,     \* size of the region the last read was issued with
          delivered,  \* messages dispatched to the consumer, in order
          errors,     \* on_unpack_error calls
          errView,    \* unpacker buffer seen by the last on_unpack_error
          unpack_ok,  \* parse_msg's result, tested after dispatch_msg
          swapDue,    \* on_msg got a switch message and has not swapped yet
          swaps       \* inner_unpacker(p) calls

vars == <<stream, arrived, peerClosed, raw_buff, got, consumed, rstate, region,
          delivered, errors, errView, unpack_ok, swapDue, swaps>>

swapVars == <<unpack_ok, swapDue, swaps>>

-----------------------------------------------------------------------------
\* Variant whose op_iter walks temp_msg_buffer forwards.
MoveToTemp_forward(old, can) ==
    LET n == Len(can)
    IN old \o [p \in 1..n |-> can[n + 1 - p]]

(* recv_handler's copy of temp_msg_can into temp_msg_buffer: resize by      *)
(* msg_num, then walk both lists backwards from their ends, swapping: the  *)
(* k-th step fills slot Len(old) + n + 1 - k with can[n + 1 - k].          *)
MoveToTemp(old, can) ==
    LET n == Len(can)
        slot(k) == n + 1 - k    \* the k-th step's slot among the new ones
    IN old \o [p \in 1..n |-> can[slot(slot(p))]]

-----------------------------------------------------------------------------
\* The peer writes its next byte; TCP may deliver it at any later time.  A
\* peer that switches protocols waits, after the switch message, until the
\* new unpacker is in place (an application-level acknowledgement).
PeerWrite ==
    /\ arrived < Len(stream) /\ ~peerClosed
    /\ arrived = PeerWaitsAt(stream) => swaps > 0
    /\ arrived' = arrived + 1
    /\ UNCHANGED <<stream, peerClosed, raw_buff, got, consumed, rstate, region,
                   delivered, errors, errView, swapVars>>

\* The peer closes, after its whole stream or, if it fails, at any point,
\* mid-frame included.
PeerClose ==
    /\ ~peerClosed
    /\ peerClosed' = TRUE
    /\ UNCHANGED <<stream, arrived, raw_buff, got, consumed, rstate, region,
                   delivered, errors, errView, swapVars>>

\* One read_some of async_read: the completion condition still asks for
\* bytes; at most that many, the free region and what has arrived are read.
ReadSome ==
    LET want  == completion_condition(raw_buff)
        space == Capacity - Len(raw_buff)
        avail == arrived - consumed
    IN /\ rstate = "reading"
       /\ want > 0 /\ space > 0 /\ avail > 0
       /\ \E k \in 1..avail :
             /\ k <= want /\ k <= space
             /\ raw_buff' = raw_buff \o SubSeq(stream, consumed + 1, consumed + k)
             /\ consumed' = consumed + k
             /\ got' = got + k
       /\ UNCHANGED <<stream, arrived, peerClosed, rstate, region, delivered,
                      errors, errView, swapVars>>

\* Variant resetting the unpacker before on_unpack_error looks at it.
UnpackError_reset_first(rest) ==
    /\ errors' = errors + 1
    /\ errView' = <<>>
    /\ raw_buff' = <<>>

\* recv_handler when parse_msg failed: on_unpack_error, which may inspect the
\* half-baked message still buffered, then unpacker_->reset_state().
UnpackError(rest) ==
    /\ errors' = errors + 1
    /\ errView' = rest
    /\ raw_buff' = <<>>

\* async_read completes with ec = 0 and bytes (the completion condition
\* returned 0 or the region is full): recv_handler's parse_msg leaves the
\* unpacker holding what follows the last whole message; the messages are
\* appended to temp_msg_buffer and dispatch_msg hands them to on_msg in
\* order (spec 4.2).
RecvHandler ==
    LET r == parse_msg(raw_buff) IN
    /\ rstate = "reading" /\ got > 0
    /\ completion_condition(raw_buff) = 0 \/ Len(raw_buff) = Capacity
    /\ delivered' = MoveToTemp(delivered, r.msgs)
    /\ got' = 0
    /\ raw_buff' = r.rest
    /\ unpack_ok' = r.ok
    /\ swapDue' = \E i \in DOMAIN r.msgs : r.msgs[i] \in SwitchMsgs
    /\ rstate' = "dispatching"
    /\ UNCHANGED <<stream, arrived, peerClosed, consumed, region, errors, errView,
                   swaps>>

\* inner_unpacker(p) from on_msg: `unpacker_ = _unpacker_`, a fresh
\* unpacker; the bytes the old one held stay with it.
InnerUnpacker ==
    /\ rstate = "dispatching" /\ swapDue
    /\ raw_buff' = <<>>
    /\ swaps' = swaps + 1
    /\ swapDue' = FALSE
    /\ UNCHANGED <<stream, arrived, peerClosed, got, consumed, rstate, region,
                   delivered, errors, errView, unpack_ok>>

\* recv_handler from dispatch_msg on: dispatch_msg's do_start issues
\* do_recv_msg on the unpacker as it is (prepare_next_recv gives the region
\* after the data it still holds, and async_read asks its completion
\* condition once as it starts); then `if (!unpack_ok)` on_unpack_error and
\* reset_state().  A read that starts with the condition already 0, or with
\* an empty region (the assert compiled out), completes at once with no
\* bytes.
AfterDispatch ==
    LET space == prepare_next_recv(raw_buff)
        want  == completion_condition(raw_buff)
    IN /\ rstate = "dispatching" /\ ~swapDue
       /\ region' = space
       /\ rstate' = IF want = 0 \/ space = 0 THEN "zero_read" ELSE "reading"
       /\ IF unpack_ok
          THEN UNCHANGED <<raw_buff, errors, errView>>
          ELSE UnpackError(raw_buff)
       /\ UNCHANGED <<stream, arrived, peerClosed, got, consumed, delivered,
                      swapVars>>

\* The read completes with ec = 0 and no bytes: recv_handler's test
\* `!ec && bytes_transferred > 0` fails and it calls on_recv_error(ec).
ZeroRead ==
    /\ rstate = "zero_read"
    /\ rstate' = "stopped"
    /\ UNCHANGED <<stream, arrived, peerClosed, raw_buff, got, consumed, region,
                   delivered, errors, errView, swapVars>>

\* Variant taking the end of the connection only after the whole stream.
RecvEof_at_stream_end ==
    /\ rstate = "reading"
    /\ completion_condition(raw_buff) > 0
    /\ peerClosed /\ consumed = Len(stream)
    /\ rstate' = "stopped"
    /\ UNCHANGED <<stream, arrived, peerClosed, raw_buff, got, consumed, region,
                   delivered, errors, errView, swapVars>>

\* async_read fails (end of stream): recv_handler calls on_recv_error.
RecvEof ==
    /\ rstate = "reading"
    /\ completion_condition(raw_buff) > 0
    /\ peerClosed /\ consumed = arrived
    /\ rstate' = "stopped"
    /\ UNCHANGED <<stream, arrived, peerClosed, raw_buff, got, consumed, region,
                   delivered, errors, errView, swapVars>>

Init ==
    /\ stream \in Streams
    /\ arrived = 0 /\ peerClosed = FALSE
    /\ raw_buff = <<>> /\ got = 0 /\ consumed = 0
    /\ rstate = "reading" /\ region = Capacity
    /\ delivered = <<>> /\ errors = 0 /\ errView = <<>>
    /\ unpack_ok = TRUE /\ swapDue = FALSE /\ swaps = 0

Next == \/ PeerWrite \/ PeerClose \/ ReadSome \/ RecvHandler
        \/ InnerUnpacker \/ AfterDispatch \/ ZeroRead \/ RecvEof

\* The io_service runs the read and its completion, and on_msg runs inside
\* the completion; the peer keeps writing until it closes, and closes in
\* the end.
Spec == Init /\ [][Next]_vars
        /\ WF_vars(PeerWrite) /\ WF_vars(PeerClose)
        /\ WF_vars(ReadSome) /\ WF_vars(RecvHandler) /\ WF_vars(InnerUnpacker)
        /\ WF_vars(AfterDispatch) /\ WF_vars(ZeroRead) /\ WF_vars(RecvEof)

Done == rstate = "stopped"
================================================================================
