------------------------------ MODULE EchoServer ------------------------------
(***************************************************************************)
(* pingpong_server's echo_socket: every message read is sent back with     *)
(* direct_send_msg, without overflowing the send queue.  When on_msg      *)
(* cannot send, it turns congestion control on; the message goes to the   *)
(* receive buffer and on_msg_handle sends it later and turns congestion   *)
(* control off.                                                            *)
(*                                                                         *)
(* The engine half is st_socket, not in this repository, and is modelled   *)
(* from spec 4.2 / 4.4: a read yields one message (stream_unpacker);      *)
(* dispatch_msg hands it to on_msg unless congestion control is on, and   *)
(* otherwise, or when on_msg refuses it, splices it into recv_msg_buffer  *)
(* (at most MaxMsgNum messages); reading resumes once nothing is left in   *)
(* temp_msg_buffer, else a timer retries dispatch_msg.  handle_msg offers  *)
(* the head of recv_msg_buffer to on_msg_handle and pops it when that     *)
(* returns true.  The send side is the main edition's without shutdown:   *)
(* direct_send_msg enqueues and calls do_send_msg; send_handler writes    *)
(* the batch and calls do_send_msg again.                                 *)
(***************************************************************************)
EXTENDS Integers, Sequences, SequencesExt, WrapperAlgorithms

CONSTANTS MaxMsgs,     \* messages the client sends
          MaxMsgNum,   \* ST_ASIO_MAX_MSG_NUM, for both buffers
          MaxSendSize, \* max_send_size of do_send_msg
          MsgSize      \* size of each message, by id

VARIABLES received,        \* messages read so far, numbered 1..received
          reading,         \* a read is outstanding
          temp_msg_buffer, \* read but neither handled nor buffered
          congestion_controlling,
          recv_msg_buffer,
          send_msg_buffer,
          last_send_msg,   \* the batch being written; <<>> when not sending
          wire             \* echoes the client has received

vars == <<received, reading, temp_msg_buffer, congestion_controlling,
          recv_msg_buffer, send_msg_buffer, last_send_msg, wire>>

Sizes(buf) == [i \in 1..Len(buf) |-> MsgSize[buf[i]]]

\* do_send_msg when not sending: the batch of the size loop becomes the
\* write in flight.
DoSend(buf) ==
    IF buf = <<>> THEN [q |-> buf, w |-> <<>>]
    ELSE LET k == BatchLen(Sizes(buf), MaxSendSize)
         IN [q |-> SubSeq(buf, k + 1, Len(buf)), w |-> SubSeq(buf, 1, k)]

\* The room test of direct_send_msg with can_overflow = false.
HasRoom == Len(send_msg_buffer) < MaxMsgNum

\* direct_send_msg once the room test passed: enqueue, then do_send_msg.
Enqueue(m) ==
    LET q == Append(send_msg_buffer, m) IN
    IF last_send_msg = <<>>
    THEN send_msg_buffer' = DoSend(q).q /\ last_send_msg' = DoSend(q).w
    ELSE send_msg_buffer' = q /\ UNCHANGED last_send_msg

-----------------------------------------------------------------------------
\* Variant of on_msg sending with can_overflow = true.
on_msg_overflow(m) ==
    /\ Enqueue(m)
    /\ UNCHANGED congestion_controlling

\* echo_socket::on_msg: direct_send_msg; when it fails, congestion_control(true)
\* (the caller then buffers the message).
on_msg(m) ==
    IF HasRoom
    THEN Enqueue(m) /\ UNCHANGED congestion_controlling
    ELSE congestion_controlling' = TRUE
         /\ UNCHANGED <<send_msg_buffer, last_send_msg>>

\* Whether on_msg takes m: the result of direct_send_msg.
on_msg_result == HasRoom

\* dispatch_msg for the message m read last: on_msg unless congestion
\* control is on; what is not handled is spliced into recv_msg_buffer, and
\* reading resumes only if it all fit.
Dispatch(m) ==
    LET handled == ~congestion_controlling /\ on_msg_result
        r       == splice_helper(recv_msg_buffer, <<m>>, MaxMsgNum)
    IN /\ IF ~congestion_controlling
          THEN on_msg(m)
          ELSE UNCHANGED <<congestion_controlling, send_msg_buffer, last_send_msg>>
       /\ IF handled
          THEN UNCHANGED recv_msg_buffer /\ temp_msg_buffer' = <<>>
          ELSE recv_msg_buffer' = r.dest /\ temp_msg_buffer' = r.src
       /\ reading' = (handled \/ r.src = <<>>)

\* A read completes with the client's next message.
RecvMsg ==
    /\ reading /\ received < MaxMsgs
    /\ received' = received + 1
    /\ Dispatch(received + 1)
    /\ UNCHANGED wire

\* The dispatch timer fires for a message that did not fit.
DispatchRetry ==
    /\ temp_msg_buffer # <<>>
    /\ Dispatch(temp_msg_buffer[1])
    /\ UNCHANGED <<received, wire>>

\* Variant of handle_msg dropping the message whatever on_msg_handle says.
HandleMsg_pop_always ==
    /\ recv_msg_buffer # <<>>
    /\ IF HasRoom
       THEN Enqueue(Head(recv_msg_buffer)) /\ congestion_controlling' = FALSE
       ELSE UNCHANGED <<send_msg_buffer, last_send_msg, congestion_controlling>>
    /\ recv_msg_buffer' = Tail(recv_msg_buffer)
    /\ UNCHANGED <<received, reading, temp_msg_buffer, wire>>

\* handle_msg with echo_socket::on_msg_handle: direct_send_msg the head of
\* recv_msg_buffer; on success pop it and congestion_control(false).  A
\* refused message stays at the head for the next try.
HandleMsg ==
    /\ recv_msg_buffer # <<>> /\ HasRoom
    /\ Enqueue(Head(recv_msg_buffer))
    /\ congestion_controlling' = FALSE
    /\ recv_msg_buffer' = Tail(recv_msg_buffer)
    /\ UNCHANGED <<received, reading, temp_msg_buffer, wire>>

\* send_handler after a successful write: the client gets the batch, and
\* do_send_msg starts the next one.
SendHandler ==
    /\ last_send_msg # <<>>
    /\ wire' = wire \o last_send_msg
    /\ send_msg_buffer' = DoSend(send_msg_buffer).q
    /\ last_send_msg' = DoSend(send_msg_buffer).w
    /\ UNCHANGED <<received, reading, temp_msg_buffer, congestion_controlling,
                   recv_msg_buffer>>

Init == /\ received = 0 /\ reading = TRUE /\ temp_msg_buffer = <<>>
        /\ congestion_controlling = FALSE
        /\ recv_msg_buffer = <<>> /\ send_msg_buffer = <<>>
        /\ last_send_msg = <<>> /\ wire = <<>>

Next == RecvMsg \/ DispatchRetry \/ HandleMsg \/ SendHandler

\* asio completes every write and read the client feeds; the timers and
\* handle_msg keep being retried.
Spec == Init /\ [][Next]_vars
        /\ WF_vars(RecvMsg) /\ WF_vars(DispatchRetry)
        /\ WF_vars(HandleMsg) /\ WF_vars(SendHandler)

-----------------------------------------------------------------------------
(* Neither buffer outgrows ST_ASIO_MAX_MSG_NUM: on_msg and on_msg_handle   *)
(* never overflow the send queue, and what they refuse waits in a receive *)
(* buffer that is itself bounded ("memory occupation will be under       *)
(* control").                                                              *)
BuffersBounded ==
    Len(send_msg_buffer) <= MaxMsgNum /\ Len(recv_msg_buffer) <= MaxMsgNum

(* Every message the client sends is eventually echoed, whether on_msg     *)
(* sends it at once or it waits in the receive buffer for on_msg_handle.  *)
EveryMsgEchoed ==
    <>(Len(wire) = MaxMsgs)

(* The client gets the echoes in the order it sent the messages: echo     *)
(* number i is message i (the pingpong client matches replies to         *)
(* requests by order).                                                    *)
EchoInOrder ==
    wire = [i \in 1..Len(wire) |-> i]
================================================================================
