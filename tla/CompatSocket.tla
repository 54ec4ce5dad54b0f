----------------------------- MODULE CompatSocket -----------------------------
(***************************************************************************)
(* The send path of the compatible edition's st_tcp_socket_base           *)
(* (compatible_edition/include/st_asio_wrapper_tcp_socket.h).  Unlike the *)
(* main edition, do_send_msg does not look at `sending`: st_socket's      *)
(* send_msg() sets it and runs do_send_msg, and do_send_msg reports       *)
(* whether it started a write.  When it did not, the caller clears        *)
(* `sending` and, if the queue has filled meanwhile, calls send_msg()     *)
(* again.  The queue has a lock of its own, held by the dequeue loop.     *)
(*                                                                         *)
(* st_socket is not in this repository; its send_msg() (test and set     *)
(* `sending`, then do_send_msg with the same retry as send_handler) and    *)
(* the enqueue of the send functions are modelled from spec 4.3.          *)
(* An application thread may call force_shutdown or graceful_shutdown,    *)
(* synchronous or not, at any time; both test and store the plain       *)
(* shutdown_state without a lock, and shutdown() closes the socket, which *)
(* makes the write in flight complete with an error.  The link may also   *)
(* break by itself, after which every write fails.                        *)
(***************************************************************************)
EXTENDS Integers, Sequences, SequencesExt, WrapperAlgorithms

CONSTANTS Users,       \* application threads calling send
          Handler,     \* the io_service thread running send_handler
          MaxMsgs,     \* bound on accepted messages
          MaxMsgNum,   \* ST_ASIO_MAX_MSG_NUM
          MaxSendSize, \* max_send_size of do_send_msg
          MsgSize,     \* size of each message, by id
          GracefulTicks \* ST_ASIO_GRACEFUL_SHUTDOWN_MAX_DURATION * 100, scaled down

Actors == Users \cup {Handler}

VARIABLES send_msg_buffer, \* queued message ids
          last_send_msg,   \* messages of the write in flight
          sending,         \* st_socket's sending flag
          writes,          \* batches handed to async_write, not yet completed
          pc,              \* where each actor is in send_msg() / send_handler
          broken,          \* the link failed: writes complete with an error
          shutdown_state,  \* NONE, FORCE or GRACEFUL
          accepted, wire, lost,
          loop_num,        \* per user thread: graceful_shutdown's loop counter
          sync             \* per user thread: graceful_shutdown's argument

vars == <<send_msg_buffer, last_send_msg, sending, writes, pc, broken,
          shutdown_state, accepted, wire, lost, loop_num, sync>>

is_shutting_down == shutdown_state # "NONE"

\* is_send_allowed(): !is_shutting_down() (st_socket's part and stopped()
\* are always true here).
is_send_allowed == ~is_shutting_down

Sizes(buf) == [i \in 1..Len(buf) |-> MsgSize[buf[i]]]

-----------------------------------------------------------------------------
\* The send functions: lock the queue, test the room unless can_overflow,
\* append, then send_msg() to start the drain.  Spec 4.3.
SendMsg(u) ==
    /\ pc[u] = "idle" /\ accepted < MaxMsgs
    /\ \E can_overflow \in BOOLEAN : can_overflow \/ Len(send_msg_buffer) < MaxMsgNum
    /\ accepted' = accepted + 1
    /\ send_msg_buffer' = Append(send_msg_buffer, accepted + 1)
    /\ pc' = [pc EXCEPT ![u] = "trigger"]
    /\ UNCHANGED <<last_send_msg, sending, writes, broken, shutdown_state, wire, lost, loop_num, sync>>

\* st_socket::send_msg(): only the caller that turns `sending` on goes on
\* to do_send_msg.
Trigger(a) ==
    /\ pc[a] = "trigger"
    /\ IF ~sending
       THEN sending' = TRUE /\ pc' = [pc EXCEPT ![a] = "do_send"]
       ELSE UNCHANGED sending /\ pc' = [pc EXCEPT ![a] = "idle"]
    /\ UNCHANGED <<send_msg_buffer, last_send_msg, writes, broken, shutdown_state, accepted,
                   wire, lost, loop_num, sync>>

\* do_send_msg: when sending is allowed and the queue is not empty,
\* dequeue under the queue's lock the batch of the size loop, append it to
\* last_send_msg and async_write it; return false otherwise.
DoSendMsg(a) ==
    /\ pc[a] = "do_send"
    /\ IF is_send_allowed /\ send_msg_buffer # <<>>
       THEN LET k     == BatchLen(Sizes(send_msg_buffer), MaxSendSize)
                batch == SubSeq(send_msg_buffer, 1, k)
            IN /\ send_msg_buffer' = SubSeq(send_msg_buffer, k + 1, Len(send_msg_buffer))
               /\ last_send_msg' = last_send_msg \o batch
               /\ writes' = Append(writes, batch)
               /\ pc' = [pc EXCEPT ![a] = "idle"]
       ELSE /\ pc' = [pc EXCEPT ![a] = "clear"]
            /\ UNCHANGED <<send_msg_buffer, last_send_msg, writes>>
    /\ UNCHANGED <<sending, broken, shutdown_state, accepted, wire, lost, loop_num, sync>>

\* do_send_msg returned false: `sending = false`.
ClearSending(a) ==
    /\ pc[a] = "clear"
    /\ sending' = FALSE
    /\ pc' = [pc EXCEPT ![a] = "recheck"]
    /\ UNCHANGED <<send_msg_buffer, last_send_msg, writes, broken, shutdown_state, accepted,
                   wire, lost, loop_num, sync>>

\* Variant without `if (!send_msg_buffer.empty()) send_msg();`.
Recheck_never(a) ==
    /\ pc[a] = "recheck"
    /\ pc' = [pc EXCEPT ![a] = "idle"]
    /\ UNCHANGED <<send_msg_buffer, last_send_msg, sending, writes, broken, shutdown_state,
                   accepted, wire, lost, loop_num, sync>>

\* `if (!send_msg_buffer.empty()) send_msg();`: a message queued while
\* `sending` was still on is not left behind.
Recheck(a) ==
    /\ pc[a] = "recheck"
    /\ pc' = [pc EXCEPT ![a] = IF send_msg_buffer # <<>> THEN "trigger" ELSE "idle"]
    /\ UNCHANGED <<send_msg_buffer, last_send_msg, sending, writes, broken, shutdown_state,
                   accepted, wire, lost, loop_num, sync>>

\* Variant that does not clear last_send_msg.
SendHandler_no_clear ==
    /\ pc[Handler] = "idle" /\ writes # <<>>
    /\ IF broken
       THEN lost' = lost \cup Range(Head(writes)) /\ UNCHANGED wire
       ELSE wire' = wire \o Head(writes) /\ UNCHANGED lost
    /\ writes' = Tail(writes)
    /\ UNCHANGED last_send_msg
    /\ IF broken
       THEN sending' = FALSE /\ UNCHANGED pc
       ELSE UNCHANGED sending /\ pc' = [pc EXCEPT ![Handler] = "do_send"]
    /\ UNCHANGED <<send_msg_buffer, broken, shutdown_state, accepted, loop_num, sync>>

\* Variant leaving `sending` on after a failed write.
SendHandler_err_keeps_sending ==
    /\ pc[Handler] = "idle" /\ writes # <<>>
    /\ IF broken
       THEN lost' = lost \cup Range(Head(writes)) /\ UNCHANGED wire
       ELSE wire' = wire \o Head(writes) /\ UNCHANGED lost
    /\ writes' = Tail(writes)
    /\ last_send_msg' = <<>>
    /\ IF broken
       THEN UNCHANGED <<sending, pc>>
       ELSE UNCHANGED sending /\ pc' = [pc EXCEPT ![Handler] = "do_send"]
    /\ UNCHANGED <<send_msg_buffer, broken, shutdown_state, accepted, loop_num, sync>>

\* Variant clearing `sending` before it calls do_send_msg again.
SendHandler_clear_first ==
    /\ pc[Handler] = "idle" /\ writes # <<>>
    /\ IF broken
       THEN lost' = lost \cup Range(Head(writes)) /\ UNCHANGED wire
       ELSE wire' = wire \o Head(writes) /\ UNCHANGED lost
    /\ writes' = Tail(writes)
    /\ last_send_msg' = <<>>
    /\ sending' = FALSE
    /\ pc' = IF broken THEN pc ELSE [pc EXCEPT ![Handler] = "do_send"]
    /\ UNCHANGED <<send_msg_buffer, broken, shutdown_state, accepted, loop_num, sync>>

\* send_handler: the write completes (with an error once the link is
\* broken), last_send_msg.clear(); on error `sending = false`, otherwise
\* do_send_msg again (then ClearSending and Recheck if it returns false).
SendHandler ==
    /\ pc[Handler] = "idle" /\ writes # <<>>
    /\ IF broken
       THEN lost' = lost \cup Range(Head(writes)) /\ UNCHANGED wire
       ELSE wire' = wire \o Head(writes) /\ UNCHANGED lost
    /\ writes' = Tail(writes)
    /\ last_send_msg' = <<>>
    /\ IF broken
       THEN sending' = FALSE /\ UNCHANGED pc
       ELSE UNCHANGED sending /\ pc' = [pc EXCEPT ![Handler] = "do_send"]
    /\ UNCHANGED <<send_msg_buffer, broken, shutdown_state, accepted, loop_num, sync>>

\* shutdown(), under shutdown_mutex: state FORCE, and close() aborts the
\* write in flight; no later write can succeed.
shutdown ==
    /\ shutdown_state' = "FORCE"
    /\ broken' = TRUE

\* force_shutdown(): `if (FORCE != shutdown_state)`, read without a lock ...
ForceShutdown(u) ==
    /\ pc[u] = "idle" /\ shutdown_state # "FORCE"
    /\ pc' = [pc EXCEPT ![u] = "force"]
    /\ UNCHANGED <<send_msg_buffer, last_send_msg, sending, writes, broken,
                   shutdown_state, accepted, wire, lost, loop_num, sync>>

\* ... then shutdown().
ForceShutdownCall(u) ==
    /\ pc[u] = "force"
    /\ shutdown
    /\ pc' = [pc EXCEPT ![u] = "idle"]
    /\ UNCHANGED <<send_msg_buffer, last_send_msg, sending, writes, accepted,
                   wire, lost, loop_num, sync>>

\* graceful_shutdown(sync): `if (is_shutting_down()) return false;` ...
GracefulShutdown(u) ==
    /\ pc[u] = "idle" /\ ~is_shutting_down
    /\ pc' = [pc EXCEPT ![u] = "g_store"]
    /\ \E s \in BOOLEAN : sync' = [sync EXCEPT ![u] = s]
    /\ UNCHANGED <<send_msg_buffer, last_send_msg, sending, writes, broken,
                   shutdown_state, accepted, wire, lost, loop_num>>

\* ... `else shutdown_state = GRACEFUL;`, a separate store ...
GracefulStore(u) ==
    /\ pc[u] = "g_store"
    /\ shutdown_state' = "GRACEFUL"
    /\ pc' = [pc EXCEPT ![u] = "g_half"]
    /\ UNCHANGED <<send_msg_buffer, last_send_msg, sending, writes, broken,
                   accepted, wire, lost, loop_num, sync>>

\* ... then shutdown(shutdown_send, ec): on error shutdown() and return
\* false; otherwise return true (!sync) at once, or enter the polling loop
\* with its budget of ticks.  A write still in flight may already be in
\* the kernel or may fail on the half-closed socket.
HalfClose(u) ==
    /\ pc[u] = "g_half"
    /\ \/ /\ shutdown
          /\ pc' = [pc EXCEPT ![u] = "idle"]
          /\ UNCHANGED loop_num
       \/ /\ \E b \in {broken, TRUE} : broken' = b
          /\ pc' = [pc EXCEPT ![u] = IF sync[u] THEN "g_wait" ELSE "idle"]
          /\ loop_num' = [loop_num EXCEPT ![u] = GracefulTicks]
          /\ UNCHANGED shutdown_state
    /\ UNCHANGED <<send_msg_buffer, last_send_msg, sending, writes, accepted,
                   wire, lost, sync>>

\* Variant that returns at the end of the budget without shutdown().
GracefulWait_no_escalation(u) ==
    LET n == loop_num[u] - 1 IN
    /\ pc[u] = "g_wait"
    /\ loop_num' = [loop_num EXCEPT ![u] = n]
    /\ IF n >= 0 /\ is_shutting_down
       THEN UNCHANGED pc ELSE pc' = [pc EXCEPT ![u] = "idle"]
    /\ UNCHANGED <<send_msg_buffer, last_send_msg, sending, writes, broken,
                   shutdown_state, accepted, wire, lost, sync>>

\* One round of `while (--loop_num >= 0 && is_shutting_down()) sleep(10ms);`
\* and, when the loop ends, `if (loop_num < 0) shutdown();`.
GracefulWait(u) ==
    LET n == loop_num[u] - 1 IN
    /\ pc[u] = "g_wait"
    /\ loop_num' = [loop_num EXCEPT ![u] = n]
    /\ IF n >= 0 /\ is_shutting_down
       THEN UNCHANGED <<pc, broken, shutdown_state>>
       ELSE /\ pc' = [pc EXCEPT ![u] = "idle"]
            /\ IF n < 0 THEN shutdown ELSE UNCHANGED <<broken, shutdown_state>>
    /\ UNCHANGED <<send_msg_buffer, last_send_msg, sending, writes, accepted,
                   wire, lost, sync>>

\* The link fails; it never recovers.
Break ==
    /\ ~broken /\ broken' = TRUE
    /\ UNCHANGED <<send_msg_buffer, last_send_msg, sending, writes, pc,
                   shutdown_state, accepted, wire, lost, loop_num, sync>>

-----------------------------------------------------------------------------
Init == /\ send_msg_buffer = <<>> /\ last_send_msg = <<>>
        /\ sending = FALSE /\ writes = <<>>
        /\ pc = [a \in Actors |-> "idle"]
        /\ broken = FALSE /\ shutdown_state = "NONE"
        /\ accepted = 0 /\ wire = <<>> /\ lost = {}
        /\ loop_num = [u \in Users |-> 0] /\ sync = [u \in Users |-> FALSE]

\* The steps an actor takes once a call or a completion has started.
InCall(a) == \/ Trigger(a) \/ DoSendMsg(a) \/ ClearSending(a) \/ Recheck(a)
             \/ ForceShutdownCall(a) \/ GracefulStore(a) \/ HalfClose(a)
             \/ GracefulWait(a)

Next == \/ \E u \in Users : SendMsg(u)
        \/ \E a \in Actors : InCall(a)
        \/ SendHandler
        \/ \E u \in Users : ForceShutdown(u) \/ GracefulShutdown(u)
        \/ Break

\* A thread inside a call keeps running, and asio runs every completion
\* handler; callers and the link's failure are not forced to happen.
Spec == /\ Init /\ [][Next]_vars
        /\ \A a \in Actors : WF_vars(InCall(a))
        /\ WF_vars(SendHandler)

-----------------------------------------------------------------------------
(* Spec 8, sequential send: however application threads and send_handler  *)
(* interleave their send_msg() calls, at most one async_write is in        *)
(* flight, and it is the one whose messages last_send_msg holds.           *)
AtMostOneWrite ==
    /\ Len(writes) <= 1
    /\ writes # <<>> => writes[1] = last_send_msg

(* `sending` is never left on with nobody to turn it off: while it is set, *)
(* a write is in flight or some thread is inside send_msg()/send_handler  *)
(* on its way to do_send_msg or to `sending = false`.                      *)
SendingHasOwner ==
    sending => (writes # <<>> \/ \E a \in Actors : pc[a] \in {"do_send", "clear"})

\* The abstract queue: accepted and neither written nor lost.
PendingQueue == last_send_msg \o send_msg_buffer

Pipe == INSTANCE SendPipeline WITH queue <- PendingQueue

(* The compatible send path implements SendPipeline: messages reach the    *)
(* peer in acceptance order, each once, and a failed write loses exactly   *)
(* the batch it carried.                                                   *)
SendPipelineRefined == Pipe!Spec

(* No message is stranded in the queue: a message accepted while the link *)
(* works and sending is allowed is eventually written or lost, even when  *)
(* it is queued just as send_handler's do_send_msg found the queue empty  *)
(* and `sending` is still on; only a failure or a shutdown excuses it.    *)
NoStrandedMessage ==
    \A i \in 1..MaxMsgs :
        (accepted >= i /\ ~broken /\ ~is_shutting_down)
            ~> (Contains(wire, i) \/ i \in lost \/ broken \/ is_shutting_down)

(* A synchronous graceful_shutdown returns, and when it does the socket is *)
(* closed (FORCE): nothing but reset() clears shutdown_state, so the       *)
(* polling loop always runs out its budget and escalates to shutdown(),    *)
(* even when another thread's unlocked store has set GRACEFUL again.       *)
SyncGracefulEndsForced ==
    \A u \in Users : (pc[u] = "g_wait") ~> (pc[u] = "idle" /\ shutdown_state = "FORCE")

================================================================================
