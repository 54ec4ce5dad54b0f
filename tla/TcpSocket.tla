------------------------------- MODULE TcpSocket -------------------------------
(***************************************************************************)
(* st_tcp_socket_base (include/st_asio_wrapper_tcp_socket.h): the send     *)
(* pipeline of one connection (send_msg, safe_send_msg, do_send_msg and    *)
(* the async_write completion send_handler) and its shutdown protocol     *)
(* (force_shutdown, graceful_shutdown, shutdown), together with the read  *)
(* completion path that reacts to a closed peer.                          *)
(*                                                                         *)
(* Actors: application threads (Users) calling the public API; the        *)
(* io_service workers running the write and the read completion           *)
(* handlers; the peer, which may close the connection.  A step is one     *)
(* critical section under send_msg_buffer_mutex or shutdown_mutex, or one *)
(* unlocked read or write of shutdown_state, which is a plain int.        *)
(*                                                                         *)
(* Messages are numbered 1, 2, ... in the order send_msg accepts them;    *)
(* their bytes are abstracted to a size MsgSize[id].                      *)
(***************************************************************************)
EXTENDS Integers, Sequences, FiniteSets, SequencesExt, WrapperAlgorithms

CONSTANTS Users,          \* application threads calling the socket's API
          MaxMsgs,        \* bound: messages accepted in one behaviour
          MaxMsgNum,      \* ST_ASIO_MAX_MSG_NUM, send_msg_buffer limit
          MaxSendSize,    \* max_send_size of do_send_msg (0 with ST_ASIO_WANT_MSG_SEND_NOTIFY)
          MsgSize,        \* function from message id to its size in bytes
          GracefulTicks,  \* ST_ASIO_GRACEFUL_SHUTDOWN_MAX_DURATION * 100, scaled down
          PeerCooperates  \* TRUE: the peer closes only after it sees our FIN

ASSUME /\ MaxMsgNum \in Nat \ {0}
       /\ MaxSendSize \in Nat
       /\ MsgSize \in [1..MaxMsgs -> Nat \ {0}]
       /\ GracefulTicks \in Nat \ {0}
       /\ PeerCooperates \in BOOLEAN

VARIABLES
    shutdown_state,  \* 0 normal, 2 first step of graceful shutdown, 1 forced
    sending,         \* a write is in progress (guarded by send_msg_buffer_mutex)
    send_msg_buffer, \* queued message ids
    last_send_msg,   \* the batch of the outstanding write
    writes,          \* outstanding async_write operations, each its buffers
    handler,         \* send_handler between its unlocked and locked part:
                     \* "idle", or the error code "ok" / "err"
    sockOpen,        \* the socket is not closed
    sendShut,        \* the outbound direction is shut down
    peerOpen,        \* the peer has not closed the connection
    rpc,             \* read path: "reading", "force" (inside force_shutdown
                     \* called from on_recv_error), "stopped"
    pc,              \* per user thread: the call it is in and where
    loop_num,        \* per user thread: graceful_shutdown's loop counter
    sync,            \* per user thread: graceful_shutdown's sync argument
    accepted,        \* number of messages accepted by send_msg
    wire,            \* message ids the peer received, in order
    all_sent,        \* the message on_all_msg_send last got, 0 for none
    lost,            \* message ids of failed writes
    shutdowns        \* number of executions of shutdown()

vars == <<shutdown_state, sending, send_msg_buffer, last_send_msg, writes,
          handler, sockOpen, sendShut, peerOpen, rpc, pc, loop_num, sync,
          accepted, wire, all_sent, lost, shutdowns>>

sendVars == <<sending, send_msg_buffer, last_send_msg, writes>>
userVars == <<pc, loop_num, sync>>
sockVars == <<shutdown_state, sockOpen, sendShut, shutdowns>>

UserStates == {"idle", "safe", "safe_sleep", "force", "g_set", "g_half", "g_wait"}

-----------------------------------------------------------------------------
(* State predicates of the code. *)

is_shutting_down == shutdown_state # 0

\* is_send_allowed(): !is_shutting_down() && st_socket::is_send_allowed();
\* the base class part is not in this repository and is taken as true.
is_send_allowed == ~is_shutting_down

\* The room test of TCP_SEND_MSG.
HasRoom(can_overflow) == can_overflow \/ Len(send_msg_buffer) < MaxMsgNum

-----------------------------------------------------------------------------
\* Variant that starts a write without testing `!sending`.
do_send_msg_ignores_sending(s, buf) ==
    IF ~is_send_allowed
    THEN sending' = FALSE /\ send_msg_buffer' = buf
         /\ UNCHANGED <<last_send_msg, writes>>
    ELSE IF buf # <<>>
    THEN LET k == IF last_send_msg = <<>>
                  THEN BatchLen([i \in DOMAIN buf |-> MsgSize[buf[i]]], MaxSendSize)
                  ELSE 0
         IN /\ sending' = TRUE
            /\ last_send_msg' = last_send_msg \o SubSeq(buf, 1, k)
            /\ send_msg_buffer' = SubSeq(buf, k + 1, Len(buf))
            /\ writes' = Append(writes, SubSeq(buf, 1, k))
    ELSE sending' = s /\ send_msg_buffer' = buf
         /\ UNCHANGED <<last_send_msg, writes>>

(* do_send_msg(), entered with send_msg_buffer_mutex held, with `s` the    *)
(* value of `sending` and `buf` the queue at entry.  When a write may      *)
(* start, the loop splices a batch into last_send_msg; it only runs while  *)
(* last_send_msg is empty, so an unfinished batch yields an empty write.   *)
do_send_msg(s, buf) ==
    IF ~is_send_allowed
    THEN /\ sending' = FALSE
         /\ send_msg_buffer' = buf
         /\ UNCHANGED <<last_send_msg, writes>>
    ELSE IF ~s /\ buf # <<>>
    THEN LET k     == IF last_send_msg = <<>>
                      THEN BatchLen([i \in DOMAIN buf |-> MsgSize[buf[i]]],
                                    MaxSendSize)
                      ELSE 0
             batch == SubSeq(buf, 1, k)
         IN /\ sending' = TRUE
            /\ last_send_msg' = last_send_msg \o batch
            /\ send_msg_buffer' = SubSeq(buf, k + 1, Len(buf))
            /\ writes' = Append(writes, batch)
    ELSE /\ sending' = s
         /\ send_msg_buffer' = buf
         /\ UNCHANGED <<last_send_msg, writes>>

\* TCP_SEND_MSG, with st_socket::do_direct_send_msg (append to the tail and
\* drain), the whole call under send_msg_buffer_mutex.  A send that finds no
\* room returns false and changes nothing.
AcceptMsg ==
    /\ accepted' = accepted + 1
    /\ do_send_msg(sending, Append(send_msg_buffer, accepted + 1))

\* shutdown(), under shutdown_mutex: mark forced, close the socket (every
\* outstanding operation completes with an error), shut both directions.
shutdown ==
    /\ shutdown_state' = 1
    /\ sockOpen' = FALSE
    /\ sendShut' = TRUE
    /\ shutdowns' = shutdowns + 1

-----------------------------------------------------------------------------
(* Application threads. *)

InSafeSend == {u \in Users : pc[u] \in {"safe", "safe_sleep"}}

\* A message id is reserved for every safe_send still retrying.
CanStartSend == accepted + Cardinality(InSafeSend) < MaxMsgs

send_msg(u, can_overflow) ==
    /\ pc[u] = "idle"
    /\ CanStartSend
    /\ HasRoom(can_overflow)
    /\ AcceptMsg
    /\ UNCHANGED <<handler, sockVars, peerOpen, rpc, userVars, wire, all_sent, lost>>

\* TCP_SAFE_SEND_MSG with can_overflow = false: the first send attempt.
safe_send_msg(u) ==
    /\ pc[u] = "idle"
    /\ CanStartSend
    /\ IF HasRoom(FALSE)
       THEN AcceptMsg /\ UNCHANGED pc
       ELSE /\ pc' = [pc EXCEPT ![u] = "safe"]
            /\ UNCHANGED <<sendVars, accepted>>
    /\ UNCHANGED <<handler, sockVars, peerOpen, rpc, loop_num, sync, wire, all_sent, lost>>

\* Variant of the check that keeps sleeping without testing is_send_allowed.
SafeSendCheck_never_gives_up(u) ==
    /\ pc[u] = "safe"
    /\ pc' = [pc EXCEPT ![u] = "safe_sleep"]
    /\ UNCHANGED <<sendVars, handler, sockVars, peerOpen, rpc, loop_num, sync,
                   accepted, wire, all_sent, lost>>

\* SAFE_SEND_MSG_CHECK: give up when sending is not allowed, else sleep.
SafeSendCheck(u) ==
    /\ pc[u] = "safe"
    /\ pc' = [pc EXCEPT ![u] = IF is_send_allowed THEN "safe_sleep" ELSE "idle"]
    /\ UNCHANGED <<sendVars, handler, sockVars, peerOpen, rpc, loop_num, sync,
                   accepted, wire, all_sent, lost>>

\* After the sleep, the next send attempt of the loop.
SafeSendRetry(u) ==
    /\ pc[u] = "safe_sleep"
    /\ IF HasRoom(FALSE)
       THEN AcceptMsg /\ pc' = [pc EXCEPT ![u] = "idle"]
       ELSE /\ pc' = [pc EXCEPT ![u] = "safe"]
            /\ UNCHANGED <<sendVars, accepted>>
    /\ UNCHANGED <<handler, sockVars, peerOpen, rpc, loop_num, sync, wire, all_sent, lost>>

\* force_shutdown(): `if (1 != shutdown_state)` is read outside the lock ...
force_shutdown(u) ==
    /\ pc[u] = "idle"
    /\ pc' = [pc EXCEPT ![u] = IF shutdown_state # 1 THEN "force" ELSE "idle"]
    /\ UNCHANGED <<sendVars, handler, sockVars, peerOpen, rpc, loop_num, sync,
                   accepted, wire, all_sent, lost>>

\* ... and shutdown() runs afterwards.
ForceShutdownCall(u) ==
    /\ pc[u] = "force"
    /\ shutdown
    /\ pc' = [pc EXCEPT ![u] = "idle"]
    /\ UNCHANGED <<sendVars, handler, peerOpen, rpc, loop_num, sync, accepted,
                   wire, all_sent, lost>>

\* graceful_shutdown(sync): `if (is_shutting_down()) return false;` ...
graceful_shutdown(u, s) ==
    /\ pc[u] = "idle"
    /\ pc' = [pc EXCEPT ![u] = IF is_shutting_down THEN "idle" ELSE "g_set"]
    /\ sync' = [sync EXCEPT ![u] = s]
    /\ UNCHANGED <<sendVars, handler, sockVars, peerOpen, rpc, loop_num,
                   accepted, wire, all_sent, lost>>

\* ... `else shutdown_state = 2;` as a separate, unlocked store.
GracefulSetState(u) ==
    /\ pc[u] = "g_set"
    /\ shutdown_state' = 2
    /\ pc' = [pc EXCEPT ![u] = "g_half"]
    /\ UNCHANGED <<sendVars, handler, sockOpen, sendShut, shutdowns, peerOpen,
                   rpc, loop_num, sync, accepted, wire, all_sent, lost>>

\* shutdown(shutdown_send, ec); on error shutdown() and return false; else
\* return !sync at once, or enter the polling loop with 5 s worth of ticks.
GracefulHalfClose(u) ==
    /\ pc[u] = "g_half"
    /\ IF ~sockOpen
       THEN /\ shutdown
            /\ pc' = [pc EXCEPT ![u] = "idle"]
            /\ UNCHANGED loop_num
       ELSE /\ sendShut' = TRUE
            /\ pc' = [pc EXCEPT ![u] = IF sync[u] THEN "g_wait" ELSE "idle"]
            /\ loop_num' = [loop_num EXCEPT ![u] = GracefulTicks]
            /\ UNCHANGED <<shutdown_state, sockOpen, shutdowns>>
    /\ UNCHANGED <<sendVars, handler, peerOpen, rpc, sync, accepted, wire, all_sent, lost>>

\* Variant that returns at the end of the budget without shutdown().
GracefulWait_no_escalation(u) ==
    LET n == loop_num[u] - 1 IN
    /\ pc[u] = "g_wait"
    /\ loop_num' = [loop_num EXCEPT ![u] = n]
    /\ IF n >= 0 /\ is_shutting_down
       THEN UNCHANGED pc ELSE pc' = [pc EXCEPT ![u] = "idle"]
    /\ UNCHANGED <<sockVars, sendVars, handler, peerOpen, rpc, sync, accepted,
                   wire, all_sent, lost>>

\* Variant with a post-decrement, `while (loop_num-- >= 0 && ...)`.
GracefulWait_postdec(u) ==
    LET n == loop_num[u] - 1 IN
    /\ pc[u] = "g_wait"
    /\ loop_num' = [loop_num EXCEPT ![u] = n]
    /\ IF loop_num[u] >= 0 /\ is_shutting_down
       THEN UNCHANGED <<pc, sockVars>>
       ELSE /\ pc' = [pc EXCEPT ![u] = "idle"]
            /\ IF n < 0 THEN shutdown ELSE UNCHANGED sockVars
    /\ UNCHANGED <<sendVars, handler, peerOpen, rpc, sync, accepted, wire, all_sent, lost>>

\* One round of `while (--loop_num >= 0 && is_shutting_down()) sleep(10ms);`
\* and, when the loop ends, `if (loop_num < 0) shutdown();`.
GracefulWait(u) ==
    LET n == loop_num[u] - 1 IN
    /\ pc[u] = "g_wait"
    /\ loop_num' = [loop_num EXCEPT ![u] = n]
    /\ IF n >= 0 /\ is_shutting_down
       THEN UNCHANGED <<pc, sockVars>>
       ELSE /\ pc' = [pc EXCEPT ![u] = "idle"]
            /\ IF n < 0 THEN shutdown ELSE UNCHANGED sockVars
    /\ UNCHANGED <<sendVars, handler, peerOpen, rpc, sync, accepted, wire, all_sent, lost>>

-----------------------------------------------------------------------------
(* The write completion: send_handler(ec, bytes_transferred). *)

\* Variant notifying the first message of the batch.
AllMsgSend_front(batch) ==
    IF send_msg_buffer = <<>> THEN batch[1] ELSE all_sent

\* ST_ASIO_WANT_ALL_MSG_SEND_NOTIFY: `if (send_msg_buffer.empty())
\* on_all_msg_send(last_send_msg.back())`, read without the queue's lock.
AllMsgSend(batch) ==
    IF send_msg_buffer = <<>> THEN Last(batch) ELSE all_sent

\* Variant that clears last_send_msg only after a successful write.
SendHandler_clears_on_success ==
    /\ writes # <<>>
    /\ handler = "idle"
    /\ \/ /\ sockOpen /\ ~sendShut
          /\ wire' = wire \o Head(writes)
          /\ all_sent' = AllMsgSend(Head(writes))
          /\ handler' = "ok"
          /\ last_send_msg' = <<>>
          /\ UNCHANGED lost
       \/ /\ ~sockOpen \/ sendShut \/ ~peerOpen
          /\ lost' = lost \cup ToSet(Head(writes))
          /\ handler' = "err"
          /\ UNCHANGED <<wire, all_sent, last_send_msg>>
    /\ writes' = Tail(writes)
    /\ UNCHANGED <<sending, send_msg_buffer, sockVars, peerOpen, rpc, userVars,
                   accepted>>

\* The transport finishes the oldest outstanding write and the handler's
\* unlocked part runs: on success the batch is on the wire and
\* on_all_msg_send may run (statistics are not modelled), on error it is
\* lost (on_send_error);
\* last_send_msg is cleared either way.  A write fails once the socket is
\* closed or shut for sending, and may fail once the peer has gone.
SendHandler ==
    /\ writes # <<>>
    /\ handler = "idle"
    /\ \/ /\ sockOpen /\ ~sendShut
          /\ wire' = wire \o Head(writes)
          /\ all_sent' = AllMsgSend(Head(writes))
          /\ handler' = "ok"
          /\ UNCHANGED lost
       \/ /\ ~sockOpen \/ sendShut \/ ~peerOpen
          /\ lost' = lost \cup ToSet(Head(writes))
          /\ handler' = "err"
          /\ UNCHANGED <<wire, all_sent>>
    /\ writes' = Tail(writes)
    /\ last_send_msg' = <<>>
    /\ UNCHANGED <<sending, send_msg_buffer, sockVars, peerOpen, rpc, userVars,
                   accepted>>

\* Variant whose locked part never calls do_send_msg() again.
SendHandlerLocked_no_resend ==
    /\ handler # "idle"
    /\ handler' = "idle"
    /\ sending' = FALSE
    /\ UNCHANGED <<send_msg_buffer, last_send_msg, writes>>
    /\ UNCHANGED <<sockVars, peerOpen, rpc, userVars, accepted, wire, all_sent, lost>>

\* The locked part: sending = false, and only after a success do_send_msg().
SendHandlerLocked ==
    /\ handler # "idle"
    /\ handler' = "idle"
    /\ IF handler = "ok"
       THEN do_send_msg(FALSE, send_msg_buffer)
       ELSE /\ sending' = FALSE
            /\ UNCHANGED <<send_msg_buffer, last_send_msg, writes>>
    /\ UNCHANGED <<sockVars, peerOpen, rpc, userVars, accepted, wire, all_sent, lost>>

-----------------------------------------------------------------------------
(* The read path and the peer. *)

\* The outstanding read fails (end of stream, or cancelled by close()):
\* recv_handler calls on_recv_error, which by the library's convention calls
\* force_shutdown(); its unlocked test of shutdown_state happens here.
RecvError ==
    /\ rpc = "reading"
    /\ ~peerOpen \/ ~sockOpen
    /\ rpc' = IF shutdown_state # 1 THEN "force" ELSE "stopped"
    /\ UNCHANGED <<sendVars, handler, sockVars, peerOpen, userVars, accepted,
                   wire, all_sent, lost>>

RecvForceShutdown ==
    /\ rpc = "force"
    /\ shutdown
    /\ rpc' = "stopped"
    /\ UNCHANGED <<sendVars, handler, peerOpen, userVars, accepted, wire, all_sent, lost>>

\* The peer closes its end: any time, or only after our FIN if it cooperates.
PeerClose ==
    /\ peerOpen
    /\ ~PeerCooperates \/ sendShut
    /\ peerOpen' = FALSE
    /\ UNCHANGED <<sendVars, handler, sockVars, rpc, userVars, accepted, wire, all_sent,
                   lost>>

-----------------------------------------------------------------------------
Init ==
    /\ shutdown_state = 0
    /\ sending = FALSE
    /\ send_msg_buffer = <<>>
    /\ last_send_msg = <<>>
    /\ writes = <<>>
    /\ handler = "idle"
    /\ sockOpen = TRUE
    /\ sendShut = FALSE
    /\ peerOpen = TRUE
    /\ rpc = "reading"
    /\ pc = [u \in Users |-> "idle"]
    /\ loop_num = [u \in Users |-> 0]
    /\ sync = [u \in Users |-> FALSE]
    /\ accepted = 0
    /\ wire = <<>>
    /\ all_sent = 0
    /\ lost = {}
    /\ shutdowns = 0

\* The steps a thread takes inside a call it has already made.
InCall(u) ==
    \/ SafeSendCheck(u) \/ SafeSendRetry(u) \/ ForceShutdownCall(u)
    \/ GracefulSetState(u) \/ GracefulHalfClose(u) \/ GracefulWait(u)

Next ==
    \/ \E u \in Users :
          \/ \E co \in BOOLEAN : send_msg(u, co)
          \/ safe_send_msg(u)
          \/ force_shutdown(u)
          \/ \E s \in BOOLEAN : graceful_shutdown(u, s)
          \/ InCall(u)
    \/ SendHandler \/ SendHandlerLocked
    \/ RecvError \/ RecvForceShutdown
    \/ PeerClose

\* io_service eventually runs every completion whose operation finished,
\* and the transport eventually finishes (or fails) every operation; a
\* thread inside a call keeps running.  Starting a call, and the peer
\* closing, are never forced.
Fairness ==
    /\ WF_vars(SendHandler) /\ WF_vars(SendHandlerLocked)
    /\ WF_vars(RecvError) /\ WF_vars(RecvForceShutdown)
    /\ \A u \in Users : WF_vars(InCall(u))

Spec == Init /\ [][Next]_vars /\ Fairness

-----------------------------------------------------------------------------
TypeOK ==
    /\ shutdown_state \in {0, 1, 2}
    /\ sending \in BOOLEAN
    /\ send_msg_buffer \in Seq(1..MaxMsgs)
    /\ last_send_msg \in Seq(1..MaxMsgs)
    /\ writes \in Seq(Seq(1..MaxMsgs))
    /\ handler \in {"idle", "ok", "err"}
    /\ {sockOpen, sendShut, peerOpen} \subseteq BOOLEAN
    /\ rpc \in {"reading", "force", "stopped"}
    /\ pc \in [Users -> UserStates]
    /\ loop_num \in [Users -> -1..GracefulTicks]
    /\ sync \in [Users -> BOOLEAN]
    /\ accepted \in 0..MaxMsgs
    /\ wire \in Seq(1..MaxMsgs)
    /\ all_sent \in 0..MaxMsgs
    /\ lost \subseteq 1..MaxMsgs
    /\ shutdowns \in Nat

-----------------------------------------------------------------------------
(* Properties. *)

(* The sending flag serializes writes: however send_msg calls from several *)
(* threads interleave with send_handler, which clears last_send_msg before *)
(* taking the lock and clearing `sending`, at most one async_write is      *)
(* outstanding, and it carries exactly the batch in last_send_msg.         *)
AtMostOneWrite ==
    /\ Len(writes) <= 1
    /\ writes # <<>> => writes[1] = last_send_msg

\* The abstract queue: what the send path has accepted and neither written
\* nor lost.  Once send_handler's first part has run, the batch it took is
\* already accounted for on the wire or as lost.
PendingQueue == IF handler = "idle" THEN last_send_msg \o send_msg_buffer
                ELSE send_msg_buffer

Pipe == INSTANCE SendPipeline WITH queue <- PendingQueue

(* The send path implements SendPipeline: batches taken from the head of   *)
(* send_msg_buffer by do_send_msg reach the peer in acceptance order, with *)
(* no message written twice, and a failed write (send_handler with an     *)
(* error) loses only the oldest pending messages.                          *)
SendPipelineRefined == Pipe!Spec

(* Every accepted message is eventually written or lost, unless the        *)
(* connection is shutting down: send_handler keeps draining the queue      *)
(* after each successful write, and a failed write (which stops draining)  *)
(* only happens on a connection that the read path then shuts down.        *)
AcceptedEventuallyResolved ==
    \A i \in 1..MaxMsgs :
        (accepted >= i) ~> (Contains(wire, i) \/ i \in lost \/ is_shutting_down)

(* With ST_ASIO_WANT_ALL_MSG_SEND_NOTIFY, the application learns that the  *)
(* queue has drained: however a send_msg races send_handler's unlocked     *)
(* send_msg_buffer.empty() test, once the last accepted message has       *)
(* reached the peer, on_all_msg_send has been called with that message.   *)
(* The race can only add a notification while a new message is queued.    *)
AllSentNotified ==
    (wire # <<>> /\ Last(wire) = accepted) => all_sent = accepted

(* safe_send_msg never blocks its caller forever: either a write completion *)
(* frees a slot, or SAFE_SEND_MSG_CHECK sees the connection shutting down.  *)
SafeSendReturns ==
    \A u \in Users : (pc[u] = "safe") ~> (pc[u] = "idle")

(* A synchronous graceful_shutdown returns, and when it does the            *)
(* connection is closed: the polling loop ends and escalates to shutdown() *)
(* after ST_ASIO_GRACEFUL_SHUTDOWN_MAX_DURATION.                            *)
SyncGracefulEndsClosed ==
    \A u \in Users : (pc[u] = "g_wait") ~> (pc[u] = "idle" /\ shutdown_state = 1)

(* Spec section 3: the shutdown state never leaves Closed (1).  The        *)
(* unlocked test-then-store of graceful_shutdown races shutdown().         *)
ClosedIsFinal == [][shutdown_state = 1 => shutdown_state' = 1]_vars

(* Spec sections 4.3 and 8: force_shutdown is a no-op on a closed          *)
(* connection, and a graceful shutdown the peer completes runs the         *)
(* cancel-everything shutdown() only once.                                 *)
NoRedundantShutdown == shutdowns <= 1

(* Spec section 4.3: a synchronous graceful_shutdown polls until the       *)
(* state leaves GracefulPending (2), and escalates to shutdown() only if   *)
(* the time budget runs out while it is still pending; the loop of the     *)
(* code tests is_shutting_down(), which a closed (1) connection also is.   *)
EscalateOnlyWhenPending ==
    [][\A u \in Users :
         (pc[u] = "g_wait" /\ pc'[u] = "idle" /\ shutdowns' > shutdowns)
            => shutdown_state = 2]_vars
================================================================================
