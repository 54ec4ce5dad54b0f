# TLA+ models of st_asio_wrapper

This directory holds TLA+ specifications of the message engine in
`src/include/` and of the echo server in `src/pingpong_server/`, along with the
TLC configurations that check them. `PROJECT.json` lists the components, the
runs, the mutants, the map from definitions to source lines, the findings and
the hazards.

## 1. Inventory

The repository has six source files: the main edition's
`st_asio_wrapper_base.h`, `st_asio_wrapper_tcp_socket.h` and
`ext/st_asio_wrapper_packer.h`, the C++03 "compatible edition" of the socket
and of the packer under `compatible_edition/include/`, and
`pingpong_server.cpp`. Much of the library they build on is
not in `src/`: `st_socket` (the base class of `st_tcp_socket_base`, which owns
`send_msg_buffer`, `sending`, `dispatch_msg`, `do_direct_send_msg`, the
timers and `on_recv_error`), the packer/unpacker implementations, the server
classes and `st_service_pump`. Where a model needs one of these, it follows
`spec.md` and says so.

| component | source | state it keeps | operations |
|---|---|---|---|
| send pipeline | `st_asio_wrapper_tcp_socket.h` 66-76, 110-142, 216-240; `st_asio_wrapper_base.h` 259-264, 295-315 | `send_msg_buffer` (queue), `sending` flag, `last_send_msg` (the in-flight batch), statistics | `send_msg` / `send_native_msg` (room test, pack, enqueue, drain under `send_msg_buffer_mutex`), `safe_send_msg` (retry every 50 ms), `do_send_msg` (splice a batch and issue one `async_write`), `send_handler` (completion: statistics, clear the batch, then under the lock clear `sending` and drain again on success) |
| shutdown protocol | `st_asio_wrapper_tcp_socket.h` 47-57, 79-108, 154, 167-182 | `shutdown_state` (0 normal, 2 graceful, 1 forced), a plain `int`; `shutdown_mutex` | `force_shutdown`, `graceful_shutdown(sync)` (half-close, then optionally poll every 10 ms for up to 5 s), `shutdown` (under the mutex: state 1, stop timers, close, shut both ways), `is_shutting_down`, `obsoleted`, `reset` |
| receive path | `st_asio_wrapper_tcp_socket.h` 59-64, 144-152, 185-214 | `unpacker_` (swappable), `temp_msg_buffer` | `do_recv_msg` (one `async_read` into the unpacker's buffer), `recv_handler` (parse, count, dispatch, which issues the next read; then, on a framing error, `on_unpack_error` and `reset_state`; on a read error or an empty read `on_recv_error`) |
| list helpers | `st_asio_wrapper_base.h` 179-291 | none | `splice_helper` (move what fits), `do_something_to_all/one`, peek/pop pending-message macros |
| buffers | `st_asio_wrapper_base.h` 56-93, 148-159 | an owned pointer | move, swap, clear, destroy |
| packer/unpacker interfaces | `st_asio_wrapper_base.h` 95-177 | (implementations not in `src/`) | `pack_msg`, `parse_msg`, `completion_condition`, `prepare_next_recv`, `reset_state` |
| UDP send macros | `st_asio_wrapper_base.h` 324-357 | - | as TCP, with a peer address |
| logging | `st_asio_wrapper_base.h` 360-429 | the caller's buffer | `all_out` formats head, time and text into a fixed buffer; `unified_out` prints it |
| echo server | `pingpong_server.cpp` 50-103 | congestion control on/off (in `st_socket`) | `on_msg` echoes or turns congestion control on; `on_msg_handle` echoes a buffered message and turns it off |
| compatible edition | `compatible_edition/include/st_asio_wrapper_tcp_socket.h`, `.../ext/st_asio_wrapper_packer.h` | as the main edition, but `do_send_msg` reports whether it started a write and `st_socket::send_msg()` owns `sending` | `do_send_msg`, `send_handler` (retrigger), `pack_msg(msg, ...)` returning `bool` |
| packers | `ext/st_asio_wrapper_packer.h` | none (pooled_packer: a memory pool) | `msg_size_check`, `pack_msg` of five packers, `raw_data` |
| pingpong `main` | `pingpong_server.cpp` 105-140 | - | argument parsing, console commands |

How they interact. Application threads call `send_msg`, `safe_send_msg`,
`force_shutdown` and `graceful_shutdown` on a socket. The io_service worker
threads run the write completion (`send_handler`) and the read completion
(`recv_handler`). A read and a write completion of the same socket may run at
the same time. `send_msg_buffer_mutex` serializes the queue, `sending` and
`do_send_msg`. `shutdown_mutex` serializes `shutdown()` and nothing else:
every other access to `shutdown_state` is unlocked. `shutdown()` closes the
socket, so outstanding operations complete with an error. A read error calls
`on_recv_error`. By the library's convention (spec 4.2) that leads to
`force_shutdown`.

What is hard:
- the check-then-act sequences on `shutdown_state` racing each other and
  `shutdown()`;
- keeping at most one write outstanding while `send_handler` releases the
  batch outside the lock;
- the FIFO order of batches;
- a failed write that stops the draining;
- the busy-wait loops of `safe_send_msg` and `graceful_shutdown` and their
  exits;
- the boundary arithmetic of `splice_helper` and of the batch loop.

The list with source lines is under `hazards` in PROJECT.json.

What makes each component correct:
- **Send pipeline.** At most one write is outstanding. The peer receives
  messages in acceptance order, each at most once, and only a failed write
  loses them (refinement of `SendPipeline`). Queued messages drain on a live
  connection. `safe_send_msg` returns.
- **Shutdown.** Closed is final. `shutdown()` runs once. A synchronous
  graceful shutdown returns with the connection closed, and escalates only if
  the peer did not finish in time.
- **Receive path.** Messages are delivered in arrival order. A framing
  error is reported before the unpacker is reset. The next read is issued
  before that reset, on the unpacker that still holds the bad data, and the
  question is what that read does. Reading must always end, and end only
  for a reason.
- **Framing.** A frame decodes back to its spans. The packers reject exactly
  the input that does not fit the buffer or the header type, even when the
  lengths wrap `size_t`. Both editions produce the same bytes.
- **Buffers.** No two live `proxy_buffer`s own one object. Nothing is
  deleted twice or used after `delete`, and nothing leaks.
- **Echo server.** Both buffers stay within `ST_ASIO_MAX_MSG_NUM`. Every
  message is echoed, and in order.
- **Helpers.** `splice_helper` moves exactly what fits, and its splice count
  is the real distance. The batch is the shortest prefix that reaches the
  byte budget.

## 2. Plan

In order of importance. Items marked done are on disk and checked.

1. **TcpSocket** (done). The send pipeline and the shutdown protocol of
   `st_tcp_socket_base`, with the read-error path that leads to
   `force_shutdown`. It runs against several application threads and a peer
   that may close. **SendPipeline** (done) is the abstract FIFO-with-loss
   channel that TcpSocket implements.
2. **WrapperAlgorithms** (done). `splice_helper` and the `do_send_msg` batch
   loop as operators, checked against reference definitions.
3. **Framing** (done). Every packer of both editions as an operator, checked
   over all small inputs. The length-prefixed unpacker is modelled from
   spec 4.2.
4. **Receive** (done). `do_recv_msg` / `recv_handler` over that unpacker,
   with TCP splitting the stream anywhere.
5. **CompatSocket** (done). The compatible edition's send path with its
   retrigger protocol, shown to implement SendPipeline.
6. **EchoServer** (done). `echo_socket`'s congestion control composed with
   `dispatch_msg` / `handle_msg` and the send path.
7. **BufferOwnership** (done). `proxy_buffer` and the pending-message pop
   macros.
8. **Unpacker swap** (done). Receive splits `recv_handler` around
   `dispatch_msg`, so that `on_msg` may call `inner_unpacker(p)`.
9. **LogFormat** (done). `log_formater::all_out` and `unified_out` as
   operators, checked against a reference log line.
10. **Shutdown in CompatSocket** (done). The compatible edition's
    `force_shutdown`, `graceful_shutdown` (synchronous or not) and
    `shutdown()`, composed with its send path.
11. **Peer failure in Receive** (done). The peer may close at any point,
    mid-frame included.
12. **Read order in Receive** (done). The next read is issued inside
    `dispatch_msg`, before the unpack-error block, and a read that starts
    with its completion condition met completes with no bytes.
13. Next:
   - object reuse: `reset()` / `obsoleted()` with the pool
     (`ST_ASIO_REUSE_OBJECT`), including a graceful poll that outlives a
     reset. The pool is not in this repository.

## 3. Modules and how they map to the code

### TcpSocket

Variables:
- `shutdown_state`, `sending`, `send_msg_buffer` and `last_send_msg` are the
  code's members.
- `writes` holds the outstanding `async_write` operations.
- `handler` records a `send_handler` that has run its unlocked half.
- `sockOpen`, `sendShut` and `peerOpen` are the transport.
- `rpc` is the read path.
- `pc`, `loop_num` and `sync` are the application threads.
- `accepted`, `wire`, `lost` and `shutdowns` are history for the properties.

Messages are ids 1, 2, ... in acceptance order, and their bytes are reduced
to a size.

A step is one critical section or one unlocked access to `shutdown_state`:
- `send_msg(u, can_overflow)` is the whole `TCP_SEND_MSG` call under the
  lock: room test, enqueue, `do_send_msg`. A refused send changes nothing.
- `safe_send_msg`, `SafeSendCheck` and `SafeSendRetry` are the loop of
  `TCP_SAFE_SEND_MSG` / `SAFE_SEND_MSG_CHECK`.
- `force_shutdown` (the unlocked test) is followed by `ForceShutdownCall`
  (`shutdown()`).
- `graceful_shutdown` (the test), `GracefulSetState` (the store of 2),
  `GracefulHalfClose` and `GracefulWait` (one 10 ms round of the loop) make
  up `graceful_shutdown`.
- `SendHandler` is the transport finishing the write plus the unlocked half
  of `send_handler`. `SendHandlerLocked` is the locked half.
- `RecvError` and `RecvForceShutdown` are `recv_handler`'s error branch
  followed by `force_shutdown`.
- `PeerClose` is the environment.

`do_send_msg` keeps the quirk that its loop runs only while `last_send_msg`
is empty. `st_socket::is_send_allowed` and `stopped()` are taken as true and
false. Statistics, timers and `on_msg_send` are left out. A failed write
loses its whole batch. `all_sent` is the message `on_all_msg_send` last
received (`ST_ASIO_WANT_ALL_MSG_SEND_NOTIFY`). `send_handler` tests
`send_msg_buffer.empty()` in its unlocked part. The model takes that test
in the same step as the write's completion; a concurrent `send_msg` push
falls before or after it.

### SendPipeline

The abstract send path:
- `accepted` counts the messages accepted so far.
- `queue` holds the pending messages, `wire` the delivered ones and `lost`
  the lost ones.
- `Accept` appends to `queue`. `Transmit` moves a prefix of `queue` to
  `wire`. `Lose` moves a prefix of `queue` to `lost`.

TcpSocket and CompatSocket implement it under `queue <- PendingQueue`, the
batch in flight followed by the queue.

### WrapperAlgorithms / MCWrapperAlgorithms

`splice_helper` translates the iterator arithmetic. It records both the range
that really moves and the count handed to `list::splice`. `BatchEnd` and
`BatchLen` are the `do_send_msg` loop. `DoSomethingToOneFrom` is the loop
of `do_something_to_one` and of the `DO_SOMETHING_TO_ONE` macros: the
caller's predicate is the set `accepts` of items it returns true for, and
the result is the sequence of items it was applied to. The MC module puts
every input into its initial states (16,800 of them, and 1,871 more for the
log inputs).

### Framing / MCFraming

Messages are byte sequences. A span is a record whose `null` field stands
for a null `pstr[i]`. `size_t` and `ST_ASIO_HEAD_TYPE` are integers of
`SizeBits` and `HeadBits` bits, so wrap-around and header truncation are
real.

Packer operators:
- `msg_size_check`, with its wrap test.
- The main edition's `packer`, `pooled_packer` (offset writes into a buffer
  of garbage), `prefix_suffix_packer` and `pooled_stream_packer`.
- The compatible edition's `packer` and `prefix_suffix_packer`, which return
  a success flag.

The unpacker half is not in this repository. It is the length-prefixed
unpacker of spec 4.2 (`completion_condition`, `parse_msg`,
`prepare_next_recv`) and is marked `spec_modelled`.

MCFraming fixes every input in Init and checks each property in every
initial state (13,106 of them). The inputs are every list of up to 3 spans
of up to 3 bytes, some of them null, and every list of up to 3 lengths in a
4-bit `size_t`.

### LogFormat

`log_formater::all_out` for the Linux build, as an operator on a
`buff_len`-byte buffer whose bytes start as garbage. Characters are their
codes.
- `StreamText` is what the `stringstream` receives: `"[head] "`, the
  `ctime` text with its newline removed (`StripNewline`), and `" -> "`.
- The stream writes it into the buffer until the buffer is full, and
  `tellp()` keeps counting.
- When that count reaches `buff_len`, the last byte becomes NUL. Otherwise
  `Vsnprintf` appends the text in the room left.
- `unified_out_line` is `all_out_helper2(nullptr)` followed by `puts`.

MCWrapperAlgorithms checks `LogLineCorrect` for every head and text of up to
2 characters and every time text of up to 2 characters, with or without a
newline, in buffers of 1..13 bytes. Those buffers cover a prefix that
overflows the buffer, one that fills it exactly, and one that leaves room.

### Receive / MCReceive

Variables:
- `raw_buff` and `got` are the unpacker's buffer and the bytes of the read
  in progress.
- `temp_msg_buffer` is represented by `delivered`, the messages handed to
  the consumer.
- The peer's stream is `stream`, `arrived` and `peerClosed`.

Actions:
- `ReadSome` is one `read_some` of `async_read`, bounded by the completion
  condition and the free region.
- `RecvHandler` is `recv_handler` up to `dispatch_msg`: parse, the
  reverse-iterator move into `temp_msg_buffer` (`MoveToTemp`) and the
  dispatch to `on_msg`. `rstate` is then `"dispatching"`.
- `InnerUnpacker` is `inner_unpacker(p)` called from `on_msg` when it
  receives a message of `SwitchMsgs`. The fresh unpacker's buffer is
  empty.
- `AfterDispatch` is the rest of `recv_handler`, in the code's order.
  - `dispatch_msg`'s `do_start` issues `do_recv_msg` on the unpacker as it
    is. `region` records `prepare_next_recv`. `async_read` asks the
    completion condition once as it starts.
  - If the condition is already 0, or the region is empty (the assert at
    147 compiled out), the read completes at once with no bytes
    (`rstate = "zero_read"`).
  - Only then, on a framing error, come `on_unpack_error` and
    `reset_state`.
  - `dispatch_msg` belongs to `st_socket`, which is not in this repository.
    That it issues the read is the library's receive loop (spec 4.2:
    dispatch, then "continue reading").
- `ZeroRead` is `recv_handler`'s else branch for that empty completion:
  `on_recv_error` with a success code.
- `RecvEof` is the read error at the end of the stream.
- `PeerClose` may happen at any point, mid-frame included: a failed peer
  closes without finishing its stream.

The peer sends one of three streams:
- two frames;
- a frame, a header declaring `ST_ASIO_MSG_BUFFER_SIZE + 1` bytes, and two
  more frames;
- three frames, of which the second makes `on_msg` switch unpackers. This
  peer waits after the switch frame until the swap has happened
  (`PeerWaitsAt`), as a protocol with an acknowledgement would.

TCP may deliver any number of bytes at a time.

### CompatSocket / MCCompatSocket

The compatible edition's send path. `pc` places each actor in
`st_socket::send_msg()` (`Trigger`, spec 4.3), `do_send_msg` (`DoSendMsg`),
or the `sending = false` + re-check tail (`ClearSending`, `Recheck`). The
actors are two application threads and the io thread running `SendHandler`.
`writes` holds the outstanding `async_write`s. `Break` fails the link.

An application thread may also run the shutdown protocol:
- `ForceShutdown` / `ForceShutdownCall` are `force_shutdown`: its unlocked
  `FORCE != shutdown_state` test, then `shutdown()`.
- `GracefulShutdown`, `GracefulStore`, `HalfClose` and `GracefulWait` are
  `graceful_shutdown(sync)`: the unlocked test, the separate store of
  `GRACEFUL`, and the half-close, which escalates to `shutdown()` when it
  fails. When `sync` is true, `GracefulWait` is one round of the polling
  loop, with `loop_num` starting at `GracefulTicks` (2 in the run, for the
  500 rounds of the code), and `shutdown()` when the budget runs out.
- `shutdown` sets `FORCE`. Its `close()` makes the write in flight fail
  (`broken`).
- After a successful half-close, the write in flight may either finish or
  fail.

While the state is not `NONE`, `is_send_allowed()` is false, so
`do_send_msg` returns false.

### EchoServer / MCEchoServer

`echo_socket::on_msg` and `on_msg_handle`, with `st_socket`'s
`dispatch_msg`, `handle_msg` and `direct_send_msg` from spec 4.2/4.4 (not in
this repository). One read yields one message, because pingpong uses
`stream_unpacker`. The send side is the main edition's
`do_send_msg` / `send_handler` without shutdown. Messages are ids `1..MaxMsgs`
in the client's order.

### BufferOwnership / MCBufferOwnership

`proxy_buffer`'s constructors, destructor, `raw_buffer(p)`, `swap` and
`clear` over a set of holders and heap objects. A holder is an application
message or a node of the pending list. Nodes enter the list by move
construction (`PushBack`) and leave through `POP_FIRST_PENDING_MSG`
(`PopFirst`) or `POP_ALL_PENDING_MSG` (`PopAll`, then `ListPopFront`).
`freed` and `doubleFree` record what `delete` did. `dropped` records the
objects whose pointer `raw_buffer(p)` overwrote.

## 4. Runs

| run | cfg | expect | what it shows |
|---|---|---|---|
| algorithms | MCWrapperAlgorithms.cfg | pass | `SpliceHelperCorrect`, `SpliceCountExact` and `BatchIsShortestPrefix` for every list of 3 items or fewer, capacity ≤ 4 and byte budget 0..4; `VisitsUpToFirstMatch` (`do_something_to_one` acts on the items up to and including the first accepted one, and no later one) for every list and predicate; `LogLineCorrect` for every small log input (18,671 states) |
| send_and_shutdown | MCTcpSocket.cfg | pass | `TypeOK`, `AtMostOneWrite`, `AllSentNotified`, `SendPipelineRefined`, `AcceptedEventuallyResolved`, `SafeSendReturns` and `SyncGracefulEndsClosed` (291,603 states, about 2 min) |
| closed_is_final | MCTcpSocketClosedFinal.cfg | violation | `ClosedIsFinal`: graceful_shutdown tests the state (0), the read path closes the connection (1), and graceful_shutdown stores 2 |
| graceful_escalation | MCTcpSocketGracefulEscalate.cfg | violation | `EscalateOnlyWhenPending`: a cooperating peer closes within the budget, and the sync loop still polls to the end and calls `shutdown()` again |
| force_once | MCTcpSocketForceOnce.cfg | violation | `NoRedundantShutdown`: two `force_shutdown` calls both pass the unlocked test and both run `shutdown()` |
| framing | MCFraming.cfg | pass | `MsgSizeCheckCorrect`, `LengthPrefixedRoundTrip`, `PooledMatchesPacker`, `PrefixSuffixRawData`, `CompatPackersAgree` (13,106 states) |
| receive | MCReceive.cfg | pass | `RecvErrorExplained` (`on_recv_error` only at the peer's close, after everything it wrote was read, or after a framing error), `DeliveredInOrder` (across TCP splits and the unpacker swap), `RecvRegionNonEmpty` (the assert at 147 holds until a framing error), `ErrorSeesHalfMsg`, `ReadingEnds`; with a peer that may fail mid-frame (1,070 states) |
| unpack_recovery | MCReceiveRecovery.cfg | violation | `FramingErrorKeepsReading`: after a malformed header, the read issued inside `dispatch_msg` starts on the failed unpacker, completes with no bytes, and `on_recv_error` ends reading while the peer is still open |
| compat_send | MCCompatSocket.cfg | pass | `AtMostOneWrite`, `SendingHasOwner`, `SendPipelineRefined`, `NoStrandedMessage`, with `force_shutdown` and `graceful_shutdown` racing the send path; `SyncGracefulEndsForced`: a synchronous `graceful_shutdown` returns, and returns with the socket in `FORCE`, even when another thread's late store has set `GRACEFUL` again (86,312 states) |
| echo | MCEchoServer.cfg | pass | `BuffersBounded`, `EveryMsgEchoed` (144 states) |
| echo_order | MCEchoServerOrder.cfg | violation | `EchoInOrder`: with two messages buffered, the first `on_msg_handle` ends congestion control and a new message overtakes the second |
| buffer_ownership | MCBufferOwnership.cfg | pass | `NoAlias`, `NoUseAfterFree`, `NoLeakExceptRaw` (889 states, symmetry over holders and objects) |

Each property of a passing run has at least one mutant in PROJECT.json: a
plausible bug in a mapped definition (a dropped guard, a missing reset, a
swapped order) under which TLC finds that property violated.

### Bounds, and why they are enough

- **send_and_shutdown.**
  - Two user threads, so that a send can race another send or a shutdown.
    The write and read completions add two more actors.
  - 3 messages with `MaxMsgNum` 1, so that the queue fills while a write is
    outstanding. `safe_send_msg` must then wait, and `can_overflow` goes past
    the limit.
  - Sizes 2, 1, 1 with a 2-byte budget. Messages 2 and 3, queued behind the
    first write, go out as one batch, or alone when 3 comes later. This
    gives both two-message and one-message batches, and `AllSentNotified`
    a batch whose first and last messages differ.
  - `GracefulTicks` 2: the poll has a round that sleeps and a round that
    times out.
  - The peer may close at any time.
- **framing.**
  - `Capacity` 8 with a 2-byte header of 3 bits. Frames of 8 bytes fit the
    buffer but not the header, so the header-range test is reachable.
  - A 4-bit `size_t`, so that a length list can wrap to a small sum.
  - Spans of up to 3 bytes, which is enough to exceed the buffer.
- **receive.**
  - Frames of 3 and 4 bytes in an 8-byte buffer. One read can hold a whole
    frame and part of the next, and a partial frame can sit at the end of
    the buffer.
  - The malformed header declares `Capacity + 1`, the smallest length the
    unpacker must reject.
  - The switch frame is followed by a frame of 4 bytes. The new unpacker
    has to take up a frame that TCP may split anywhere.
- **compat_send.**
  - Two application threads and the io thread.
  - 4 messages with `MaxMsgNum` 1. The handler's `do_send_msg` can find the
    queue empty while a thread is about to enqueue, and a thread can find
    `sending` on.
  - A 2-byte budget with messages of 1 and 2 bytes.
  - The link may break, and sending may stop, at any point.
  - A polling budget of 2 rounds: the loop both repeats and runs out.
- **echo.**
  - 7 messages with `MaxMsgNum` 2. The send queue fills, on_msg refuses,
    two messages wait in `recv_msg_buffer`, and a third waits in
    `temp_msg_buffer` for the dispatch timer.
- **buffer_ownership.**
  - Four holders and three objects: one application message and two list
    nodes, plus a spare holder for swap and move.

### Fairness

- **TcpSocket.**
  - Weak fairness on the completion handlers: io_service eventually runs
    every completion whose operation finished, and the transport eventually
    completes or fails an outstanding operation.
  - Weak fairness on the steps inside a call: a thread inside
    `safe_send_msg` or `graceful_shutdown` keeps running.
  - No fairness for starting a call or for the peer closing.
- **Receive.** Weak fairness on reads, on both halves of `recv_handler`, on
  the swap (`on_msg` runs inside the completion), and on the peer writing
  and closing. The last stands for a client that keeps sending until it
  closes, and eventually closes (normally, or because it failed). That is
  the case `ReadingEnds` is about.
- **CompatSocket.** Weak fairness on the steps of a started call (the
  polling loop's rounds included: the thread sleeps 10 ms and runs again)
  and on `send_handler`. None on sending or on the link breaking.
- **EchoServer.** Weak fairness on every action. asio completes each read
  the client feeds and each write, and the dispatch timer and `handle_msg`
  keep retrying.
- **BufferOwnership.** None. All its properties are invariants.

## 5. Findings

Details are in PROJECT.json.

1. **A closed connection can be set back to graceful**
   (`st_asio_wrapper_tcp_socket.h:85`, spec_code_divergence).
   `graceful_shutdown`'s unlocked test-then-store of `shutdown_state` sets a
   closed connection back to 2. The failing half-close runs `shutdown()`
   again.
2. **A synchronous graceful shutdown always waits the full budget**
   (`:98`, spec_code_divergence). The loop waits on `is_shutting_down()`,
   which stays true once the connection is closed. It then calls
   `shutdown()` a second time.
   The compatible edition's loop (compatible `st_asio_wrapper_tcp_socket.h`
   103) is the same, and `SyncGracefulEndsForced` in the passing
   compat_send run checks what it does: it always ends in `shutdown()`.
3. **`shutdown()` can run twice** (`:79`, spec_code_divergence).
   `force_shutdown`'s "already closed" test is outside the lock.
4. **One malformed header ends reading** (`:203`,
   spec_code_divergence). `dispatch_msg` issues the next read before the
   `!unpack_ok` block resets the unpacker. That read is set up on the
   unpacker that still holds the malformed data. Its completion condition
   is already 0, so it completes at once with no bytes, and `recv_handler`
   calls `on_recv_error` while the peer is still open. When the malformed
   data fills the buffer, the assert at 147 fires first in a debug build.
   Spec 4.2 says a framing error does not tear the connection down, and the
   comment at `on_unpack_error` says the link is still available.
5. **Echoes can be reordered under congestion**
   (`pingpong_server.cpp:76`, spec_gap). `on_msg_handle` ends congestion
   control after one buffered message, on the assumption that it was the
   only one.

## 6. Not modelled, and why

- **UDP macros and `udp_msg`.** This repository has no UDP socket.
- **Logging, other builds.** The MSVC and non-Linux branches of `all_out`
  (`sgetn`, `vsnprintf_s`) are not modelled, and neither is the clock.
- **pingpong `main`.** Console I/O.
- **Statistics.** No control decision reads them.
- **`do_something_to_all` and `GET_PENDING_MSG_NUM`.** A plain `for_each`
  with no early exit, and a size read, under a shared lock; neither has state
  of its own.
- **`PEEK_FIRST_PENDING_MSG`.** It copy-assigns, and does not compile for
  `proxy_buffer`.
- **The io_service thread pool.** Each completion is its own actor, so the
  "sync graceful on the only service thread" hazard is not covered.
- **`reset()`.** Its precondition is that no operation is running.
- **`obsoleted()`.** It is `!is_shutting_down() && super::obsoleted()`.
  Only `reset()` clears `shutdown_state`, so a connection closed by
  `force_shutdown` is never obsolete. `super::obsoleted()` and the pool that
  calls it are not in this repository, so nothing here reaches the call.
- **The compatible edition's receive path.**
  It is the main edition's code, apart from C++03 spelling and
  `handle_msg()` in place of `dispatch_msg()`; Receive models that code.
- **A swap with a pipelining peer.** If the peer sends past the switch
  message without waiting, those bytes stay in the old unpacker and are
  lost. If that read also fails to parse, `on_unpack_error` sees the new
  unpacker. This is listed as a hazard; no run shows it.
- **The compatible `send_msg()` loop after a shutdown.** With messages still
  queued, `do_send_msg` returns false and `send_handler` calls `send_msg()`
  again. Under spec 4.3's `send_msg()` that cycle never ends, and
  CompatSocket exhibits it. But `st_socket::send_msg()` is not in this
  repository, so no run asserts either outcome (hazard at
  `compatible_edition/.../st_asio_wrapper_tcp_socket.h:254`).
- **The compatible `packer_helper::msg_size_check` and the `raw_data` /
  `raw_data_len` members of its packers.** They are the main edition's code
  line for line. Framing's `msg_size_check`, `raw_data` and
  `prefix_suffix_raw_data` model that code, and the compatible `pack_msg`
  operators call the same `msg_size_check`.
- **pingpong's `non_lock_queue`.** It is defined in headers that are not in
  this repository.
