--------------------------- MODULE WrapperAlgorithms ---------------------------
(***************************************************************************)
(* Pure list algorithms of st_asio_wrapper, written as operators over      *)
(* sequences.  List iterators are 1-based indices into the sequence, an    *)
(* end iterator is Len + 1.                                                *)
(***************************************************************************)
EXTENDS Integers, Sequences

\* Variant computing the room one item short (an off-by-one in
\* `size = max_size - size`).
splice_helper_room_short(dest_can, src_can, max_size) ==
    IF Len(dest_can) < max_size
    THEN LET room    == max_size - Len(dest_can) - 1
             end_pos == IF Len(src_can) > room THEN 1 + room ELSE Len(src_can) + 1
             size    == IF Len(src_can) > room THEN room ELSE Len(src_can)
         IN [dest |-> dest_can \o SubSeq(src_can, 1, end_pos - 1),
             src |-> SubSeq(src_can, end_pos, Len(src_can)),
             count |-> size, moved |-> end_pos - 1, ret |-> size > 0]
    ELSE [dest |-> dest_can, src |-> src_can, count |-> 0, moved |-> 0,
          ret |-> FALSE]

\* Variant where `size = src_can.size()` is not limited to the else branch,
\* so the count handed to splice is the whole source list.
splice_helper_count_all(dest_can, src_can, max_size) ==
    IF Len(dest_can) < max_size
    THEN LET room    == max_size - Len(dest_can)
             end_pos == IF Len(src_can) > room THEN 1 + room ELSE Len(src_can) + 1
         IN [dest |-> dest_can \o SubSeq(src_can, 1, end_pos - 1),
             src |-> SubSeq(src_can, end_pos, Len(src_can)),
             count |-> Len(src_can), moved |-> end_pos - 1,
             ret |-> Len(src_can) > 0]
    ELSE [dest |-> dest_can, src |-> src_can, count |-> 0, moved |-> 0,
          ret |-> FALSE]

(***************************************************************************)
(* splice_helper(dest_can, src_can, max_size): move as many items from the *)
(* front of src_can to the back of dest_can as dest_can can still hold.    *)
(* The code computes the end iterator from whichever side is closer and    *)
(* passes the precomputed `size` to list::splice as the item count instead *)
(* of measuring the distance.  The result records both the iterator range  *)
(* that really moves and the count handed to splice.                       *)
(***************************************************************************)
splice_helper(dest_can, src_can, max_size) ==
    IF Len(dest_can) < max_size
    THEN LET room      == max_size - Len(dest_can)
             begin_pos == 1
             left_num  == Len(src_can) - room
             end_pos   == IF Len(src_can) > room
                          THEN IF left_num > room
                               THEN begin_pos + room
                               ELSE (Len(src_can) + 1) - left_num
                          ELSE Len(src_can) + 1
             size      == IF Len(src_can) > room THEN room ELSE Len(src_can)
         IN [dest  |-> dest_can \o SubSeq(src_can, begin_pos, end_pos - 1),
             src   |-> SubSeq(src_can, end_pos, Len(src_can)),
             count |-> size,
             moved |-> end_pos - begin_pos,
             ret   |-> size > 0]
    ELSE [dest |-> dest_can, src |-> src_can, count |-> 0, moved |-> 0,
          ret |-> FALSE]

\* Variant of the loop without its `break`, as in do_something_to_all.
RECURSIVE DoSomethingToOneFrom_no_break(_, _, _)
DoSomethingToOneFrom_no_break(can, accepts, iter) ==
    IF iter > Len(can) THEN <<>>
    ELSE <<can[iter]>> \o DoSomethingToOneFrom_no_break(can, accepts, iter + 1)

(***************************************************************************)
(* do_something_to_one(can, mutex, pred) and DO_SOMETHING_TO_ONE(_MUTEX):  *)
(* `for (iter = begin; iter != end; ++iter) if (pred(item at iter)) break;` *)
(* under a shared lock when there is a mutex.  The predicate is the set of *)
(* items for which it returns true; the result is the sequence of items it *)
(* was applied to, from iter on.                                           *)
(***************************************************************************)
RECURSIVE DoSomethingToOneFrom(_, _, _)
DoSomethingToOneFrom(can, accepts, iter) ==
    IF iter > Len(can) THEN <<>>
    ELSE <<can[iter]>> \o (IF can[iter] \in accepts THEN <<>>
                          ELSE DoSomethingToOneFrom(can, accepts, iter + 1))

do_something_to_one(can, accepts) == DoSomethingToOneFrom(can, accepts, 1)

\* Variant stopping only once the total exceeds the budget (`>` for `>=`).
RECURSIVE BatchEnd_exceeds(_, _, _, _)
BatchEnd_exceeds(sizes, max_send_size, iter, size) ==
    LET total == size + sizes[iter]
    IN IF total > max_send_size \/ iter = Len(sizes)
       THEN iter
       ELSE BatchEnd_exceeds(sizes, max_send_size, iter + 1, total)

(***************************************************************************)
(* The batch loop of st_tcp_socket_base::do_send_msg: starting at the head *)
(* of the send queue, add each message's size to a running total and stop *)
(* after the first message that brings the total to max_send_size, or at   *)
(* the end of the queue.  The result is the number of messages spliced     *)
(* into last_send_msg.  The body runs at least once, so with               *)
(* max_send_size = 0 (ST_ASIO_WANT_MSG_SEND_NOTIFY) one message is taken.  *)
(***************************************************************************)
RECURSIVE BatchEnd(_, _, _, _)
BatchEnd(sizes, max_send_size, iter, size) ==
    LET total == size + sizes[iter]
    IN IF total >= max_send_size \/ iter = Len(sizes)
       THEN iter
       ELSE BatchEnd(sizes, max_send_size, iter + 1, total)

BatchLen(sizes, max_send_size) == BatchEnd(sizes, max_send_size, 1, 0)
================================================================================
