--------------------------- MODULE BufferOwnership ---------------------------
(***************************************************************************)
(* proxy_buffer<T> (st_asio_wrapper_base.h), the replaceable_buffer       *)
(* message type: a holder owning a heap object through a raw pointer,     *)
(* deleting it in clear() and in its destructor, handing it over by move  *)
(* construction and swap.  Holders are the messages of the application    *)
(* and the nodes of a pending-message list; the list is drained by the    *)
(* POP_FIRST_PENDING_MSG and POP_ALL_PENDING_MSG members.  A node enters  *)
(* the list by move construction from an application message, as          *)
(* do_direct_send_msg(std::move(msg)) does.                               *)
(*                                                                         *)
(* freed and doubleFree record what delete did to the heap; dropped       *)
(* records the objects whose pointer raw_buffer(p) overwrote.             *)
(***************************************************************************)
EXTENDS Integers, Sequences, SequencesExt

CONSTANTS Holders,  \* proxy_buffer objects, application messages or list nodes
          Objs,     \* heap objects the application can allocate
          NoBuf     \* nullptr

VARIABLES alive,      \* holders whose lifetime has begun and not ended
          buf,        \* each holder's buffer pointer
          allocated,  \* objects new'ed so far
          freed,      \* objects deleted so far
          doubleFree, \* a delete hit an object already deleted
          dropped,    \* objects whose pointer raw_buffer(p) overwrote
          queue,      \* the pending-message list, by node
          list        \* the caller's msg_list of POP_ALL_PENDING_MSG

vars == <<alive, buf, allocated, freed, doubleFree, dropped, queue, list>>

\* Holders that are list nodes; the others are application messages.
Nodes == Range(queue) \cup Range(list)
Local(h) == h \in alive /\ h \notin Nodes
Fresh == Objs \ allocated

\* `delete b` for the pointers in B (delete of nullptr does nothing).
Delete(B) ==
    LET objs == B \ {NoBuf}
    IN /\ freed' = freed \cup objs
       /\ doubleFree' = doubleFree \/ objs \cap freed # {}

-----------------------------------------------------------------------------
\* proxy_buffer() and proxy_buffer(new T): a message starts empty or owning
\* a freshly allocated object.
Construct(h) ==
    /\ h \notin alive
    /\ \E b \in {NoBuf} \cup Fresh :
          /\ buf' = [buf EXCEPT ![h] = b]
          /\ allocated' = allocated \cup ({b} \ {NoBuf})
    /\ alive' = alive \cup {h}
    /\ UNCHANGED <<freed, doubleFree, dropped, queue, list>>

\* Variant of the move constructor that leaves other.buffer set.
PushBack_keeps_source(h, src) ==
    /\ h \notin alive /\ Local(src)
    /\ buf' = [buf EXCEPT ![h] = buf[src]]
    /\ alive' = alive \cup {h}
    /\ queue' = Append(queue, h)
    /\ UNCHANGED <<allocated, freed, doubleFree, dropped, list>>

\* proxy_buffer(proxy_buffer&& other): the new list node takes the pointer
\* and other.buffer becomes nullptr.
PushBack(h, src) ==
    /\ h \notin alive /\ Local(src)
    /\ buf' = [buf EXCEPT ![h] = buf[src], ![src] = NoBuf]
    /\ alive' = alive \cup {h}
    /\ queue' = Append(queue, h)
    /\ UNCHANGED <<allocated, freed, doubleFree, dropped, list>>

\* raw_buffer(_buffer) with a freshly allocated object: `buffer = _buffer`.
SetRaw(h) ==
    /\ Local(h)
    /\ \E o \in Fresh :
          /\ buf' = [buf EXCEPT ![h] = o]
          /\ allocated' = allocated \cup {o}
    /\ dropped' = dropped \cup ({buf[h]} \ {NoBuf})
    /\ UNCHANGED <<alive, freed, doubleFree, queue, list>>

\* swap(other): std::swap of the two pointers.
Swap(a, b) ==
    /\ Local(a) /\ Local(b) /\ a # b
    /\ buf' = [buf EXCEPT ![a] = buf[b], ![b] = buf[a]]
    /\ UNCHANGED <<alive, allocated, freed, doubleFree, dropped, queue, list>>

\* Variant of clear() that deletes without resetting the pointer.
Clear_no_reset(h) ==
    /\ Local(h)
    /\ Delete({buf[h]})
    /\ UNCHANGED <<alive, buf, allocated, dropped, queue, list>>

\* clear(): `delete buffer; buffer = nullptr;`
Clear(h) ==
    /\ Local(h)
    /\ Delete({buf[h]})
    /\ buf' = [buf EXCEPT ![h] = NoBuf]
    /\ UNCHANGED <<alive, allocated, dropped, queue, list>>

\* Variant of the destructor that does not call clear().
Destroy_no_clear(h) ==
    /\ Local(h)
    /\ alive' = alive \ {h}
    /\ buf' = [buf EXCEPT ![h] = NoBuf]
    /\ UNCHANGED <<allocated, freed, doubleFree, dropped, queue, list>>

\* ~proxy_buffer(): clear(), and the holder is gone.
Destroy(h) ==
    /\ Local(h)
    /\ Delete({buf[h]})
    /\ alive' = alive \ {h}
    /\ buf' = [buf EXCEPT ![h] = NoBuf]
    /\ UNCHANGED <<allocated, dropped, queue, list>>

\* Variant of POP_FIRST_PENDING_MSG copying the front's pointer into msg
\* instead of swapping with it.
PopFirst_copy(msg) ==
    /\ Local(msg)
    /\ IF queue = <<>>
       THEN /\ Delete({buf[msg]})
            /\ buf' = [buf EXCEPT ![msg] = NoBuf]
            /\ UNCHANGED <<alive, queue>>
       ELSE LET f == Head(queue) IN
            /\ Delete({buf[msg], buf[f]})
            /\ buf' = [buf EXCEPT ![msg] = buf[f], ![f] = NoBuf]
            /\ alive' = alive \ {f}
            /\ queue' = Tail(queue)
    /\ UNCHANGED <<allocated, dropped, list>>

\* POP_FIRST_PENDING_MSG: msg.clear(); under the lock, if the list is not
\* empty, msg.swap(front) and pop_front(), whose destructor deletes the
\* nullptr the front got from msg.
PopFirst(msg) ==
    /\ Local(msg)
    /\ Delete({buf[msg]})
    /\ IF queue = <<>>
       THEN buf' = [buf EXCEPT ![msg] = NoBuf] /\ UNCHANGED <<alive, queue>>
       ELSE LET f == Head(queue) IN
            /\ buf' = [buf EXCEPT ![msg] = buf[f], ![f] = NoBuf]
            /\ alive' = alive \ {f}
            /\ queue' = Tail(queue)
    /\ UNCHANGED <<allocated, dropped, list>>

\* POP_ALL_PENDING_MSG: msg_list.splice(msg_list.end(), CAN); the nodes
\* change lists, no pointer moves.
PopAll ==
    /\ queue # <<>>
    /\ list' = list \o queue
    /\ queue' = <<>>
    /\ UNCHANGED <<alive, buf, allocated, freed, doubleFree, dropped>>

\* The caller pops msg_list's front node, destroying it.
ListPopFront ==
    /\ list # <<>>
    /\ Delete({buf[Head(list)]})
    /\ alive' = alive \ {Head(list)}
    /\ buf' = [buf EXCEPT ![Head(list)] = NoBuf]
    /\ list' = Tail(list)
    /\ UNCHANGED <<allocated, dropped, queue>>

-----------------------------------------------------------------------------
Init == /\ alive = {} /\ buf = [h \in Holders |-> NoBuf]
        /\ allocated = {} /\ freed = {} /\ doubleFree = FALSE
        /\ dropped = {} /\ queue = <<>> /\ list = <<>>

Next == \/ \E h \in Holders : Construct(h) \/ SetRaw(h) \/ Clear(h)
                             \/ Destroy(h) \/ PopFirst(h)
        \/ \E h, src \in Holders : PushBack(h, src)
        \/ \E a, b \in Holders : Swap(a, b)
        \/ PopAll \/ ListPopFront

\* The application's calls are its own choice: no fairness.
Spec == Init /\ [][Next]_vars

-----------------------------------------------------------------------------
(* Spec 2, Buffer: a buffer is never aliased by two live owners.  Move     *)
(* construction into the list, swap and the pop macros hand a pointer on   *)
(* and leave nullptr (or the other pointer) behind.                        *)
NoAlias ==
    \A a, b \in alive : a # b /\ buf[a] # NoBuf => buf[a] # buf[b]

(* No object is deleted twice, and no live holder points at a deleted      *)
(* object: clear(), the destructor, and the destructor pop_front runs on  *)
(* the swapped-out list node never free what some holder still uses.     *)
NoUseAfterFree ==
    /\ ~doubleFree
    /\ \A h \in alive : buf[h] \notin freed

(* Every object the application allocated is deleted or still owned by a  *)
(* live holder, apart from what raw_buffer(p) overwrote: the destructor   *)
(* of an application message and of a popped list node frees its object. *)
NoLeakExceptRaw ==
    allocated \ freed \subseteq {buf[h] : h \in alive} \cup dropped
================================================================================
