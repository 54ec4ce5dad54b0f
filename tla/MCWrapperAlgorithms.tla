------------------------- MODULE MCWrapperAlgorithms -------------------------
(***************************************************************************)
(* Checks the list algorithms of WrapperAlgorithms and the log formatter   *)
(* of LogFormat against reference definitions over every small input.     *)
(* The inputs are held in variables chosen by Init so that TLC enumerates *)
(* them; Next leaves them unchanged.  Init varies either the list inputs   *)
(* or the log inputs, the others keeping a fixed value.                   *)
(***************************************************************************)
EXTENDS WrapperAlgorithms, LogFormat, FiniteSets

CONSTANTS MaxLen,      \* longest list enumerated
          MaxCapacity, \* largest max_size given to splice_helper
          MaxBudget,   \* largest max_send_size given to the batch loop
          MaxStr,      \* longest head, ctime text and formatted text
          MaxBuffLen   \* largest buffer handed to all_out

\* Lists of distinct items; the items only serve to see what moved where.
Lists(base) == {[i \in 1..n |-> base + i] : n \in 0..MaxLen}

\* Message sizes of a non-empty send queue.
SizeLists == UNION {[1..n -> {1, 2}] : n \in 1..MaxLen}

\* Strings of letters; ctime's text may end in a newline, and is never empty.
Letters == {65, 66}
TimeTexts == {t \in BoundedSeq(Letters \cup {NL}, MaxStr) : t # <<>>}

VARIABLES dest_can, src_can, max_size, sizes, max_send_size, accepts,
          head, time_buff, text, buff_len
vars == <<dest_can, src_can, max_size, sizes, max_send_size, accepts,
          head, time_buff, text, buff_len>>

ListInputs == /\ dest_can \in Lists(0)
              /\ src_can \in Lists(10)
              /\ max_size \in 1..MaxCapacity
              /\ sizes \in SizeLists
              /\ max_send_size \in 0..MaxBudget
              /\ accepts \in SUBSET Range(src_can)

LogInputs == /\ head \in {NoHead} \cup BoundedSeq({65}, MaxStr)
             /\ time_buff \in TimeTexts
             /\ text \in BoundedSeq({66}, MaxStr)
             /\ buff_len \in 1..MaxBuffLen

Init == \/ /\ ListInputs
           /\ head = NoHead /\ time_buff = <<65>> /\ text = <<>> /\ buff_len = 1
        \/ /\ LogInputs
           /\ dest_can = <<>> /\ src_can = <<>> /\ max_size = 1
           /\ sizes = <<1>> /\ max_send_size = 0 /\ accepts = {}

Next == UNCHANGED vars

Spec == Init /\ [][Next]_vars

-----------------------------------------------------------------------------
\* Reference: the first n items of src go to the back of dest, where n is
\* the room left in dest (never negative) capped by the length of src.
SpliceReference(d, s, m) ==
    LET n == IF Len(d) < m THEN IF m - Len(d) < Len(s) THEN m - Len(d) ELSE Len(s)
             ELSE 0
    IN [dest |-> d \o SubSeq(s, 1, n), src |-> SubSeq(s, n + 1, Len(s)),
        ret |-> n > 0]

\* Reference: the shortest non-empty prefix whose sizes sum to at least the
\* budget, or the whole queue when no prefix does.
PrefixSum(s, k) == IF k = 0 THEN 0 ELSE
    LET f[i \in 0..k] == IF i = 0 THEN 0 ELSE f[i - 1] + s[i] IN f[k]

BatchReference(s, b) ==
    LET full == {k \in 1..Len(s) : PrefixSum(s, k) >= b}
    IN IF full = {} THEN Len(s) ELSE CHOOSE k \in full : \A j \in full : k <= j

-----------------------------------------------------------------------------
(* splice_helper moves exactly the items the room in dest_can allows, in   *)
(* order, and returns true exactly when it moved something: the iterator   *)
(* arithmetic of base.h picking the end from the nearer side agrees with   *)
(* taking a prefix of src_can.                                             *)
SpliceHelperCorrect ==
    LET r == splice_helper(dest_can, src_can, max_size)
        e == SpliceReference(dest_can, src_can, max_size)
    IN r.dest = e.dest /\ r.src = e.src /\ r.ret = e.ret

(* The count splice_helper hands to list::splice is the real distance      *)
(* between the two iterators ("use size to avoid std::distance() call, so, *)
(* size must correct"); a wrong count corrupts the list's size field.      *)
SpliceCountExact ==
    splice_helper(dest_can, src_can, max_size).count
        = splice_helper(dest_can, src_can, max_size).moved

(* The do_send_msg loop puts into one write the shortest prefix of the     *)
(* queue that reaches max_send_size, never an empty batch, and the whole   *)
(* queue when the budget is not reached.                                   *)
BatchIsShortestPrefix ==
    BatchLen(sizes, max_send_size) = BatchReference(sizes, max_send_size)

\* Reference: the items up to and including the first one the predicate
\* accepts, or all of them when it accepts none.
FirstAccepted(s, acc) ==
    LET hits == {i \in DOMAIN s : s[i] \in acc}
    IN IF hits = {} THEN Len(s) ELSE CHOOSE i \in hits : \A j \in hits : i <= j

(* do_something_to_one applies the predicate to the items in list order    *)
(* and stops right after the first one it accepts: that item is acted on   *)
(* and no later one is touched, and with no match every item is visited.   *)
VisitsUpToFirstMatch ==
    do_something_to_one(src_can, accepts) = SubSeq(src_can, 1, FirstAccepted(src_can, accepts))

\* Reference: the whole log line, "[head] " when there is a head, the time
\* without a final newline, " -> ", then the text.
LogLineReference(h, t, x) ==
    LET time == IF Last(t) = NL THEN Front(t) ELSE t
    IN (IF h = NoHead THEN <<>> ELSE <<91>> \o h \o <<93, 32>>) \o time \o <<32, 45, 62, 32>> \o x

(* all_out always leaves a NUL-terminated string in the buffer that puts  *)
(* then prints, and that string is the log line cut to buff_len - 1       *)
(* characters, wherever the cut falls: in the head, the time, the arrow   *)
(* or the formatted text, or exactly at the buffer's end.                 *)
LogLineCorrect ==
    LET b    == all_out(head, time_buff, text, buff_len)
        line == LogLineReference(head, time_buff, text)
    IN /\ HasNul(b)
       /\ CString(b) = SubSeq(line, 1, IF Len(line) < buff_len - 1 THEN Len(line) ELSE buff_len - 1)
================================================================================
