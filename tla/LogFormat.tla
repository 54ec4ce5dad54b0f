------------------------------ MODULE LogFormat ------------------------------
(***************************************************************************)
(* log_formater::all_out of st_asio_wrapper_base.h: a log line formatted   *)
(* into the caller's fixed buffer.  A std::stringstream is pointed at the *)
(* buffer with pubsetbuf and receives "[head] ", the ctime text without    *)
(* its newline and " -> "; vsnprintf then appends the caller's formatted  *)
(* text after tellp().  The build modelled is Linux (libstdc++), where the *)
(* `sgetn` branch is compiled out and a stringbuf given a buffer with     *)
(* setbuf writes into it until it is full, then continues in a string of  *)
(* its own, while tellp() keeps counting.                                 *)
(*                                                                         *)
(* Characters are their codes; strings are sequences without NUL.  What   *)
(* vsnprintf makes of fmt and ap is given as the string it would print.   *)
(***************************************************************************)
EXTENDS Integers, Sequences, SequencesExt

NUL == 0
NL == 10
Garbage == -1                      \* a byte of the buffer nobody wrote
NoHead == <<-2>>                   \* head == nullptr

\* Length of the C string in buf: the index of its first NUL minus one.
HasNul(buf) == \E i \in DOMAIN buf : buf[i] = NUL
CString(buf) ==
    LET i == CHOOSE j \in DOMAIN buf : buf[j] = NUL /\ \A k \in 1..j - 1 : buf[k] # NUL
    IN SubSeq(buf, 1, i - 1)

\* memcpy-like: bytes written into buf from offset off, cut at its end.
Store(buf, off, bytes) ==
    [p \in DOMAIN buf |-> IF p > off /\ p <= off + Len(bytes)
                          THEN bytes[p - off] ELSE buf[p]]

\* ctime_r's text with a trailing newline removed: len = strlen - 1, and
\* `if ('\n' == time_buff[--len]) time_buff[len] = '\0'`.
StripNewline(time_buff) ==
    IF time_buff[Len(time_buff)] = NL THEN SubSeq(time_buff, 1, Len(time_buff) - 1)
    ELSE time_buff

\* What the stringstream receives before the formatted text.
StreamText(head, time_buff) ==
    (IF head = NoHead THEN <<>> ELSE <<91>> \o head \o <<93, 32>>)
    \o StripNewline(time_buff) \o <<32, 45, 62, 32>>

\* vsnprintf(buff + len, n, ...): at most n - 1 characters, then NUL; with
\* n = 0 nothing is written.
Vsnprintf(buf, len, n, text) ==
    IF n = 0 THEN buf
    ELSE Store(buf, len, SubSeq(text, 1, IF Len(text) < n - 1 THEN Len(text) ELSE n - 1) \o <<NUL>>)

\* Variant testing `len > buff_len` before the terminating store.
all_out_off_by_one(head, time_buff, text, buff_len) ==
    LET s    == StreamText(head, time_buff)
        buf0 == Store([p \in 1..buff_len |-> Garbage], 0, s)
        len  == Len(s)
    IN IF len > buff_len THEN [buf0 EXCEPT ![buff_len] = NUL]
       ELSE Vsnprintf(buf0, len, buff_len - len, text)

\* log_formater::all_out: the stream fills buff, then either the last byte
\* is made NUL (the prefix already reached buff_len) or vsnprintf appends
\* the formatted text in the room left.
all_out(head, time_buff, text, buff_len) ==
    LET s    == StreamText(head, time_buff)
        buf0 == Store([p \in 1..buff_len |-> Garbage], 0, s)
        len  == Len(s)
    IN IF len >= buff_len THEN [buf0 EXCEPT ![buff_len] = NUL]
       ELSE Vsnprintf(buf0, len, buff_len - len, text)

\* unified_out::error_out and its siblings: all_out with no head into a
\* buffer of ST_ASIO_UNIFIED_OUT_BUF_NUM bytes, then puts(output_buff).
unified_out_line(time_buff, text, buf_num) ==
    CString(all_out(NoHead, time_buff, text, buf_num))
================================================================================
