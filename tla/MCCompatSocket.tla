---------------------------- MODULE MCCompatSocket ----------------------------
(* Model-checking instance of CompatSocket. *)
EXTENDS CompatSocket

CONSTANTS u1, u2, io

\* Two application threads.
MCUsers == {u1, u2}

\* Messages of one and two bytes, so that a budget of two bytes gives both
\* one-message and two-message batches.
MCMsgSize == [i \in 1..MaxMsgs |-> IF i % 2 = 1 THEN 1 ELSE 2]
================================================================================
