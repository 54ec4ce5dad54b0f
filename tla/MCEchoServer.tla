---------------------------- MODULE MCEchoServer ----------------------------
(* Model-checking instance of EchoServer. *)
EXTENDS EchoServer

\* Messages of one and two bytes, so that a budget of two bytes gives both
\* one-message and two-message batches.
MCMsgSize == [i \in 1..MaxMsgs |-> IF i % 2 = 1 THEN 1 ELSE 2]
================================================================================
