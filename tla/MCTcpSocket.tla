------------------------------ MODULE MCTcpSocket ------------------------------
(* Model-checking instance of TcpSocket. *)
EXTENDS TcpSocket

CONSTANTS u1, u2

\* Two application threads.
MCUsers == {u1, u2}

\* One application thread, racing only the io_service completion handlers.
MCUsersOne == {u1}

\* The first message, which always leaves alone, has two bytes, the later
\* ones one, so that a budget of two bytes gives both one-message batches
\* and a batch of messages 2 and 3 queued behind the first write.
MCMsgSize == [i \in 1..MaxMsgs |-> IF i = 1 THEN 2 ELSE 1]
================================================================================
