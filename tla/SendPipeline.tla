----------------------------- MODULE SendPipeline -----------------------------
(***************************************************************************)
(* What the send path of a connection promises, independent of batching,  *)
(* locking and completion handlers: messages accepted by send are numbered *)
(* in acceptance order; the transport receives them strictly in that      *)
(* order, each at most once; a failed write loses a prefix of what is     *)
(* still pending; what is never written stays pending (no retry, no       *)
(* delivery guarantee after a failure or a shutdown).                     *)
(***************************************************************************)
EXTENDS Naturals, Sequences

CONSTANT MaxMsgs   \* bound on the number of accepted messages

VARIABLES accepted, \* messages accepted so far; message ids are 1..accepted
          queue,    \* accepted and not yet written nor lost, oldest first
          wire,     \* messages the transport received, in order
          lost      \* messages whose write failed

vars == <<accepted, queue, wire, lost>>

Init == accepted = 0 /\ queue = <<>> /\ wire = <<>> /\ lost = {}

Accept == /\ accepted < MaxMsgs
          /\ accepted' = accepted + 1
          /\ queue' = Append(queue, accepted + 1)
          /\ UNCHANGED <<wire, lost>>

\* A write delivers the oldest k pending messages.
Transmit == \E k \in 1..Len(queue) :
              /\ wire' = wire \o SubSeq(queue, 1, k)
              /\ queue' = SubSeq(queue, k + 1, Len(queue))
              /\ UNCHANGED <<accepted, lost>>

\* A failed write loses the oldest k pending messages.
Lose == \E k \in 1..Len(queue) :
          /\ lost' = lost \cup {queue[i] : i \in 1..k}
          /\ queue' = SubSeq(queue, k + 1, Len(queue))
          /\ UNCHANGED <<accepted, wire>>

Next == Accept \/ Transmit \/ Lose

Spec == Init /\ [][Next]_vars
================================================================================
