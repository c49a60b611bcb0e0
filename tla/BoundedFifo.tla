----------------------------- MODULE BoundedFifo -----------------------------
(***************************************************************************)
(* What one direction of the shared-memory interface promises: a FIFO      *)
(* queue of at most Capacity messages with one producer and one consumer.  *)
(* The consumer first holds a copy of the oldest message and then removes  *)
(* it; in between, the copy stays the oldest message.                      *)
(***************************************************************************)
EXTENDS Naturals, Sequences

CONSTANTS Messages,
          Nothing,      \* not one of Messages
          Capacity      \* a positive number

VARIABLES queue,    \* the messages put and not yet removed, oldest first
          held      \* the consumer's copy of the oldest message, or Nothing

vars == <<queue, held>>

Init == queue = <<>> /\ held = Nothing

Put(m) ==
    /\ Len(queue) < Capacity
    /\ queue' = Append(queue, m)
    /\ UNCHANGED held

Hold ==
    /\ held = Nothing
    /\ queue # <<>>
    /\ held' = Head(queue)
    /\ UNCHANGED queue

Remove ==
    /\ held # Nothing
    /\ held = Head(queue)
    /\ queue' = Tail(queue)
    /\ held' = Nothing

Next == (\E m \in Messages : Put(m)) \/ Hold \/ Remove

Spec == Init /\ [][Next]_vars
=============================================================================
