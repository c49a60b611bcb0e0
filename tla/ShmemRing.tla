------------------------------ MODULE ShmemRing ------------------------------
(***************************************************************************)
(* One direction of the hosted XAF shared-memory interface: a ring of      *)
(* message slots and two indices, the write index owned by the producer    *)
(* and the read index owned by the consumer.  There is no lock between the *)
(* two processors: each side copies both indices once, works on its        *)
(* private copies and publishes its own index after every message.         *)
(*                                                                         *)
(*   commands : producer = driver   xf_shmem_process_commands              *)
(*              consumer = DSP      xf_shmem_process_input                 *)
(*   responses: producer = DSP      xf_shmem_process_output                *)
(*              consumer = driver   xf_shmem_process_responses             *)
(*                                                                         *)
(* An index of the code is one 32-bit word: a slot number in its low byte  *)
(* and a 16-bit counter of the messages in its high half.  Here it is the  *)
(* record [cnt, slot], the two parts wrapping at CounterMod (2^16 in the   *)
(* code) and at QueueLength (2^8).                                         *)
(***************************************************************************)
EXTENDS Integers, Sequences

CONSTANTS QueueLength,      \* XF_PROXY_MESSAGE_QUEUE_LENGTH
          CounterMod,       \* the range of the counter half of an index
          Messages, Nothing

ASSUME RingAssumption ==
    /\ QueueLength \in Nat \ {0}
    /\ CounterMod \in Nat /\ QueueLength < CounterMod
    /\ Nothing \notin Messages

VARIABLES ring,     \* shared memory: [slots, read, write]
          prod,     \* the producer's [pc, r, w], r and w its copies of the indices
          cons      \* the consumer's [pc, r, w, msg], msg the message it copied out

vars == <<ring, prod, cons>>

Slot  == 0 .. QueueLength - 1
Index == [cnt : 0 .. CounterMod - 1, slot : Slot]
Start == [cnt |-> 0, slot |-> 0]

\* c + n modulo m, for n at most m
Plus(c, n, m) == IF c + n >= m THEN c + n - m ELSE c + n

\* mutants of the index macros: the counter is not masked, the slot is not
\* advanced, FULL is tested one message late
Advance_Unmasked(i) == [cnt |-> i.cnt + 1, slot |-> Plus(i.slot, 1, QueueLength)]
Advance_CountOnly(i) == [cnt |-> Plus(i.cnt, 1, CounterMod), slot |-> i.slot]
Full_Late(r, w) == w = [cnt |-> Plus(r.cnt, QueueLength + 1, CounterMod),
                        slot |-> Plus(r.slot, 1, QueueLength)]

\* XF_QUEUE_ADVANCE_IDX, XF_QUEUE_EMPTY and XF_QUEUE_FULL
Advance(i) == [cnt |-> Plus(i.cnt, 1, CounterMod), slot |-> Plus(i.slot, 1, QueueLength)]
Empty(r, w) == r = w
Full(r, w)  == w = [cnt |-> Plus(r.cnt, QueueLength, CounterMod), slot |-> r.slot]

-----------------------------------------------------------------------------
(* The memory is not cleared, so a slot holds anything at the start.  The  *)
(* indices are zeroed by xf_proxy_init and by xf_client_register.          *)
Init ==
    /\ ring \in [slots : [Slot -> Messages], read : {Start}, write : {Start}]
    /\ prod = [pc |-> "idle", r |-> Start, w |-> Start]
    /\ cons = [pc |-> "idle", r |-> Start, w |-> Start, msg |-> Nothing]

(* A side copies the two indices one after the other, its own first; what  *)
(* the other side and whoever resets the ring do in between may come       *)
(* between the two copies.                                                 *)
ProducerSync ==
    /\ prod.pc = "idle"
    /\ prod' = [prod EXCEPT !.pc = "reading", !.w = ring.write]
    /\ UNCHANGED <<ring, cons>>

ProducerReadPeer ==
    /\ prod.pc = "reading"
    /\ prod' = [prod EXCEPT !.pc = "ready", !.r = ring.read]
    /\ UNCHANGED <<ring, cons>>

\* mutant: the slot is chosen by the wrong index
ProducerFill_ReadSlot(m) ==
    /\ prod.pc = "ready"
    /\ ~Full(prod.r, prod.w)
    /\ ring' = [ring EXCEPT !.slots = [@ EXCEPT ![prod.r.slot] = m]]
    /\ prod' = [prod EXCEPT !.pc = "filled"]
    /\ UNCHANGED cons

ProducerFill(m) ==
    /\ prod.pc = "ready"
    /\ ~Full(prod.r, prod.w)
    /\ ring' = [ring EXCEPT !.slots = [@ EXCEPT ![prod.w.slot] = m]]
    /\ prod' = [prod EXCEPT !.pc = "filled"]
    /\ UNCHANGED cons

ProducerPublish ==
    /\ prod.pc = "filled"
    /\ ring' = [ring EXCEPT !.write = Advance(prod.w)]
    /\ prod' = [prod EXCEPT !.pc = "ready", !.w = Advance(@)]
    /\ UNCHANGED cons

\* the ring is full by the producer's copies, or it has no message to send
ProducerStop ==
    /\ prod.pc = "ready"
    /\ prod' = [prod EXCEPT !.pc = "idle", !.r = Start, !.w = Start]
    /\ UNCHANGED <<ring, cons>>

ConsumerSync ==
    /\ cons.pc = "idle"
    /\ cons' = [cons EXCEPT !.pc = "reading", !.r = ring.read]
    /\ UNCHANGED <<ring, prod>>

ConsumerReadPeer ==
    /\ cons.pc = "reading"
    /\ cons' = [cons EXCEPT !.pc = "ready", !.w = ring.write]
    /\ UNCHANGED <<ring, prod>>

\* mutant: the read index is published before the message is copied out
ConsumerTake_Released ==
    /\ cons.pc = "ready"
    /\ ~Empty(cons.r, cons.w)
    /\ ring' = [ring EXCEPT !.read = Advance(cons.r)]
    /\ cons' = [cons EXCEPT !.pc = "taken", !.msg = ring.slots[cons.r.slot]]
    /\ UNCHANGED prod

ConsumerTake ==
    /\ cons.pc = "ready"
    /\ ~Empty(cons.r, cons.w)
    /\ cons' = [cons EXCEPT !.pc = "taken", !.msg = ring.slots[cons.r.slot]]
    /\ UNCHANGED <<ring, prod>>

ConsumerPublish ==
    /\ cons.pc = "taken"
    /\ ring' = [ring EXCEPT !.read = Advance(cons.r)]
    /\ cons' = [cons EXCEPT !.pc = "ready", !.r = Advance(@), !.msg = Nothing]
    /\ UNCHANGED prod

\* the ring is empty by the consumer's copies, or it has no free message
ConsumerStop ==
    /\ cons.pc = "ready"
    /\ cons' = [cons EXCEPT !.pc = "idle", !.r = Start, !.w = Start]
    /\ UNCHANGED <<ring, prod>>

Producer == ProducerSync \/ ProducerReadPeer \/ (\E m \in Messages : ProducerFill(m))
              \/ ProducerPublish \/ ProducerStop
Consumer == ConsumerSync \/ ConsumerReadPeer \/ ConsumerTake \/ ConsumerPublish \/ ConsumerStop

Next == Producer \/ Consumer

Spec == Init /\ [][Next]_vars

-----------------------------------------------------------------------------
TypeOK ==
    /\ ring \in [slots : [Slot -> Messages], read : Index, write : Index]
    /\ prod \in [pc : {"idle", "reading", "ready", "filled"}, r : Index, w : Index]
    /\ cons \in [pc : {"idle", "reading", "ready", "taken"}, r : Index, w : Index,
                 msg : Messages \cup {Nothing}]

\* how many messages index w is ahead of index r
Dist(r, w) == IF w.cnt >= r.cnt THEN w.cnt - r.cnt ELSE w.cnt - r.cnt + CounterMod

\* w is n messages ahead of r, in both halves of the index
Ahead(r, w, n) ==
    /\ Dist(r, w) = n
    /\ n <= QueueLength
    /\ w.slot = Plus(r.slot, n, QueueLength)

\* the messages published and not yet released, oldest first
Pending == [i \in 1 .. Dist(ring.read, ring.write) |->
                ring.slots[Plus(ring.read.slot, i - 1, QueueLength)]]

\* The two shared indices never drift apart: the write index is at most a
\* ring length ahead of the read index, and its slot half agrees with its
\* counter half, although each side tests FULL and EMPTY on stale copies.
IndicesAgree == Ahead(ring.read, ring.write, Dist(ring.read, ring.write))

\* The message a consumer has copied out is the oldest one still in the ring
\* for as long as it has not released the slot: the producer, working with an
\* old copy of the read index, never overwrites it.
TakenIsOldest ==
    cons.pc = "taken" => Pending # <<>> /\ cons.msg = Head(Pending)

\* A slot holding a message published and not yet released is never written,
\* although the producer may test FULL on an old copy of the read index.
KeepUnread ==
    \A i \in 1 .. Len(Pending) :
        LET s == Plus(ring.read.slot, i - 1, QueueLength) IN ring'.slots[s] = ring.slots[s]

UnreadSlotsKept == [][KeepUnread]_vars

\* The ring implements a bounded FIFO queue: nothing is lost, duplicated,
\* reordered or read before it is written.
Fifo == INSTANCE BoundedFifo
            WITH queue <- Pending, held <- cons.msg, Capacity <- QueueLength

ImplementsFifo == Fifo!Spec
=============================================================================
