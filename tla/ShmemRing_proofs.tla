--------------------------- MODULE ShmemRing_proofs ---------------------------
(***************************************************************************)
(* For a ring of any length and a counter of any range above it: the two   *)
(* indices stay consistent, no unread slot is overwritten, and the ring    *)
(* implements a bounded FIFO queue.                                        *)
(***************************************************************************)
EXTENDS ShmemRing, SequenceTheorems, TLAPS

Fill == ring.slots[prod.w.slot]
Count == Dist(ring.read, ring.write)

\* What is in shared memory: the two indices agree.
RingInv ==
    /\ ring \in [slots : [Slot -> Messages], read : Index, write : Index]
    /\ IndicesAgree

\* The producer's copy of the read index is at or behind the read index and
\* at most a ring length behind the write index.
ProducerInv ==
    /\ prod \in [pc : {"idle", "reading", "ready", "filled"}, r : Index, w : Index]
    /\ prod.pc # "idle" => prod.w = ring.write
    /\ prod.pc \in {"ready", "filled"} =>
        /\ Ahead(prod.r, ring.write, Dist(prod.r, ring.write))
        /\ Dist(prod.r, ring.read) + Count = Dist(prod.r, ring.write)
        /\ prod.pc = "filled" => Dist(prod.r, ring.write) < QueueLength

\* The consumer's copy of the write index is between the two indices.
ConsumerInv ==
    /\ cons \in [pc : {"idle", "reading", "ready", "taken"}, r : Index, w : Index,
                 msg : Messages \cup {Nothing}]
    /\ cons.pc # "idle" => cons.r = ring.read
    /\ cons.pc \in {"ready", "taken"} =>
        /\ Ahead(ring.read, cons.w, Dist(ring.read, cons.w))
        /\ Dist(ring.read, cons.w) + Dist(cons.w, ring.write) = Count
        /\ cons.pc = "taken" =>
              Dist(ring.read, cons.w) > 0 /\ cons.msg = ring.slots[ring.read.slot]
    /\ cons.pc # "taken" => cons.msg = Nothing

IInv == RingInv /\ ProducerInv /\ ConsumerInv

\* What a side in the middle of a pass is left with when the ring is reset.
StaleProducer ==
    prod \in [pc : {"reading", "ready"}, r : Index, w : Index]
StaleConsumer ==
    cons \in [pc : {"ready"}, r : Index, w : Index, msg : {Nothing}] /\ cons.r = cons.w

\* The invariant of a ring that is reset now and then.
SidesInv == RingInv /\ (ProducerInv \/ StaleProducer) /\ (ConsumerInv \/ StaleConsumer)

\* the message in a slot not yet published
Unpublished == IF prod.pc = "filled" THEN <<Fill>> ELSE <<>>

-----------------------------------------------------------------------------
(* Index arithmetic                                                        *)

\* Index distances stay below the range of the counter, and advancing an
\* index gives an index (XF_QUEUE_ADVANCE_IDX).
LEMMA IndexTypes ==
    /\ Start \in Index
    /\ \A i \in Index : Advance(i) \in Index
    /\ \A r, w \in Index : Dist(r, w) \in 0 .. CounterMod - 1 /\ Dist(r, r) = 0
  BY RingAssumption DEF Start, Index, Slot, Advance, Plus, Dist

\* Advancing the leading index adds one to a distance that does not wrap.
LEMMA DistAdvanceWrite ==
    ASSUME NEW r \in Index, NEW w \in Index, Dist(r, w) < CounterMod - 1
    PROVE  Dist(r, Advance(w)) = Dist(r, w) + 1
  BY RingAssumption DEF Index, Slot, Advance, Plus, Dist

\* Advancing the trailing index takes one from a positive distance.
LEMMA DistAdvanceRead ==
    ASSUME NEW r \in Index, NEW w \in Index, Dist(r, w) > 0
    PROVE  Dist(Advance(r), w) = Dist(r, w) - 1
  BY RingAssumption DEF Index, Slot, Advance, Plus, Dist

\* The slot half keeps up when the leading index advances ...
LEMMA AheadAdvanceWrite ==
    ASSUME NEW r \in Index, NEW w \in Index, NEW n \in Nat, Ahead(r, w, n), n < QueueLength
    PROVE  Ahead(r, Advance(w), n + 1)
<1>1. Dist(r, Advance(w)) = n + 1
  BY DistAdvanceWrite, RingAssumption DEF Ahead
<1>2. Advance(w).slot = Plus(r.slot, n + 1, QueueLength)
  BY RingAssumption DEF Ahead, Advance, Plus, Index, Slot
<1> QED
  BY <1>1, <1>2, RingAssumption DEF Ahead

\* ... and when the trailing one does.
LEMMA AheadAdvanceRead ==
    ASSUME NEW r \in Index, NEW w \in Index, NEW n \in Nat, Ahead(r, w, n), n > 0
    PROVE  Ahead(Advance(r), w, n - 1)
<1>1. Dist(Advance(r), w) = n - 1
  BY DistAdvanceRead DEF Ahead
<1>2. w.slot = Plus(Advance(r).slot, n - 1, QueueLength)
  BY RingAssumption DEF Ahead, Advance, Plus, Index, Slot
<1> QED
  BY <1>1, <1>2, RingAssumption DEF Ahead

\* FULL holds of two consistent indices a ring length apart, and of no others.
LEMMA FullMeans ==
    ASSUME NEW r \in Index, NEW w \in Index, NEW n \in Nat, Ahead(r, w, n)
    PROVE  Full(r, w) <=> n = QueueLength
  BY RingAssumption DEF Full, Ahead, Dist, Plus, Index, Slot

\* EMPTY holds of two consistent indices that have not moved apart.
LEMMA EmptyMeans ==
    ASSUME NEW r \in Index, NEW w \in Index, NEW n \in Nat, Ahead(r, w, n)
    PROVE  Empty(r, w) <=> n = 0
  BY RingAssumption DEF Empty, Ahead, Dist, Plus, Index, Slot

\* Different messages of a ring length are in different slots.
LEMMA SlotsDiffer ==
    ASSUME NEW s \in Slot, NEW i \in 0 .. QueueLength - 1, NEW j \in 0 .. QueueLength - 1
    PROVE  /\ Plus(s, i, QueueLength) \in Slot
           /\ i # j => Plus(s, i, QueueLength) # Plus(s, j, QueueLength)
  BY RingAssumption DEF Slot, Plus

\* The oldest message is in the slot of the read index.
LEMMA FirstSlot == \A i \in Index : Plus(i.slot, 0, QueueLength) = i.slot
  BY RingAssumption DEF Index, Slot, Plus

\* The queue after a release starts one slot further on.
LEMMA NextSlot ==
    ASSUME NEW r \in Index, NEW i \in 1 .. QueueLength - 1
    PROVE  Plus(Advance(r).slot, i - 1, QueueLength) = Plus(r.slot, i, QueueLength)
<1>1. r.slot \in 0 .. QueueLength - 1 /\ Advance(r).slot = Plus(r.slot, 1, QueueLength)
  BY DEF Advance, Index, Slot
<1> QED
  BY <1>1, RingAssumption DEF Plus

-----------------------------------------------------------------------------
(* The invariant.  What a side's step needs and keeps is stated for that   *)
(* side alone, so that it holds of a ring whose other side was left with   *)
(* old copies when the ring was reset.                                     *)

\* The ring starts empty and consistent, whatever the slots hold.
LEMMA InitInv == Init => IInv
<1> SUFFICES ASSUME Init PROVE IInv
  OBVIOUS
<1>1. Dist(Start, Start) = 0 /\ ring.read = Start /\ ring.write = Start
  BY IndexTypes DEF Init
<1>2. RingInv
  BY <1>1, IndexTypes, RingAssumption DEF Init, RingInv, IndicesAgree, Ahead, Plus, Start
<1>3. ProducerInv /\ ConsumerInv
  BY IndexTypes DEF Init, ProducerInv, ConsumerInv
<1> QED
  BY <1>2, <1>3 DEF IInv

\* What the invariant says of the producer: the slot it may write is free,
\* and a ring it takes for not full is not full.
LEMMA ProducerFacts ==
    ASSUME RingInv, ProducerInv, prod.pc \in {"ready", "filled"}
    PROVE  /\ prod.w = ring.write
           /\ Count \in 0 .. QueueLength
           /\ prod.pc = "filled" => Count < QueueLength
           /\ ~Full(prod.r, prod.w) => Dist(prod.r, ring.write) < QueueLength
           /\ ~Full(prod.r, prod.w) => Count < QueueLength
<1>1. /\ ring.read \in Index /\ ring.write \in Index /\ prod.r \in Index /\ prod.w \in Index
  BY DEF RingInv, ProducerInv
<1>2. /\ Dist(prod.r, ring.read) \in Nat /\ Count \in Nat /\ Dist(prod.r, ring.write) \in Nat
  BY <1>1, IndexTypes DEF Count
<1>3. /\ prod.w = ring.write
      /\ Ahead(prod.r, ring.write, Dist(prod.r, ring.write))
      /\ Dist(prod.r, ring.read) + Count = Dist(prod.r, ring.write)
      /\ prod.pc = "filled" => Dist(prod.r, ring.write) < QueueLength
  BY DEF ProducerInv
<1>4. Full(prod.r, prod.w) <=> Dist(prod.r, ring.write) = QueueLength
  BY <1>1, <1>2, <1>3, FullMeans
<1>5. Dist(prod.r, ring.write) <= QueueLength
  BY <1>3 DEF Ahead
<1> QED
  BY <1>2, <1>3, <1>4, <1>5, RingAssumption

\* What the invariant says of the consumer: a ring it takes for not empty has
\* a message.
LEMMA ConsumerFacts ==
    ASSUME RingInv, ConsumerInv, cons.pc \in {"ready", "taken"}
    PROVE  /\ cons.r = ring.read
           /\ Dist(ring.read, cons.w) \in Nat /\ Dist(cons.w, ring.write) \in Nat /\ Count \in Nat
           /\ cons.pc = "taken" => Dist(ring.read, cons.w) > 0 /\ Count > 0
           /\ Empty(cons.r, cons.w) <=> Dist(ring.read, cons.w) = 0
           /\ ~Empty(cons.r, cons.w) => Dist(ring.read, cons.w) > 0 /\ Count > 0
<1>1. /\ ring.read \in Index /\ ring.write \in Index /\ cons.r \in Index /\ cons.w \in Index
  BY DEF RingInv, ConsumerInv
<1>2. /\ Dist(ring.read, cons.w) \in Nat /\ Dist(cons.w, ring.write) \in Nat /\ Count \in Nat
  BY <1>1, IndexTypes DEF Count
<1>3. /\ cons.r = ring.read
      /\ Ahead(ring.read, cons.w, Dist(ring.read, cons.w))
      /\ Dist(ring.read, cons.w) + Dist(cons.w, ring.write) = Count
      /\ cons.pc = "taken" => Dist(ring.read, cons.w) > 0
  BY DEF ConsumerInv
<1>4. Empty(cons.r, cons.w) <=> Dist(ring.read, cons.w) = 0
  BY <1>1, <1>2, <1>3, EmptyMeans
<1> QED
  BY <1>2, <1>3, <1>4

\* A step that changes neither the indices nor the producer's copies keeps
\* what is said of them, and the same for the consumer.
LEMMA SameProducer ==
    ASSUME ProducerInv, prod' = prod, ring'.read = ring.read, ring'.write = ring.write
    PROVE  ProducerInv'
  BY DEF ProducerInv, Count, Ahead, Dist

LEMMA SameConsumer ==
    ASSUME ConsumerInv, cons' = cons, ring' = ring
    PROVE  ConsumerInv'
  BY DEF ConsumerInv, Count, Ahead, Dist

LEMMA SameIndices ==
    ASSUME IndicesAgree, ring'.read = ring.read, ring'.write = ring.write
    PROVE  IndicesAgree'
  BY DEF IndicesAgree, Ahead, Dist

LEMMA SameRing ==
    ASSUME ring' = ring
    PROVE  (RingInv => RingInv') /\ Pending' = Pending
  BY DEF RingInv, IndicesAgree, Ahead, Dist, Pending

\* A side that copies the indices anew begins with its own, and has current
\* copies, whatever it had.
LEMMA ProducerSyncStep ==
    ASSUME RingInv, prod \in [pc : {"idle", "reading", "ready", "filled"}, r : Index, w : Index],
           ProducerSync
    PROVE  ProducerInv' /\ ring' = ring /\ cons' = cons /\ prod'.pc = "reading"
  BY DEF ProducerSync, RingInv, ProducerInv

LEMMA ProducerReadPeerStep ==
    ASSUME RingInv, ProducerInv, ProducerReadPeer
    PROVE  ProducerInv' /\ ring' = ring /\ cons' = cons /\ prod'.pc = "ready"
<1>1. /\ ring' = ring /\ cons' = cons
      /\ prod' = [prod EXCEPT !.pc = "ready", !.r = ring.read]
      /\ prod.pc = "reading" /\ ring.read \in Index /\ ring.write \in Index
  BY DEF ProducerReadPeer, RingInv
<1>2. /\ prod'.pc = "ready" /\ prod'.r = ring.read /\ prod'.w = ring.write
      /\ prod' \in [pc : {"idle", "reading", "ready", "filled"}, r : Index, w : Index]
  BY <1>1 DEF ProducerInv
<1> QED
  BY <1>1, <1>2, IndexTypes DEF RingInv, ProducerInv, Count, IndicesAgree, Ahead, Dist

LEMMA ConsumerSyncStep ==
    ASSUME RingInv, ConsumerInv, ConsumerSync
    PROVE  ConsumerInv' /\ ring' = ring /\ prod' = prod /\ cons'.pc = "reading"
  BY DEF ConsumerSync, RingInv, ConsumerInv

LEMMA ConsumerReadPeerStep ==
    ASSUME RingInv, ConsumerInv, ConsumerReadPeer
    PROVE  ConsumerInv' /\ ring' = ring /\ prod' = prod /\ cons'.pc = "ready"
<1>1. /\ ring' = ring /\ prod' = prod
      /\ cons' = [cons EXCEPT !.pc = "ready", !.w = ring.write]
      /\ cons.pc = "reading" /\ ring.read \in Index /\ ring.write \in Index
  BY DEF ConsumerReadPeer, RingInv
<1>2. /\ cons'.pc = "ready" /\ cons'.r = ring.read /\ cons'.w = ring.write
      /\ cons'.msg = cons.msg /\ cons.msg = Nothing
      /\ cons' \in [pc : {"idle", "reading", "ready", "taken"}, r : Index, w : Index,
                    msg : Messages \cup {Nothing}]
  BY <1>1 DEF ConsumerInv
<1> QED
  BY <1>1, <1>2, IndexTypes DEF RingInv, ConsumerInv, Count, IndicesAgree, Ahead, Dist

\* Leaving a pass asks for nothing but a side of the right type.
LEMMA ProducerStopStep ==
    ASSUME prod \in [pc : {"idle", "reading", "ready", "filled"}, r : Index, w : Index], ProducerStop
    PROVE  ProducerInv' /\ ring' = ring /\ cons' = cons /\ prod'.pc = "idle"
  BY IndexTypes DEF ProducerStop, ProducerInv

LEMMA ConsumerStopStep ==
    ASSUME cons \in [pc : {"idle", "reading", "ready", "taken"}, r : Index, w : Index,
                     msg : Messages \cup {Nothing}],
           cons.msg = Nothing, ConsumerStop
    PROVE  ConsumerInv' /\ ring' = ring /\ prod' = prod /\ cons'.pc = "idle"
  BY IndexTypes DEF ConsumerStop, ConsumerInv

\* Filling a slot leaves the consumer's message alone.
LEMMA FillStep ==
    ASSUME RingInv, ProducerInv, NEW m \in Messages, ProducerFill(m)
    PROVE  RingInv' /\ ProducerInv' /\ (ConsumerInv => ConsumerInv')
<1>t. /\ ring.read \in Index /\ ring.write \in Index /\ prod.r \in Index /\ prod.w \in Index
      /\ \A r, w \in Index : Dist(r, w) \in Nat
      /\ IndicesAgree
  BY IndexTypes DEF RingInv, ProducerInv
<1>1. /\ ring' = [ring EXCEPT !.slots = [@ EXCEPT ![prod.w.slot] = m]]
      /\ cons' = cons /\ prod' = [prod EXCEPT !.pc = "filled"]
      /\ prod.pc = "ready" /\ ~Full(prod.r, prod.w)
  BY DEF ProducerFill
<1>2. /\ ring'.read = ring.read /\ ring'.write = ring.write
      /\ ring' \in [slots : [Slot -> Messages], read : Index, write : Index]
      /\ prod'.pc = "filled" /\ prod'.r = prod.r /\ prod'.w = prod.w
      /\ prod' \in [pc : {"idle", "reading", "ready", "filled"}, r : Index, w : Index]
  BY <1>1 DEF RingInv, ProducerInv
<1>3. /\ prod.w = ring.write /\ Dist(prod.r, ring.write) < QueueLength
      /\ Count \in Nat /\ Count < QueueLength
  BY <1>1, ProducerFacts
<1>4. ProducerInv'
  BY <1>t, <1>1, <1>2, <1>3 DEF ProducerInv, Count, Ahead, Dist
<1>5. ASSUME ConsumerInv PROVE ConsumerInv'
  <2>t. cons.r \in Index /\ cons.w \in Index
    BY <1>5 DEF ConsumerInv
  <2>1. CASE cons.pc = "taken"
    <3>1. Count > 0
      BY <1>5, <2>1, ConsumerFacts
    <3>2. ring.write.slot # ring.read.slot
      BY <1>t, <1>3, <3>1, RingAssumption DEF IndicesAgree, Ahead, Count, Plus, Index, Slot
    <3>3. ring'.slots[ring.read.slot] = ring.slots[ring.read.slot]
      BY <1>1, <1>3, <3>2 DEF RingInv, Index
    <3> QED
      BY <1>t, <1>1, <1>2, <1>5, <2>t, <2>1, <3>3 DEF ConsumerInv, Count, Ahead, Dist
  <2>2. CASE cons.pc # "taken"
    BY <1>t, <1>1, <1>2, <1>5, <2>t, <2>2 DEF ConsumerInv, Count, Ahead, Dist
  <2> QED
    BY <2>1, <2>2
<1> QED
  BY <1>t, <1>2, <1>4, <1>5, SameIndices DEF RingInv

\* Publishing moves the write index away from the read index by one, without
\* passing the producer's copy of the read index.
LEMMA PublishStep ==
    ASSUME RingInv, ProducerInv, ProducerPublish
    PROVE  RingInv' /\ ProducerInv' /\ (ConsumerInv => ConsumerInv')
<1>t. /\ ring.read \in Index /\ ring.write \in Index /\ prod.r \in Index /\ prod.w \in Index
      /\ \A r, w \in Index : Dist(r, w) \in Nat
      /\ IndicesAgree
  BY IndexTypes DEF RingInv, ProducerInv
<1>1. /\ ring' = [ring EXCEPT !.write = Advance(prod.w)]
      /\ cons' = cons /\ prod' = [prod EXCEPT !.pc = "ready", !.w = Advance(@)]
      /\ prod.pc = "filled"
  BY DEF ProducerPublish
<1>2. /\ prod.w = ring.write /\ Count \in Nat /\ Count < QueueLength
      /\ Dist(prod.r, ring.write) < QueueLength
  BY <1>1, <1>t, ProducerFacts DEF ProducerInv
<1>3. /\ ring'.read = ring.read /\ ring'.slots = ring.slots
      /\ ring'.write = Advance(ring.write)
      /\ ring' \in [slots : [Slot -> Messages], read : Index, write : Index]
      /\ prod'.pc = "ready" /\ prod'.r = prod.r /\ prod'.w = Advance(ring.write)
      /\ prod' \in [pc : {"idle", "reading", "ready", "filled"}, r : Index, w : Index]
  BY <1>1, <1>2, IndexTypes DEF RingInv, ProducerInv
<1>4. Ahead(ring.read, Advance(ring.write), Count + 1)
  BY <1>t, <1>2, AheadAdvanceWrite DEF IndicesAgree, Count
<1>5. IndicesAgree' /\ Count' = Count + 1
  BY <1>3, <1>4 DEF IndicesAgree, Count, Ahead, Dist
<1>6. ProducerInv'
  <2>1. Ahead(prod.r, Advance(ring.write), Dist(prod.r, ring.write) + 1)
    BY <1>t, <1>1, <1>2, AheadAdvanceWrite DEF ProducerInv
  <2>2. Dist(prod.r, Advance(ring.write)) = Dist(prod.r, ring.write) + 1
    BY <2>1 DEF Ahead
  <2>3. Dist(prod.r, ring.read) + Count = Dist(prod.r, ring.write)
    BY <1>t, <1>1 DEF ProducerInv
  <2>4. Dist(prod.r, ring.read) + (Count + 1) = Dist(prod.r, Advance(ring.write))
    BY <1>t, <1>2, <2>2, <2>3
  <2> QED
    BY <1>3, <1>5, <2>1, <2>2, <2>4 DEF ProducerInv
<1>7. ASSUME ConsumerInv PROVE ConsumerInv'
  <2>t. cons.r \in Index /\ cons.w \in Index
    BY <1>7 DEF ConsumerInv
  <2>1. CASE cons.pc \in {"idle", "reading"}
    BY <1>1, <1>3, <1>7, <2>1 DEF ConsumerInv
  <2>2. CASE cons.pc \in {"ready", "taken"}
    <3>1. Dist(cons.w, ring.write) <= Count
      BY <1>t, <1>7, <2>t, <2>2 DEF ConsumerInv
    <3>2. Dist(cons.w, Advance(ring.write)) = Dist(cons.w, ring.write) + 1
      BY <1>t, <1>2, <2>t, <3>1, DistAdvanceWrite, RingAssumption
    <3> QED
      BY <1>t, <1>1, <1>3, <1>5, <1>7, <2>t, <2>2, <3>2 DEF ConsumerInv, Ahead, Dist
  <2> QED
    BY <1>7, <2>1, <2>2 DEF ConsumerInv
<1> QED
  BY <1>3, <1>5, <1>6, <1>7 DEF RingInv

\* Taking a message changes nothing but the consumer's hand.
LEMMA TakeStep ==
    ASSUME RingInv, ConsumerInv, ConsumerTake
    PROVE  /\ ConsumerInv' /\ ring' = ring /\ prod' = prod
           /\ cons.pc = "ready" /\ cons'.pc = "taken" /\ Count > 0 /\ Count \in Nat
           /\ cons.msg = Nothing /\ cons'.msg = ring.slots[ring.read.slot]
<1>t. /\ ring.read \in Index /\ ring.write \in Index /\ cons.r \in Index /\ cons.w \in Index
      /\ \A r, w \in Index : Dist(r, w) \in Nat
  BY IndexTypes DEF RingInv, ConsumerInv
<1>1. /\ ring' = ring /\ prod' = prod /\ cons.pc = "ready" /\ ~Empty(cons.r, cons.w)
      /\ cons' = [cons EXCEPT !.pc = "taken", !.msg = ring.slots[cons.r.slot]]
  BY DEF ConsumerTake
<1>2. /\ cons.r = ring.read /\ Dist(ring.read, cons.w) > 0 /\ Count > 0 /\ Count \in Nat
      /\ cons.msg = Nothing
  BY <1>1, ConsumerFacts DEF ConsumerInv
<1>3. ring.slots[ring.read.slot] \in Messages
  BY <1>t DEF RingInv, Index
<1>4. /\ cons'.pc = "taken" /\ cons'.r = cons.r /\ cons'.w = cons.w
      /\ cons'.msg = ring.slots[ring.read.slot]
      /\ cons' \in [pc : {"idle", "reading", "ready", "taken"}, r : Index, w : Index,
                    msg : Messages \cup {Nothing}]
  BY <1>1, <1>2, <1>3 DEF ConsumerInv
<1>5. ConsumerInv'
  BY <1>t, <1>1, <1>2, <1>4 DEF ConsumerInv, Count, Ahead, Dist
<1> QED
  BY <1>1, <1>2, <1>4, <1>5

\* Releasing moves the read index towards the write index by one, without
\* passing the consumer's copy of it.
LEMMA ReleaseStep ==
    ASSUME RingInv, ConsumerInv, ConsumerPublish
    PROVE  RingInv' /\ ConsumerInv' /\ (ProducerInv => ProducerInv')
<1>t. /\ ring.read \in Index /\ ring.write \in Index /\ cons.r \in Index /\ cons.w \in Index
      /\ \A r, w \in Index : Dist(r, w) \in Nat
      /\ IndicesAgree
  BY IndexTypes DEF RingInv, ConsumerInv
<1>1. /\ ring' = [ring EXCEPT !.read = Advance(cons.r)] /\ prod' = prod
      /\ cons' = [cons EXCEPT !.pc = "ready", !.r = Advance(@), !.msg = Nothing]
      /\ cons.pc = "taken"
  BY DEF ConsumerPublish
<1>2. /\ cons.r = ring.read /\ Count \in Nat /\ Count > 0 /\ Dist(ring.read, cons.w) > 0
  BY <1>1, ConsumerFacts
<1>3. /\ ring'.write = ring.write /\ ring'.slots = ring.slots
      /\ ring'.read = Advance(ring.read)
      /\ ring' \in [slots : [Slot -> Messages], read : Index, write : Index]
      /\ cons'.pc = "ready" /\ cons'.r = Advance(ring.read) /\ cons'.w = cons.w
      /\ cons'.msg = Nothing
      /\ cons' \in [pc : {"idle", "reading", "ready", "taken"}, r : Index, w : Index,
                    msg : Messages \cup {Nothing}]
  BY <1>1, <1>2, IndexTypes DEF RingInv, ConsumerInv
<1>4. Ahead(Advance(ring.read), ring.write, Count - 1)
  BY <1>t, <1>2, AheadAdvanceRead DEF IndicesAgree, Count
<1>5. IndicesAgree' /\ Count' = Count - 1
  BY <1>3, <1>4 DEF IndicesAgree, Count, Ahead, Dist
<1>6. ASSUME ProducerInv PROVE ProducerInv'
  <2>t. prod.r \in Index
    BY <1>6 DEF ProducerInv
  <2>1. CASE prod.pc \in {"idle", "reading"}
    BY <1>1, <1>3, <1>6, <2>1 DEF ProducerInv
  <2>2. CASE prod.pc \in {"ready", "filled"}
    <3>1. /\ Dist(prod.r, ring.read) + Count = Dist(prod.r, ring.write)
          /\ Dist(prod.r, ring.write) <= QueueLength
      BY <1>6, <2>2 DEF ProducerInv, Ahead
    <3>2. Dist(prod.r, Advance(ring.read)) = Dist(prod.r, ring.read) + 1
      BY <1>t, <1>2, <2>t, <3>1, DistAdvanceWrite, RingAssumption
    <3> QED
      BY <1>t, <1>1, <1>2, <1>3, <1>5, <1>6, <2>t, <2>2, <3>2 DEF ProducerInv, Ahead, Dist
  <2> QED
    BY <1>6, <2>1, <2>2 DEF ProducerInv
<1>7. ConsumerInv'
  <2>1. Ahead(Advance(ring.read), cons.w, Dist(ring.read, cons.w) - 1)
    BY <1>t, <1>1, <1>2, AheadAdvanceRead DEF ConsumerInv
  <2>2. Dist(Advance(ring.read), cons.w) = Dist(ring.read, cons.w) - 1
    BY <2>1 DEF Ahead
  <2> QED
    BY <1>t, <1>1, <1>2, <1>3, <1>5, <2>1, <2>2 DEF ConsumerInv, Ahead, Dist
<1> QED
  BY <1>3, <1>5, <1>6, <1>7 DEF RingInv

\* Every step keeps the invariant: neither side carries an index past the
\* other or past a side's copy of it.
LEMMA StepInv == IInv /\ [Next]_vars => IInv'
<1> SUFFICES ASSUME IInv, [Next]_vars PROVE IInv'
  OBVIOUS
<1> USE DEF IInv
<1>1. CASE ProducerSync
  BY <1>1, ProducerSyncStep, SameRing, SameConsumer DEF ProducerInv
<1>10. CASE ProducerReadPeer
  BY <1>10, ProducerReadPeerStep, SameRing, SameConsumer
<1>11. CASE ConsumerReadPeer
  <2>1. ConsumerInv' /\ ring' = ring /\ prod' = prod
    BY <1>11, ConsumerReadPeerStep
  <2> QED
    BY <2>1, SameRing, SameProducer
<1>2. ASSUME NEW m \in Messages, ProducerFill(m) PROVE IInv'
  BY <1>2, FillStep
<1>3. CASE ProducerPublish
  BY <1>3, PublishStep
<1>4. CASE ProducerStop
  <2>1. prod \in [pc : {"idle", "reading", "ready", "filled"}, r : Index, w : Index]
    BY DEF ProducerInv
  <2> QED
    BY <1>4, <2>1, ProducerStopStep, SameRing, SameConsumer
<1>5. CASE ConsumerSync
  <2>1. ConsumerInv' /\ ring' = ring /\ prod' = prod
    BY <1>5, ConsumerSyncStep
  <2> QED
    BY <2>1, SameRing, SameProducer
<1>6. CASE ConsumerTake
  <2>1. ConsumerInv' /\ ring' = ring /\ prod' = prod
    BY <1>6, TakeStep
  <2> QED
    BY <2>1, SameRing, SameProducer
<1>7. CASE ConsumerPublish
  BY <1>7, ReleaseStep
<1>8. CASE ConsumerStop
  <2>1. /\ cons \in [pc : {"idle", "reading", "ready", "taken"}, r : Index, w : Index,
                     msg : Messages \cup {Nothing}]
        /\ cons.msg = Nothing
    BY <1>8 DEF ConsumerInv, ConsumerStop
  <2>2. ConsumerInv' /\ ring' = ring /\ prod' = prod
    BY <1>8, <2>1, ConsumerStopStep
  <2> QED
    BY <2>2, SameRing, SameProducer
<1>9. CASE UNCHANGED vars
  <2>1. ring' = ring /\ prod' = prod /\ cons' = cons
    BY <1>9 DEF vars
  <2> QED
    BY <2>1, SameRing, SameProducer, SameConsumer
<1> QED
  BY <1>1, <1>2, <1>3, <1>4, <1>5, <1>6, <1>7, <1>8, <1>9, <1>10, <1>11
     DEF Next, Producer, Consumer

\* The indices stay consistent, so that FULL and EMPTY mean what they say,
\* in every behaviour of the ring: the strengthened invariant holds throughout.
THEOREM Invariance == Spec => []IInv
  BY InitInv, StepInv, PTL DEF Spec

\* Type correctness of the shared memory and of both sides' copies.
THEOREM TypeCorrect == Spec => []TypeOK
<1>1. IInv => TypeOK
  BY DEF IInv, RingInv, ProducerInv, ConsumerInv, TypeOK
<1> QED
  BY <1>1, Invariance, PTL

\* The write index is never more than a ring length ahead of the read index,
\* and slot and counter halves agree (XF_QUEUE_FULL, XF_QUEUE_EMPTY).
THEOREM RingBounded == Spec => []IndicesAgree
<1>1. IInv => IndicesAgree
  BY DEF IInv, RingInv
<1> QED
  BY <1>1, Invariance, PTL

-----------------------------------------------------------------------------
(* The queue the ring holds                                                *)

\* The queue has Count messages, the i-th in the i-th slot from the read index.
LEMMA PendingFacts ==
    ASSUME RingInv
    PROVE  /\ Count \in 0 .. QueueLength
           /\ Pending \in Seq(Messages) /\ Len(Pending) = Count
           /\ \A i \in 1 .. Count :
                 /\ Plus(ring.read.slot, i - 1, QueueLength) \in Slot
                 /\ Pending[i] = ring.slots[Plus(ring.read.slot, i - 1, QueueLength)]
<1>1. ring.read \in Index /\ ring.write \in Index /\ ring.slots \in [Slot -> Messages]
  BY DEF RingInv
<1>2. Count \in 0 .. QueueLength
  BY <1>1, IndexTypes DEF RingInv, IndicesAgree, Ahead, Count
<1>3. \A i \in 1 .. Count : Plus(ring.read.slot, i - 1, QueueLength) \in Slot
  BY <1>1, <1>2, SlotsDiffer, RingAssumption DEF Index
<1> QED
  BY <1>1, <1>2, <1>3 DEF Pending, Count

\* A message is being copied out only while it is the oldest in the ring.
THEOREM TakenOldest == Spec => []TakenIsOldest
<1>1. IInv => TakenIsOldest
  <2> SUFFICES ASSUME IInv, cons.pc = "taken" PROVE Pending # <<>> /\ cons.msg = Head(Pending)
    BY DEF TakenIsOldest
  <2>1. Count > 0 /\ Count \in Nat
    BY ConsumerFacts DEF IInv
  <2>2. cons.msg = ring.slots[ring.read.slot]
    BY DEF IInv, ConsumerInv
  <2>3. Plus(ring.read.slot, 0, QueueLength) = ring.read.slot
    BY FirstSlot DEF IInv, RingInv
  <2>4. Pending \in Seq(Messages) /\ Len(Pending) = Count /\ Pending[1] = cons.msg
    BY <2>1, <2>2, <2>3, PendingFacts DEF IInv
  <2> QED
    BY <2>1, <2>4
<1> QED
  BY <1>1, Invariance, PTL

\* Filling a slot leaves the queue alone: the slot filled is not one of its.
LEMMA FillKeepsPending ==
    ASSUME RingInv, ProducerInv, NEW m \in Messages, ProducerFill(m)
    PROVE  KeepUnread /\ Pending' = Pending /\ Fill' = m
<1>1. /\ ring' = [ring EXCEPT !.slots = [@ EXCEPT ![prod.w.slot] = m]]
      /\ prod.pc = "ready" /\ ~Full(prod.r, prod.w)
  BY DEF ProducerFill
<1>2. prod.w = ring.write /\ Count \in Nat /\ Count < QueueLength
  BY <1>1, ProducerFacts
<1>3. /\ ring'.read = ring.read /\ ring'.write = ring.write
      /\ ring'.slots = [ring.slots EXCEPT ![ring.write.slot] = m]
      /\ ring.read.slot \in Slot /\ ring.slots \in [Slot -> Messages]
  BY <1>1, <1>2 DEF RingInv, Index
<1>4. ring.write.slot = Plus(ring.read.slot, Count, QueueLength)
  BY DEF RingInv, IndicesAgree, Ahead, Count
<1>5. ASSUME NEW i \in 1 .. Count
      PROVE  ring'.slots[Plus(ring.read.slot, i - 1, QueueLength)]
               = ring.slots[Plus(ring.read.slot, i - 1, QueueLength)]
  <2>1. i - 1 \in 0 .. QueueLength - 1 /\ Count \in 0 .. QueueLength - 1 /\ i - 1 # Count
    BY <1>2, RingAssumption
  <2>2. /\ Plus(ring.read.slot, i - 1, QueueLength) \in Slot
        /\ Plus(ring.read.slot, i - 1, QueueLength) # ring.write.slot
    BY <1>3, <1>4, <2>1, SlotsDiffer
  <2> QED
    BY <1>3, <2>2
<1>6. KeepUnread
  BY <1>5, PendingFacts DEF KeepUnread
<1>7. Dist(ring'.read, ring'.write) = Count
  BY <1>3 DEF Count
<1>8. Pending' = Pending
  BY <1>3, <1>5, <1>7 DEF Pending, Count
<1>9. Fill' = m
  <2>1. prod'.w = ring.write
    BY <1>2 DEF ProducerFill, ProducerInv
  <2>2. ring.write.slot \in Slot
    BY DEF RingInv, Index
  <2> QED
    BY <1>3, <2>1, <2>2 DEF Fill
<1> QED
  BY <1>6, <1>8, <1>9

\* No step of either side writes a slot whose message is still to be read,
\* for every length of the ring (xf_shmem_process_commands and _output).
THEOREM NoOverwrite == Spec => UnreadSlotsKept
<1>1. IInv /\ [Next]_vars => [KeepUnread]_vars
  <2> SUFFICES ASSUME IInv, Next PROVE KeepUnread
    OBVIOUS
  <2>1. CASE \E m \in Messages : ProducerFill(m)
    BY <2>1, FillKeepsPending DEF IInv
  <2>2. CASE ~\E m \in Messages : ProducerFill(m)
    <3>1. ring'.slots = ring.slots
      BY <2>2 DEF IInv, RingInv, Next, Producer, Consumer, ProducerSync,
                  ProducerReadPeer, ProducerPublish, ProducerStop, ConsumerSync,
                  ConsumerReadPeer, ConsumerTake, ConsumerPublish, ConsumerStop
    <3> QED
      BY <3>1 DEF KeepUnread
  <2> QED
    BY <2>1, <2>2
<1> QED
  BY <1>1, Invariance, PTL DEF Spec, UnreadSlotsKept

-----------------------------------------------------------------------------
(* A reset of the ring                                                     *)

\* Zeroing both indices empties the ring and leaves it consistent.
LEMMA ResetStep ==
    ASSUME RingInv, ring' = [ring EXCEPT !.read = Start, !.write = Start]
    PROVE  RingInv' /\ Pending' = <<>>
<1>1. /\ ring'.read = Start /\ ring'.write = Start
      /\ ring' \in [slots : [Slot -> Messages], read : Index, write : Index]
  BY IndexTypes DEF RingInv
<1>2. Dist(ring'.read, ring'.write) = 0
  BY <1>1, IndexTypes
<1>3. RingInv'
  BY <1>1, <1>2, RingAssumption DEF RingInv, IndicesAgree, Ahead, Plus, Start, Dist
<1> QED
  BY <1>2, <1>3 DEF Pending

\* A consumer in the middle of a pass over an empty ring, with both indices
\* copied, has nothing in its hand and takes the ring for empty, whatever
\* becomes of the ring.
LEMMA IdleConsumer ==
    ASSUME RingInv, ConsumerInv, Pending = <<>>, cons.pc # "reading"
    PROVE  cons.pc = "idle" \/ StaleConsumer
<1>1. Count = 0
  BY PendingFacts
<1>2. ASSUME cons.pc # "idle" PROVE cons.pc = "ready" /\ cons.r = cons.w
  BY <1>1, <1>2, ConsumerFacts DEF ConsumerInv, Empty
<1> QED
  BY <1>2 DEF ConsumerInv, StaleConsumer

-----------------------------------------------------------------------------
(* The ring implements the queue                                           *)

\* Publishing puts the message filled in at the end of the queue.
LEMMA PublishIsPut ==
    ASSUME RingInv, ProducerInv, ProducerPublish
    PROVE  Len(Pending) < QueueLength /\ Fill \in Messages /\ Pending' = Append(Pending, Fill)
<1>1. /\ ring' = [ring EXCEPT !.write = Advance(prod.w)] /\ prod.pc = "filled"
  BY DEF ProducerPublish
<1>2. prod.w = ring.write /\ Count \in Nat /\ Count < QueueLength
  BY <1>1, ProducerFacts
<1>3. /\ ring'.read = ring.read /\ ring'.write = Advance(ring.write) /\ ring'.slots = ring.slots
      /\ ring.read \in Index /\ ring.write \in Index /\ ring.slots \in [Slot -> Messages]
  BY <1>1, <1>2 DEF RingInv
<1>4. Dist(ring'.read, ring'.write) = Count + 1
  BY <1>2, <1>3, DistAdvanceWrite, RingAssumption DEF Count
<1>5. ring.write.slot = Plus(ring.read.slot, Count, QueueLength)
  BY DEF RingInv, IndicesAgree, Ahead, Count
<1>6. Fill = ring.slots[ring.write.slot] /\ Fill \in Messages
  BY <1>2, <1>3 DEF Fill, Index
<1>7. Pending' = [i \in 1 .. Count + 1 |-> ring.slots[Plus(ring.read.slot, i - 1, QueueLength)]]
  BY <1>3, <1>4 DEF Pending
<1>8. Pending = [i \in 1 .. Count |-> ring.slots[Plus(ring.read.slot, i - 1, QueueLength)]]
  BY DEF Pending, Count
<1>9. Len(Pending) = Count /\ Pending \in Seq(Messages)
  BY PendingFacts
<1>10. Append(Pending, Fill) =
         [i \in 1 .. Count + 1 |-> IF i = Count + 1 THEN Fill ELSE Pending[i]]
  BY <1>2, <1>6, <1>9
<1>11. \A i \in 1 .. Count + 1 :
          ring.slots[Plus(ring.read.slot, i - 1, QueueLength)]
            = IF i = Count + 1 THEN Fill ELSE Pending[i]
  BY <1>2, <1>5, <1>6, <1>8
<1> QED
  BY <1>2, <1>6, <1>7, <1>9, <1>10, <1>11

\* Releasing removes the oldest message, the one the consumer holds.
LEMMA ReleaseIsRemove ==
    ASSUME RingInv, ConsumerInv, ConsumerPublish
    PROVE  Pending # <<>> /\ cons.msg = Head(Pending) /\ Pending' = Tail(Pending)
<1>1. ring' = [ring EXCEPT !.read = Advance(cons.r)] /\ cons.pc = "taken"
  BY DEF ConsumerPublish
<1>2. /\ cons.r = ring.read /\ Count \in Nat /\ Count > 0
      /\ cons.msg = ring.slots[ring.read.slot]
  BY <1>1, ConsumerFacts DEF ConsumerInv
<1>3. /\ ring'.read = Advance(ring.read) /\ ring'.write = ring.write /\ ring'.slots = ring.slots
      /\ ring.read \in Index /\ ring.write \in Index
  BY <1>1, <1>2 DEF RingInv
<1>4. Dist(ring'.read, ring'.write) = Count - 1
  BY <1>2, <1>3, DistAdvanceRead DEF Count
<1>5. Pending' = [i \in 1 .. Count - 1 |->
                    ring.slots[Plus(Advance(ring.read).slot, i - 1, QueueLength)]]
  BY <1>3, <1>4 DEF Pending
<1>6. Pending = [i \in 1 .. Count |-> ring.slots[Plus(ring.read.slot, i - 1, QueueLength)]]
  BY DEF Pending, Count
<1>7. Len(Pending) = Count /\ Pending \in Seq(Messages) /\ Count <= QueueLength
  BY PendingFacts
<1>8. \A i \in 1 .. Count - 1 :
         Plus(Advance(ring.read).slot, i - 1, QueueLength) = Plus(ring.read.slot, i, QueueLength)
  BY <1>2, <1>3, <1>7, NextSlot, RingAssumption
<1>9. Tail(Pending) = [i \in 1 .. Count - 1 |-> Pending[i + 1]]
  <2>1. Tail(Pending) \in Seq(Messages) /\ Len(Tail(Pending)) = Count - 1
    BY <1>2, <1>7
  <2>2. \A i \in 1 .. Count - 1 : Tail(Pending)[i] = Pending[i + 1]
    BY <1>2, <1>7
  <2>3. Tail(Pending) \in [1 .. Count - 1 -> Messages]
    BY <2>1, LenProperties
  <2> QED
    BY <2>2, <2>3
<1>10. \A i \in 1 .. Count - 1 : Pending[i + 1] = ring.slots[Plus(ring.read.slot, i, QueueLength)]
  BY <1>2, <1>6
<1>11. Pending' = Tail(Pending)
  BY <1>5, <1>8, <1>9, <1>10
<1>12. Plus(ring.read.slot, 0, QueueLength) = ring.read.slot
  BY <1>3, FirstSlot
<1>13. Pending[1] = cons.msg
  BY <1>2, <1>6, <1>12
<1> QED
  BY <1>2, <1>7, <1>11, <1>13

\* Each direction of the shared-memory interface is a bounded FIFO queue:
\* every step of either side is a step of the queue, or leaves it alone.
THEOREM Refinement == Spec => ImplementsFifo
<1>1. Init => Fifo!Init
  <2> SUFFICES ASSUME Init PROVE Fifo!Init
    OBVIOUS
  <2>1. ring.read = Start /\ ring.write = Start /\ cons.msg = Nothing
    BY DEF Init
  <2>2. Dist(ring.read, ring.write) = 0
    BY <2>1, IndexTypes
  <2>3. Pending = <<>>
    BY <2>2 DEF Pending
  <2> QED
    BY <2>1, <2>3 DEF Fifo!Init
<1>2. IInv /\ IInv' /\ [Next]_vars => [Fifo!Next]_(Fifo!vars)
  <2> SUFFICES ASSUME IInv, IInv', [Next]_vars PROVE [Fifo!Next]_(Fifo!vars)
    OBVIOUS
  <2>1. ASSUME ring' = ring PROVE Pending' = Pending
    BY <2>1 DEF Pending, Dist
  <2>2. CASE ProducerSync \/ ProducerReadPeer \/ ProducerStop \/ UNCHANGED vars
    BY <2>1, <2>2 DEF ProducerSync, ProducerReadPeer, ProducerStop, vars, Fifo!vars
  <2>3. ASSUME NEW m \in Messages, ProducerFill(m) PROVE UNCHANGED Fifo!vars
    BY <2>3, FillKeepsPending DEF IInv, ProducerFill, Fifo!vars
  <2>4. CASE ProducerPublish
    <3>1. /\ Len(Pending) < QueueLength /\ Fill \in Messages
          /\ Pending' = Append(Pending, Fill)
      BY <2>4, PublishIsPut DEF IInv
    <3>2. cons' = cons
      BY <2>4 DEF ProducerPublish
    <3>3. Fifo!Put(Fill)
      BY <3>1, <3>2 DEF Fifo!Put
    <3> QED
      BY <3>1, <3>3 DEF Fifo!Next
  <2>5. CASE ConsumerSync \/ ConsumerReadPeer \/ ConsumerStop
    <3>1. ring' = ring /\ cons'.msg = cons.msg
      BY <2>5 DEF ConsumerSync, ConsumerReadPeer, ConsumerStop, IInv, ConsumerInv
    <3> QED
      BY <2>1, <3>1 DEF Fifo!vars
  <2>6. CASE ConsumerTake
    <3>1. ring' = ring /\ cons.pc = "ready" /\ cons'.pc = "taken" /\ cons'.r = cons.r
          /\ cons'.msg = ring.slots[cons.r.slot] /\ cons.r = ring.read
          /\ ~Empty(cons.r, cons.w)
      BY <2>6, ConsumerFacts DEF ConsumerTake, IInv, ConsumerInv
    <3>2. Pending' = Pending /\ cons.msg = Nothing
      BY <2>1, <3>1 DEF IInv, ConsumerInv
    <3>3. Count > 0 /\ Count \in Nat
      BY <3>1, ConsumerFacts DEF IInv
    <3>4. Plus(ring.read.slot, 0, QueueLength) = ring.read.slot
      BY FirstSlot DEF IInv, RingInv
    <3>5. Pending \in Seq(Messages) /\ Len(Pending) = Count /\ Pending[1] = ring.slots[ring.read.slot]
      BY <3>3, <3>4, PendingFacts DEF IInv
    <3>6. Pending # <<>> /\ cons'.msg = Head(Pending)
      BY <3>1, <3>3, <3>5
    <3>7. Fifo!Hold
      BY <3>2, <3>6 DEF Fifo!Hold
    <3> QED
      BY <3>7 DEF Fifo!Next
  <2>7. CASE ConsumerPublish
    <3>1. Pending # <<>> /\ cons.msg = Head(Pending) /\ Pending' = Tail(Pending)
      BY <2>7, ReleaseIsRemove DEF IInv
    <3>2. Pending \in Seq(Messages) /\ cons'.msg = Nothing
      BY <2>7, PendingFacts DEF ConsumerPublish, IInv, ConsumerInv
    <3>3. cons.msg # Nothing
      BY <3>1, <3>2, RingAssumption
    <3>4. Fifo!Remove
      BY <3>1, <3>2, <3>3 DEF Fifo!Remove
    <3> QED
      BY <3>4 DEF Fifo!Next
  <2> QED
    BY <2>2, <2>3, <2>4, <2>5, <2>6, <2>7 DEF Next, Producer, Consumer
<1> QED
  BY <1>1, <1>2, Invariance, PTL DEF Spec, ImplementsFifo, Fifo!Spec

-----------------------------------------------------------------------------
(* A ring that is reset now and then: what each step does to the queue     *)

\* Both sides are of the right type, and an idle side has no old copies.
LEMMA SidesFacts ==
    ASSUME SidesInv
    PROVE  /\ TypeOK
           /\ prod.pc \in {"idle", "filled"} => ProducerInv
           /\ cons.pc # "ready" => ConsumerInv
           /\ cons.pc # "taken" => cons.msg = Nothing
           /\ Pending \in Seq(Messages)
<1>1. Pending \in Seq(Messages)
  BY PendingFacts DEF SidesInv
<1>2. TypeOK
  <2>1. prod \in [pc : {"idle", "reading", "ready", "filled"}, r : Index, w : Index]
    BY DEF SidesInv, ProducerInv, StaleProducer
  <2>2. cons \in [pc : {"idle", "reading", "ready", "taken"}, r : Index, w : Index,
                   msg : Messages \cup {Nothing}]
    BY DEF SidesInv, ConsumerInv, StaleConsumer
  <2> QED
    BY <2>1, <2>2 DEF SidesInv, RingInv, TypeOK
<1>3. cons.pc # "taken" => cons.msg = Nothing
  BY DEF SidesInv, ConsumerInv, StaleConsumer
<1> QED
  BY <1>1, <1>2, <1>3 DEF SidesInv, StaleProducer, StaleConsumer

\* A new ring is empty.
LEMMA InitSides ==
    ASSUME Init
    PROVE  SidesInv /\ ProducerInv /\ Pending = <<>> /\ Unpublished = <<>>
<1>1. IInv
  BY InitInv
<1>2. Count = 0
  BY IndexTypes DEF Init, Count
<1>3. Pending \in Seq(Messages) /\ Len(Pending) = 0
  BY <1>1, <1>2, PendingFacts DEF IInv
<1>4. Pending = <<>>
  BY <1>3, EmptySeq
<1> QED
  BY <1>1, <1>4 DEF IInv, SidesInv, Unpublished, Init

\* Zeroing the indices of an empty ring while its consumer does not copy them.
LEMMA ResetSides ==
    ASSUME SidesInv, Pending = <<>>, prod.pc # "filled", cons.pc # "reading",
           ring' = [ring EXCEPT !.read = Start, !.write = Start], UNCHANGED <<prod, cons>>
    PROVE  SidesInv' /\ Pending' = <<>>
<1>1. RingInv' /\ Pending' = <<>>
  BY ResetStep DEF SidesInv
<1>2. ProducerInv' \/ StaleProducer'
  <2>1. CASE prod.pc = "idle"
    BY <2>1, SidesFacts DEF ProducerInv
  <2>2. CASE prod.pc # "idle"
    BY <2>2, SidesFacts DEF TypeOK, StaleProducer
  <2> QED
    BY <2>1, <2>2
<1>3. ConsumerInv' \/ StaleConsumer'
  <2>1. CASE cons.pc = "idle"
    BY <2>1, SidesFacts DEF ConsumerInv
  <2>2. CASE cons.pc # "idle"
    <3>1. StaleConsumer
      BY <2>2, IdleConsumer DEF SidesInv
    <3> QED
      BY <3>1 DEF StaleConsumer
  <2> QED
    BY <2>1, <2>2
<1> QED
  BY <1>1, <1>2, <1>3 DEF SidesInv

\* A step that leaves shared memory alone leaves the queue and what a
\* producer has yet to publish alone.
LEMMA SameSides ==
    ASSUME SidesInv, UNCHANGED vars
    PROVE  /\ SidesInv' /\ (ProducerInv => ProducerInv')
           /\ Pending' = Pending /\ Unpublished' = Unpublished
<1>1. ring' = ring /\ prod' = prod /\ cons' = cons
  BY DEF vars
<1>2. ProducerInv => ProducerInv'
  BY <1>1, SameProducer
<1>3. ConsumerInv => ConsumerInv'
  BY <1>1, SameConsumer
<1>4. (StaleProducer => StaleProducer') /\ (StaleConsumer => StaleConsumer')
  BY <1>1 DEF StaleProducer, StaleConsumer
<1> QED
  BY <1>1, <1>2, <1>3, <1>4, SameRing DEF SidesInv, Unpublished, Fill

\* Copying the indices makes a producer current: first its own ...
LEMMA ProducerSyncSides ==
    ASSUME SidesInv, ProducerSync
    PROVE  /\ SidesInv' /\ ProducerInv' /\ prod.pc = "idle" /\ prod'.pc = "reading"
           /\ Pending' = Pending /\ Unpublished = <<>> /\ Unpublished' = <<>>
<1>1. ProducerInv' /\ ring' = ring /\ cons' = cons /\ prod.pc = "idle" /\ prod'.pc = "reading"
  BY ProducerSyncStep, SidesFacts DEF SidesInv, ProducerSync, TypeOK
<1>2. ConsumerInv' \/ StaleConsumer'
  BY <1>1, SameConsumer DEF SidesInv, StaleConsumer
<1> QED
  BY <1>1, <1>2, SameRing DEF SidesInv, Unpublished

\* ... which may be the one from before the ring was reset ...
LEMMA ProducerLateSides ==
    ASSUME SidesInv, NEW w \in Index, prod.pc = "idle",
           prod' = [prod EXCEPT !.pc = "reading", !.w = w], UNCHANGED <<ring, cons>>
    PROVE  /\ SidesInv' /\ Pending' = Pending /\ Unpublished = <<>> /\ Unpublished' = <<>>
<1>1. prod \in [pc : {"idle", "reading", "ready", "filled"}, r : Index, w : Index]
  BY SidesFacts DEF TypeOK
<1>2. StaleProducer'
  BY <1>1 DEF StaleProducer
<1>3. ConsumerInv' \/ StaleConsumer'
  BY SameConsumer DEF SidesInv, StaleConsumer
<1>4. Unpublished = <<>> /\ Unpublished' = <<>>
  BY <1>2 DEF Unpublished, StaleProducer
<1> QED
  BY <1>2, <1>3, <1>4, SameRing DEF SidesInv

\* ... and then the consumer's.
LEMMA ProducerReadPeerSides ==
    ASSUME SidesInv, ProducerReadPeer
    PROVE  /\ SidesInv' /\ (ProducerInv => ProducerInv')
           /\ prod.pc = "reading" /\ prod'.pc = "ready"
           /\ Pending' = Pending /\ Unpublished = <<>> /\ Unpublished' = <<>>
<1>1. /\ ring' = ring /\ cons' = cons /\ prod.pc = "reading"
      /\ prod' = [prod EXCEPT !.pc = "ready", !.r = ring.read]
      /\ prod \in [pc : {"idle", "reading", "ready", "filled"}, r : Index, w : Index]
      /\ ring.read \in Index
  BY SidesFacts DEF ProducerReadPeer, TypeOK, SidesInv, RingInv
<1>2. StaleProducer' /\ prod'.pc = "ready"
  BY <1>1 DEF StaleProducer
<1>3. ProducerInv => ProducerInv'
  BY ProducerReadPeerStep DEF SidesInv
<1>4. ConsumerInv' \/ StaleConsumer'
  BY <1>1, SameConsumer DEF SidesInv, StaleConsumer
<1> QED
  BY <1>1, <1>2, <1>3, <1>4, SameRing DEF SidesInv, Unpublished

\* A current producer fills a free slot.
LEMMA FillSides ==
    ASSUME SidesInv, ProducerInv, NEW m \in Messages, ProducerFill(m)
    PROVE  /\ SidesInv' /\ ProducerInv' /\ prod.pc = "ready" /\ prod'.pc = "filled"
           /\ Pending' = Pending /\ Unpublished = <<>> /\ Unpublished' = <<m>>
<1>1. prod.pc = "ready" /\ prod'.pc = "filled" /\ cons' = cons
  BY DEF ProducerFill, ProducerInv
<1>2. RingInv' /\ ProducerInv' /\ (ConsumerInv => ConsumerInv')
  BY FillStep DEF SidesInv
<1>3. Pending' = Pending /\ Fill' = m
  BY FillKeepsPending DEF SidesInv
<1> QED
  BY <1>1, <1>2, <1>3 DEF SidesInv, StaleConsumer, Unpublished

\* Publishing moves the message to the end of the queue.
LEMMA PublishSides ==
    ASSUME SidesInv, ProducerPublish
    PROVE  /\ SidesInv' /\ ProducerInv' /\ prod.pc = "filled" /\ prod'.pc = "ready"
           /\ \E m \in Messages :
                 Unpublished = <<m>> /\ Unpublished' = <<>> /\ Pending' = Append(Pending, m)
<1>1. prod.pc = "filled" /\ cons' = cons /\ ProducerInv
  BY SidesFacts DEF ProducerPublish
<1>2. RingInv' /\ ProducerInv' /\ (ConsumerInv => ConsumerInv')
  BY <1>1, PublishStep DEF SidesInv
<1>3. Fill \in Messages /\ Pending' = Append(Pending, Fill)
  BY <1>1, PublishIsPut DEF SidesInv
<1>4. prod'.pc = "ready"
  BY DEF ProducerPublish, ProducerInv
<1>5. ConsumerInv' \/ StaleConsumer'
  BY <1>1, <1>2 DEF SidesInv, StaleConsumer
<1>6. Unpublished = <<Fill>> /\ Unpublished' = <<>>
  BY <1>1, <1>4 DEF Unpublished
<1> QED
  BY <1>1, <1>2, <1>3, <1>4, <1>5, <1>6 DEF SidesInv

\* A producer ends its pass, whatever its copies.
LEMMA ProducerStopSides ==
    ASSUME SidesInv, ProducerStop
    PROVE  /\ SidesInv' /\ ProducerInv' /\ prod.pc = "ready" /\ prod'.pc = "idle"
           /\ Pending' = Pending /\ Unpublished = <<>> /\ Unpublished' = <<>>
<1>1. prod \in [pc : {"idle", "reading", "ready", "filled"}, r : Index, w : Index]
  BY SidesFacts DEF TypeOK
<1>2. ProducerInv' /\ ring' = ring /\ cons' = cons /\ prod.pc = "ready" /\ prod'.pc = "idle"
  BY <1>1, ProducerStopStep DEF ProducerStop
<1>3. ConsumerInv' \/ StaleConsumer'
  BY <1>2, SameConsumer DEF SidesInv, StaleConsumer
<1> QED
  BY <1>2, <1>3, SameRing DEF SidesInv, Unpublished

LEMMA ConsumerSyncSides ==
    ASSUME SidesInv, ConsumerSync
    PROVE  /\ SidesInv' /\ (ProducerInv => ProducerInv')
           /\ cons.pc = "idle" /\ cons'.pc = "reading"
           /\ Pending' = Pending /\ Unpublished' = Unpublished
<1>1. cons.pc = "idle" /\ ConsumerInv
  BY SidesFacts DEF ConsumerSync
<1>2. ConsumerInv' /\ ring' = ring /\ prod' = prod /\ cons'.pc = "reading"
  BY <1>1, ConsumerSyncStep DEF SidesInv
<1>3. (ProducerInv => ProducerInv') /\ (StaleProducer => StaleProducer')
  BY <1>2, SameProducer DEF StaleProducer
<1> QED
  BY <1>1, <1>2, <1>3, SameRing DEF SidesInv, Unpublished, Fill

LEMMA ConsumerReadPeerSides ==
    ASSUME SidesInv, ConsumerReadPeer
    PROVE  /\ SidesInv' /\ (ProducerInv => ProducerInv')
           /\ cons.pc = "reading" /\ cons'.pc = "ready"
           /\ Pending' = Pending /\ Unpublished' = Unpublished
<1>1. cons.pc = "reading" /\ ConsumerInv
  BY SidesFacts DEF ConsumerReadPeer
<1>2. ConsumerInv' /\ ring' = ring /\ prod' = prod /\ cons'.pc = "ready"
  BY <1>1, ConsumerReadPeerStep DEF SidesInv
<1>3. (ProducerInv => ProducerInv') /\ (StaleProducer => StaleProducer')
  BY <1>2, SameProducer DEF StaleProducer
<1> QED
  BY <1>1, <1>2, <1>3, SameRing DEF SidesInv, Unpublished, Fill

\* A consumer that takes a message has current copies: by old ones the ring
\* is empty.
LEMMA TakeSides ==
    ASSUME SidesInv, ConsumerTake
    PROVE  /\ SidesInv' /\ (ProducerInv => ProducerInv')
           /\ cons.pc = "ready" /\ cons'.pc = "taken"
           /\ Pending' = Pending /\ Unpublished' = Unpublished
<1>1. ConsumerInv
  BY DEF SidesInv, StaleConsumer, ConsumerTake, Empty
<1>2. ConsumerInv' /\ ring' = ring /\ prod' = prod /\ cons.pc = "ready" /\ cons'.pc = "taken"
  BY <1>1, TakeStep DEF SidesInv
<1>3. (ProducerInv => ProducerInv') /\ (StaleProducer => StaleProducer')
  BY <1>2, SameProducer DEF StaleProducer
<1> QED
  BY <1>2, <1>3, SameRing DEF SidesInv, Unpublished, Fill

\* Releasing a slot takes the oldest message off the queue: the one taken.
LEMMA ReleaseSides ==
    ASSUME SidesInv, ConsumerPublish
    PROVE  /\ SidesInv' /\ (ProducerInv => ProducerInv')
           /\ cons.pc = "taken" /\ cons'.pc = "ready"
           /\ Pending # <<>> /\ cons.msg = Head(Pending) /\ Pending' = Tail(Pending)
           /\ Unpublished' = Unpublished
<1>1. cons.pc = "taken" /\ ConsumerInv
  BY SidesFacts DEF ConsumerPublish
<1>2. /\ RingInv' /\ ConsumerInv' /\ (ProducerInv => ProducerInv') /\ prod' = prod
      /\ Pending # <<>> /\ cons.msg = Head(Pending) /\ Pending' = Tail(Pending)
  BY <1>1, ReleaseStep, ReleaseIsRemove DEF SidesInv, ConsumerPublish
<1>3. cons'.pc = "ready" /\ ring'.slots = ring.slots
  BY <1>1 DEF ConsumerPublish, ConsumerInv, SidesInv, RingInv
<1> QED
  BY <1>1, <1>2, <1>3 DEF SidesInv, StaleProducer, Unpublished, Fill

\* A consumer with nothing in its hand ends its pass, whatever its copies.
LEMMA ConsumerStopSides ==
    ASSUME SidesInv, ConsumerStop
    PROVE  /\ SidesInv' /\ (ProducerInv => ProducerInv')
           /\ cons.pc = "ready" /\ cons'.pc = "idle"
           /\ Pending' = Pending /\ Unpublished' = Unpublished
<1>1. /\ cons \in [pc : {"idle", "reading", "ready", "taken"}, r : Index, w : Index,
                    msg : Messages \cup {Nothing}]
      /\ cons.msg = Nothing /\ cons.pc = "ready"
  BY SidesFacts DEF TypeOK, ConsumerStop
<1>2. ConsumerInv' /\ ring' = ring /\ prod' = prod /\ cons'.pc = "idle"
  BY <1>1, ConsumerStopStep
<1>3. (ProducerInv => ProducerInv') /\ (StaleProducer => StaleProducer')
  BY <1>2, SameProducer DEF StaleProducer
<1> QED
  BY <1>1, <1>2, <1>3, SameRing DEF SidesInv, Unpublished, Fill
=============================================================================
