-------------------------- MODULE SPSCQueue_proofs --------------------------
(***************************************************************************)
(* Safety of the lock-free queue for every capacity, set of items and      *)
(* length of run.  The inductive invariant ties both modification orders   *)
(* and what each thread has seen of them to the two counts of items, sent  *)
(* and got: store number k of an index is the slot of item k - 1, and it   *)
(* releases the first k - 1 accesses of its thread.                        *)
(***************************************************************************)
EXTENDS SPSCQueue, RingIndex_proofs

ModificationOrder(atomic, n) ==
    /\ Len(atomic) = n + 1
    /\ \A k \in 1 .. n + 1 :
         atomic[k] = [at |-> (k - 1) % BufferCapacity, rel |-> k - 1]

ProducerView ==
    /\ producer.pc # "read"
    /\ producer.seen \in 1 .. Len(got) + 1
    /\ producer.sync <= Len(got)
    /\ Len(sent) <= producer.seen - 1 + Capacity
    /\ producer.pc # "idle" => /\ Len(sent) < producer.seen - 1 + Capacity
                               /\ producer.seen - 1 <= producer.sync
                               /\ producer.item \in Items
    /\ producer.promised => /\ ~producer.refused
                            /\ Len(sent) < producer.seen - 1 + Capacity

ConsumerView ==
    /\ consumer.pc # "write"
    /\ consumer.seen \in 1 .. Len(sent) + 1
    /\ consumer.sync <= Len(sent)
    /\ Len(got) <= consumer.seen - 1
    /\ consumer.pc # "idle" => /\ Len(got) < consumer.seen - 1
                               /\ consumer.seen - 1 <= consumer.sync
    /\ consumer.promised => /\ ~consumer.refused
                            /\ Len(got) < consumer.seen - 1

(* The slots between the two counts hold the items between them. *)
SlotsHoldItems ==
    /\ \A n \in Len(got) .. Len(sent) - 1 :
         msg_q_[n % BufferCapacity] = sent[n + 1]
    /\ producer.pc = "publish" => msg_q_[Len(sent) % BufferCapacity] = producer.item
    /\ consumer.pc = "publish" => consumer.item = sent[Len(got) + 1]

GotIsPrefix == \A n \in 1 .. Len(got) : got[n] = sent[n]

IInv == /\ QueueTypeOK
        /\ ModificationOrder(tail_, Len(sent))
        /\ ModificationOrder(head_, Len(got))
        /\ ProducerView
        /\ ConsumerView
        /\ SlotsHoldItems
        /\ GotIsPrefix

----------------------------------------------------------------------------
(* What the modification order says of the store a thread appends to it.   *)
LEMMA OrderGrows ==
    ASSUME NEW atomic \in Seq(Stores), NEW n \in Nat, ModificationOrder(atomic, n)
    PROVE  LET after == Store(atomic, Advance(LastStored(atomic)), Release(n + 1))
           IN  /\ LastStored(atomic) = n % BufferCapacity
               /\ after \in Seq(Stores)
               /\ after # <<>>
               /\ ModificationOrder(after, n + 1)
<1> DEFINE s == [at |-> (n + 1) % BufferCapacity, rel |-> n + 1]
           after == Append(atomic, s)
<1>1. LastStored(atomic) = n % BufferCapacity
  BY BufferCapacityType DEF ModificationOrder, LastStored
<1>2. s \in Stores
  BY SlotOf DEF Stores
<1>3. Store(atomic, Advance(LastStored(atomic)), Release(n + 1)) = after
  BY <1>1, AdvanceSlot DEF Store, Release
<1>4. /\ after \in Seq(Stores)
      /\ after # <<>>
      /\ Len(after) = n + 2
      /\ \A k \in 1 .. n + 1 : after[k] = atomic[k]
      /\ after[n + 2] = s
  <2> HIDE DEF s
  <2>1. Len(atomic) = n + 1  BY DEF ModificationOrder
  <2>2. /\ Append(atomic, s) \in Seq(Stores)
        /\ Append(atomic, s) # <<>>
        /\ Len(Append(atomic, s)) = Len(atomic) + 1
        /\ \A i \in 1 .. Len(atomic) : Append(atomic, s)[i] = atomic[i]
        /\ Append(atomic, s)[Len(atomic) + 1] = s
    BY <1>2, AppendProperties
  <2>3. QED  BY <2>1, <2>2
<1>5. ModificationOrder(after, n + 1)
  <2> HIDE DEF after
  <2>1. ASSUME NEW k \in 1 .. n + 2
        PROVE  after[k] = [at |-> (k - 1) % BufferCapacity, rel |-> k - 1]
    <3>1. CASE k \in 1 .. n + 1  BY <3>1, <1>4 DEF ModificationOrder
    <3>2. CASE k = n + 2
      <4>1. k - 1 = n + 1  BY <3>2
      <4>2. QED  BY <4>1, <3>2, <1>4
    <3>3. QED  BY <3>1, <3>2
  <2>2. QED  BY <2>1, <1>4 DEF ModificationOrder
<1>6. QED  BY <1>1, <1>3, <1>4, <1>5

(* The two counts, and how far apart they can be.                           *)
LEMMA Counts ==
    ASSUME IInv
    PROVE  /\ Len(sent) \in Nat /\ Len(got) \in Nat
           /\ Len(got) <= Len(sent)
           /\ Len(sent) <= Len(got) + Capacity
           /\ producer \in ThreadStates /\ consumer \in ThreadStates
           /\ LastStored(tail_) = Len(sent) % BufferCapacity
           /\ LastStored(head_) = Len(got) % BufferCapacity
           /\ Len(tail_) = Len(sent) + 1
           /\ Len(head_) = Len(got) + 1
<1>1. Len(sent) \in Nat /\ Len(got) \in Nat
  BY LenProperties DEF IInv, QueueTypeOK
<1>2. Len(got) <= Len(sent) /\ Len(sent) <= Len(got) + Capacity
  BY <1>1, CapacityAssumption DEF IInv, ProducerView, ConsumerView
<1>3. /\ LastStored(tail_) = Len(sent) % BufferCapacity
      /\ LastStored(head_) = Len(got) % BufferCapacity
      /\ Len(tail_) = Len(sent) + 1
      /\ Len(head_) = Len(got) + 1
  BY <1>1, OrderGrows DEF IInv, QueueTypeOK, ModificationOrder
<1>4. QED  BY <1>1, <1>2, <1>3 DEF IInv, QueueTypeOK

LEMMA InitIInv == QueueInit => IInv
<1> SUFFICES ASSUME QueueInit PROVE IInv
  OBVIOUS
<1>1. 0 % BufferCapacity = 0 /\ 0 \in Slots
  <2>1. 0 = BufferCapacity * 0 + 0 /\ 0 \in 0 .. BufferCapacity - 1
    BY BufferCapacityType
  <2>2. QED  BY <2>1, BufferCapacityType, ModUnique DEF Slots
<1>2. QueueTypeOK
  BY <1>1 DEF QueueInit, QueueTypeOK, AtRest, Stores, ThreadStates
<1>3. ModificationOrder(tail_, 0) /\ ModificationOrder(head_, 0)
  BY <1>1 DEF QueueInit, ModificationOrder
<1>4. Len(sent) = 0 /\ Len(got) = 0
  BY DEF QueueInit
<1>5. ProducerView /\ ConsumerView
  BY <1>4, CapacityAssumption DEF QueueInit, AtRest, ProducerView, ConsumerView
<1>6. SlotsHoldItems /\ GotIsPrefix
  BY <1>4 DEF QueueInit, AtRest, SlotsHoldItems, GotIsPrefix
<1>7. QED  BY <1>2, <1>3, <1>4, <1>5, <1>6 DEF IInv

(* A store the producer can read is the one that took out item k - 1.       *)
LEMMA ProducerReads ==
    ASSUME IInv, NEW k \in Readable(head_, producer)
    PROVE  /\ k \in Nat \ {0} /\ producer.seen <= k /\ k <= Len(got) + 1
           /\ head_[k].at = (k - 1) % BufferCapacity
           /\ head_[k].rel = k - 1
           /\ IsFull(head_[k].at, LastStored(tail_)) <=> Len(sent) = k - 1 + Capacity
           /\ Len(sent) <= k - 1 + Capacity
<1>1. /\ k \in Nat \ {0} /\ producer.seen <= k /\ k <= Len(got) + 1
      /\ Len(sent) <= k - 1 + Capacity /\ k - 1 <= Len(sent)
  BY Counts, CapacityAssumption DEF Readable, ThreadStates, IInv, ProducerView
<1>2. head_[k] = [at |-> (k - 1) % BufferCapacity, rel |-> k - 1]
  BY <1>1, Counts DEF IInv, ModificationOrder
<1>3. IsFull(head_[k].at, LastStored(tail_)) <=> Len(sent) = k - 1 + Capacity
  BY <1>1, <1>2, Counts, FullMeansFull
<1>4. QED  BY <1>1, <1>2, <1>3

LEMMA ConsumerReads ==
    ASSUME IInv, NEW k \in Readable(tail_, consumer)
    PROVE  /\ k \in Nat \ {0} /\ consumer.seen <= k /\ k <= Len(sent) + 1
           /\ tail_[k].at = (k - 1) % BufferCapacity
           /\ tail_[k].rel = k - 1
           /\ IsEmpty(LastStored(head_), tail_[k].at) <=> Len(got) = k - 1
           /\ Len(got) <= k - 1
<1>1. /\ k \in Nat \ {0} /\ consumer.seen <= k /\ k <= Len(sent) + 1
      /\ Len(got) <= k - 1 /\ k - 1 <= Len(got) + Capacity
  BY Counts, CapacityAssumption DEF Readable, ThreadStates, IInv, ConsumerView
<1>2. tail_[k] = [at |-> (k - 1) % BufferCapacity, rel |-> k - 1]
  BY <1>1, Counts DEF IInv, ModificationOrder
<1>3. IsEmpty(LastStored(head_), tail_[k].at) <=> Len(got) = k - 1
  BY <1>1, <1>2, Counts, EmptyMeansEmpty
<1>4. QED  BY <1>1, <1>2, <1>3

(* An acquire load of the store that releases n accesses.                   *)
LEMMA AcquireView ==
    ASSUME NEW t \in ThreadStates, NEW atomic, NEW k \in Nat \ {0},
           atomic[k].rel = k - 1
    PROVE  LET u == Acquire(t, k, atomic)
           IN  /\ u \in ThreadStates
               /\ u.pc = t.pc /\ u.item = t.item /\ u.seen = k
               /\ u.refused = t.refused /\ u.promised = t.promised
               /\ u.sync \in {t.sync, k - 1} /\ k - 1 <= u.sync
<1> DEFINE s == IF k - 1 > t.sync THEN k - 1 ELSE t.sync
           u == [t EXCEPT !.seen = k, !.sync = s]
<1>1. Acquire(t, k, atomic) = u
  BY DEF Acquire
<1>2. s \in Nat /\ s \in {t.sync, k - 1} /\ k - 1 <= s
  BY DEF ThreadStates
<1>3. u \in ThreadStates
  <2> HIDE DEF s
  <2>1. QED  BY <1>2 DEF ThreadStates
<1>4. /\ u.pc = t.pc /\ u.item = t.item /\ u.seen = k /\ u.sync = s
      /\ u.refused = t.refused /\ u.promised = t.promised
  <2> HIDE DEF s
  <2>1. QED  BY DEF ThreadStates
<1>5. QED  BY <1>1, <1>2, <1>3, <1>4

----------------------------------------------------------------------------
(* One lemma per action of the producer. *)
LEMMA PushCheckStep == ASSUME IInv, PushCheck PROVE IInv'
<1> PICK x \in Items, k \in Readable(head_, producer) : PushCheckAt(x, k)
  BY DEF PushCheck
<1> DEFINE p == Acquire(producer, k, head_)
<1>1. /\ producer \in ThreadStates /\ producer.sync \in Nat /\ producer.seen \in Nat
      /\ Len(got) \in Nat /\ Len(sent) \in Nat
  BY Counts DEF ThreadStates
<1>u. /\ producer.pc = "idle"
      /\ UNCHANGED <<msg_q_, head_, tail_, consumer, sent, got>>
  BY DEF PushCheckAt
<1>2. /\ p \in ThreadStates
      /\ p.pc = "idle" /\ p.seen = k /\ p.refused = producer.refused
      /\ p.promised = producer.promised
      /\ k - 1 <= p.sync /\ p.sync <= Len(got)
  <2>1. producer.sync <= Len(got)  BY DEF IInv, ProducerView
  <2>2. QED  BY <2>1, <1>1, <1>u, ProducerReads, AcquireView
<1> HIDE DEF p
<1>3. producer' = IF Len(sent) = k - 1 + Capacity
                  THEN [p EXCEPT !.refused = TRUE]
                  ELSE [p EXCEPT !.pc = "write", !.item = x]
  BY ProducerReads DEF p, PushCheckAt
<1>4. /\ producer' \in ThreadStates /\ producer'.pc # "publish" /\ ProducerView'
  <2>1. CASE Len(sent) = k - 1 + Capacity
    <3>1. /\ producer'.pc = "idle" /\ producer'.seen = k /\ producer'.sync = p.sync
          /\ producer'.promised = producer.promised /\ producer' \in ThreadStates
      BY <1>2, <1>3, <2>1 DEF ThreadStates
    <3>2. ~producer.promised
      BY <2>1, <1>1, ProducerReads, CapacityAssumption DEF IInv, ProducerView
    <3>3. QED
      BY <3>1, <3>2, <1>1, <1>u, <1>2, <2>1, ProducerReads DEF ProducerView
  <2>2. CASE Len(sent) # k - 1 + Capacity
    <3>1. /\ producer'.pc = "write" /\ producer'.seen = k /\ producer'.sync = p.sync
          /\ producer'.item = x /\ producer'.promised = producer.promised
          /\ producer'.refused = producer.refused /\ producer' \in ThreadStates
      BY <1>2, <1>3, <2>2 DEF ThreadStates
    <3>2. Len(sent) < k - 1 + Capacity
      BY <2>2, <1>1, ProducerReads, CapacityAssumption
    <3>3. producer.promised => ~producer.refused
      BY DEF IInv, ProducerView
    <3>4. QED
      BY <3>1, <3>2, <3>3, <1>1, <1>u, <1>2, ProducerReads DEF ProducerView
  <2>3. QED  BY <2>1, <2>2
<1>5. QED
  BY <1>u, <1>4 DEF IInv, QueueTypeOK, ConsumerView, SlotsHoldItems, GotIsPrefix,
                    ModificationOrder

LEMMA PushWriteStep == ASSUME IInv, PushWrite PROVE IInv'
<1> USE DEF PushWrite
<1> DEFINE i == Len(sent) % BufferCapacity
<1>1. /\ producer \in ThreadStates /\ producer.pc = "write" /\ producer.item \in Items
      /\ Len(got) \in Nat /\ Len(sent) \in Nat
      /\ Len(sent) < Len(got) + Capacity
      /\ LastStored(tail_) = i
      /\ i \in Slots
  BY Counts, SlotOf, CapacityAssumption DEF ThreadStates, IInv, ProducerView
<1>2. msg_q_' = [msg_q_ EXCEPT ![i] = producer.item]
  BY <1>1
<1>3. msg_q_' \in [Slots -> Items \cup {NoItem}] /\ msg_q_'[i] = producer.item
  BY <1>1, <1>2 DEF IInv, QueueTypeOK
<1>4. /\ producer' \in ThreadStates /\ producer'.pc = "publish"
      /\ producer'.item = producer.item /\ producer'.seen = producer.seen
      /\ producer'.sync = producer.sync /\ producer'.refused = producer.refused
      /\ producer'.promised = producer.promised
  BY <1>1 DEF ThreadStates
<1>5. ProducerView'
  BY <1>1, <1>4 DEF IInv, ProducerView
<1>6. ASSUME NEW n \in Len(got) .. Len(sent) - 1
      PROVE  msg_q_'[n % BufferCapacity] = sent[n + 1]
  <2>1. n \in Nat /\ n < Len(sent) /\ Len(sent) - n < BufferCapacity
    BY <1>1, CapacityAssumption DEF BufferCapacity
  <2>2. n % BufferCapacity # i /\ n % BufferCapacity \in Slots
    BY <2>1, <1>1, SlotsDiffer, SlotOf
  <2>3. msg_q_'[n % BufferCapacity] = msg_q_[n % BufferCapacity]
    BY <1>2, <2>2 DEF IInv, QueueTypeOK
  <2>4. QED  BY <2>3 DEF IInv, SlotsHoldItems
<1>7. SlotsHoldItems'
  BY <1>3, <1>4, <1>6 DEF IInv, SlotsHoldItems
<1>8. QED
  BY <1>3, <1>4, <1>5, <1>7 DEF IInv, QueueTypeOK, ConsumerView, GotIsPrefix,
                                ModificationOrder

LEMMA PushPublishStep == ASSUME IInv, PushPublish PROVE IInv'
<1> DEFINE w == Len(sent)
           r == Len(got)
<1>1. /\ producer \in ThreadStates /\ producer.pc = "publish" /\ producer.item \in Items
      /\ w \in Nat /\ r \in Nat /\ r <= w /\ sent \in Seq(Items)
      /\ tail_ \in Seq(Stores) /\ ModificationOrder(tail_, w)
      /\ UNCHANGED <<msg_q_, head_, consumer, got>>
  BY Counts DEF PushPublish, IInv, ProducerView, QueueTypeOK
<1>2. tail_' \in Seq(Stores) /\ tail_' # <<>> /\ ModificationOrder(tail_', w + 1)
  BY <1>1, OrderGrows DEF PushPublish
<1>3. sent' = Append(sent, producer.item)
  BY DEF PushPublish
<1>4. /\ sent' \in Seq(Items) /\ Len(sent') = w + 1
      /\ \A n \in 1 .. w : sent'[n] = sent[n]
      /\ sent'[w + 1] = producer.item
  BY <1>1, <1>3, AppendProperties
<1>5. producer' = [producer EXCEPT !.pc = "idle", !.item = NoItem,
                                   !.refused = FALSE, !.promised = FALSE]
  BY DEF PushPublish
<1>6. /\ producer' \in ThreadStates /\ producer'.pc = "idle"
      /\ producer'.seen = producer.seen /\ producer'.sync = producer.sync
      /\ producer'.promised = FALSE
  BY <1>1, <1>5 DEF ThreadStates
<1>7. ProducerView'
  BY <1>1, <1>4, <1>6, CapacityAssumption DEF IInv, ProducerView, ThreadStates
<1>8. ConsumerView'
  <2>1. consumer.sync \in Nat /\ consumer.seen \in Nat  BY Counts DEF ThreadStates
  <2>2. QED  BY <2>1, <1>1, <1>4 DEF IInv, ConsumerView
<1>9. SlotsHoldItems'
  <2>1. ASSUME NEW n \in r .. w PROVE msg_q_[n % BufferCapacity] = sent'[n + 1]
    <3>1. CASE n = w  BY <3>1, <1>1, <1>4 DEF IInv, SlotsHoldItems
    <3>2. CASE n < w
      <4>1. n \in r .. w - 1 /\ n + 1 \in 1 .. w  BY <3>2, <1>1
      <4>2. QED  BY <4>1, <1>4 DEF IInv, SlotsHoldItems
    <3>3. QED  BY <3>1, <3>2, <1>1
  <2>2. consumer.pc = "publish" => r + 1 \in 1 .. w
    BY <1>1 DEF IInv, ConsumerView
  <2>3. consumer.pc = "publish" => consumer.item = sent'[r + 1]
    BY <2>2, <1>4 DEF IInv, SlotsHoldItems
  <2>4. QED  BY <2>1, <2>3, <1>1, <1>4, <1>6 DEF SlotsHoldItems
<1>10. GotIsPrefix'
  BY <1>1, <1>4 DEF IInv, GotIsPrefix
<1>11. QED
  BY <1>1, <1>2, <1>4, <1>6, <1>7, <1>8, <1>9, <1>10
     DEF IInv, QueueTypeOK, ModificationOrder

LEMMA ProducerAsksFullStep == ASSUME IInv, ProducerAsksFull PROVE IInv'
<1> PICK k \in Readable(head_, producer) :
      /\ producer.pc = "idle"
      /\ producer' = [Relaxed(producer, k) EXCEPT
                          !.promised = ~IsFull(head_[k].at, LastStored(tail_)),
                          !.refused = FALSE]
      /\ UNCHANGED <<msg_q_, head_, tail_, consumer, sent, got>>
  BY DEF ProducerAsksFull
<1>1. producer \in ThreadStates /\ Len(got) \in Nat /\ Len(sent) \in Nat
  BY Counts
<1> DEFINE full == IsFull(head_[k].at, LastStored(tail_))
<1>2. full \in BOOLEAN  BY DEF IsFull
<1>3. ~full => Len(sent) < k - 1 + Capacity
  BY <1>1, ProducerReads, CapacityAssumption
<1>4. producer' = [Relaxed(producer, k) EXCEPT !.promised = ~full, !.refused = FALSE]
  OBVIOUS
<1> HIDE DEF full
<1>5. /\ producer' \in ThreadStates /\ producer'.pc = "idle"
      /\ producer'.seen = k /\ producer'.sync = producer.sync
      /\ producer'.promised = ~full /\ producer'.refused = FALSE
  BY <1>1, <1>2, <1>4, ProducerReads DEF ThreadStates, Relaxed
<1>u. UNCHANGED <<msg_q_, head_, tail_, consumer, sent, got>>
  OBVIOUS
<1>6. ProducerView'
  <2>1. producer'.promised => ~producer'.refused /\ Len(sent) < k - 1 + Capacity
    BY <1>3, <1>5
  <2>2. producer.sync <= Len(got)
    BY DEF IInv, ProducerView
  <2>3. QED  BY <2>1, <2>2, <1>u, <1>1, <1>5, ProducerReads DEF ProducerView
<1>7. QED
  BY <1>u, <1>5, <1>6 DEF IInv, QueueTypeOK, ConsumerView, SlotsHoldItems, GotIsPrefix,
                    ModificationOrder

----------------------------------------------------------------------------
(* One lemma per action of the consumer. *)
LEMMA PopCheckStep == ASSUME IInv, PopCheck PROVE IInv'
<1> PICK k \in Readable(tail_, consumer) : PopCheckAt(k)
  BY DEF PopCheck
<1> DEFINE c == Acquire(consumer, k, tail_)
<1>1. /\ consumer \in ThreadStates /\ consumer.sync \in Nat
      /\ Len(got) \in Nat /\ Len(sent) \in Nat
      /\ consumer.pc = "idle"
      /\ UNCHANGED <<msg_q_, head_, tail_, producer, sent, got>>
  BY Counts DEF ThreadStates, PopCheckAt
<1>2. /\ c \in ThreadStates
      /\ c.pc = "idle" /\ c.seen = k /\ c.refused = consumer.refused
      /\ c.promised = consumer.promised
      /\ k - 1 <= c.sync /\ c.sync <= Len(sent)
  <2>1. consumer.sync <= Len(sent)  BY DEF IInv, ConsumerView
  <2>2. QED  BY <2>1, <1>1, ConsumerReads, AcquireView
<1> HIDE DEF c
<1>3. consumer' = IF Len(got) = k - 1
                  THEN [c EXCEPT !.refused = TRUE]
                  ELSE [c EXCEPT !.pc = "read"]
  BY ConsumerReads DEF c, PopCheckAt
<1>4. /\ consumer' \in ThreadStates /\ consumer'.pc # "publish" /\ ConsumerView'
  <2>1. CASE Len(got) = k - 1
    <3>1. /\ consumer'.pc = "idle" /\ consumer'.seen = k /\ consumer'.sync = c.sync
          /\ consumer'.promised = consumer.promised /\ consumer' \in ThreadStates
      BY <1>2, <1>3, <2>1 DEF ThreadStates
    <3>2. ~consumer.promised
      <4>1. k \in Nat /\ consumer.seen \in Nat /\ consumer.seen <= k
        BY <1>1, ConsumerReads DEF ThreadStates
      <4>2. QED  BY <4>1, <2>1, <1>1 DEF IInv, ConsumerView
    <3>3. QED
      BY <3>1, <3>2, <1>1, <1>2, <2>1, ConsumerReads DEF ConsumerView
  <2>2. CASE Len(got) # k - 1
    <3>1. /\ consumer'.pc = "read" /\ consumer'.seen = k /\ consumer'.sync = c.sync
          /\ consumer'.promised = consumer.promised
          /\ consumer'.refused = consumer.refused /\ consumer' \in ThreadStates
      BY <1>2, <1>3, <2>2 DEF ThreadStates
    <3>2. Len(got) < k - 1
      BY <2>2, <1>1, ConsumerReads
    <3>3. consumer.promised => ~consumer.refused
      BY DEF IInv, ConsumerView
    <3>4. QED
      BY <3>1, <3>2, <3>3, <1>1, <1>2, ConsumerReads DEF ConsumerView
  <2>3. QED  BY <2>1, <2>2
<1>5. QED
  BY <1>1, <1>4 DEF IInv, QueueTypeOK, ProducerView, SlotsHoldItems, GotIsPrefix,
                    ModificationOrder

LEMMA PopReadStep == ASSUME IInv, PopRead PROVE IInv'
<1> DEFINE r == Len(got)
           x == msg_q_[r % BufferCapacity]
<1>1. /\ consumer \in ThreadStates /\ consumer.pc = "read"
      /\ r \in Nat /\ Len(sent) \in Nat /\ r \in r .. Len(sent) - 1
      /\ UNCHANGED <<msg_q_, head_, tail_, producer, sent, got>>
  BY Counts DEF PopRead, IInv, ConsumerView, ThreadStates
<1>2. consumer' = [consumer EXCEPT !.pc = "publish", !.item = x]
  BY Counts DEF PopRead
<1>3. x = sent[r + 1] /\ x \in Items \cup {NoItem}
  BY <1>1, SlotOf DEF IInv, SlotsHoldItems, QueueTypeOK
<1> HIDE DEF x
<1>4. /\ consumer' \in ThreadStates /\ consumer'.pc = "publish" /\ consumer'.item = x
      /\ consumer'.seen = consumer.seen /\ consumer'.sync = consumer.sync
      /\ consumer'.refused = consumer.refused
      /\ consumer'.promised = consumer.promised
  BY <1>1, <1>2, <1>3 DEF ThreadStates
<1>5. ConsumerView'
  BY <1>1, <1>4 DEF IInv, ConsumerView
<1>6. SlotsHoldItems'
  BY <1>1, <1>3, <1>4 DEF IInv, SlotsHoldItems
<1>7. QED
  BY <1>1, <1>4, <1>5, <1>6 DEF IInv, QueueTypeOK, ProducerView, GotIsPrefix,
                                ModificationOrder

LEMMA PopPublishStep == ASSUME IInv, PopPublish PROVE IInv'
<1> DEFINE w == Len(sent)
           r == Len(got)
<1>1. /\ consumer \in ThreadStates /\ consumer.pc = "publish"
      /\ w \in Nat /\ r \in Nat /\ r < w /\ got \in Seq(Items) /\ sent \in Seq(Items)
      /\ head_ \in Seq(Stores) /\ ModificationOrder(head_, r)
      /\ consumer.item = sent[r + 1]
      /\ UNCHANGED <<msg_q_, tail_, producer, sent>>
  BY Counts DEF PopPublish, IInv, ConsumerView, QueueTypeOK, ThreadStates, SlotsHoldItems
<1>2. head_' \in Seq(Stores) /\ head_' # <<>> /\ ModificationOrder(head_', r + 1)
  BY <1>1, OrderGrows DEF PopPublish
<1>3. consumer.item \in Items
  BY <1>1, ElementOfSeq
<1>4. got' = Append(got, consumer.item)
  BY DEF PopPublish
<1>5. /\ got' \in Seq(Items) /\ Len(got') = r + 1
      /\ \A n \in 1 .. r : got'[n] = got[n]
      /\ got'[r + 1] = consumer.item
  BY <1>1, <1>3, <1>4, AppendProperties
<1>6. consumer' = [consumer EXCEPT !.pc = "idle", !.item = NoItem,
                                   !.refused = FALSE, !.promised = FALSE]
  BY DEF PopPublish
<1>7. /\ consumer' \in ThreadStates /\ consumer'.pc = "idle"
      /\ consumer'.seen = consumer.seen /\ consumer'.sync = consumer.sync
      /\ consumer'.promised = FALSE
  BY <1>1, <1>6 DEF ThreadStates
<1>8. ConsumerView'
  BY <1>1, <1>5, <1>7 DEF IInv, ConsumerView, ThreadStates
<1>9. ProducerView'
  <2>1. producer.sync \in Nat /\ producer.seen \in Nat  BY Counts DEF ThreadStates
  <2>2. QED  BY <2>1, <1>1, <1>5 DEF IInv, ProducerView
<1>10. SlotsHoldItems'
  BY <1>1, <1>5, <1>7 DEF IInv, SlotsHoldItems
<1>11. GotIsPrefix'
  BY <1>1, <1>5 DEF IInv, GotIsPrefix
<1>12. QED
  BY <1>1, <1>2, <1>5, <1>7, <1>8, <1>9, <1>10, <1>11
     DEF IInv, QueueTypeOK, ModificationOrder

LEMMA ConsumerAsksEmptyStep == ASSUME IInv, ConsumerAsksEmpty PROVE IInv'
<1> PICK k \in Readable(tail_, consumer) :
      /\ consumer.pc = "idle"
      /\ consumer' = [Relaxed(consumer, k) EXCEPT
                          !.promised = ~IsEmpty(LastStored(head_), tail_[k].at),
                          !.refused = FALSE]
      /\ UNCHANGED <<msg_q_, head_, tail_, producer, sent, got>>
  BY DEF ConsumerAsksEmpty
<1>1. consumer \in ThreadStates /\ Len(got) \in Nat /\ Len(sent) \in Nat
  BY Counts
<1> DEFINE empty == IsEmpty(LastStored(head_), tail_[k].at)
<1>2. empty \in BOOLEAN  BY DEF IsEmpty
<1>3. ~empty => Len(got) < k - 1
  BY <1>1, ConsumerReads
<1>4. consumer' = [Relaxed(consumer, k) EXCEPT !.promised = ~empty, !.refused = FALSE]
  OBVIOUS
<1> HIDE DEF empty
<1>5. /\ consumer' \in ThreadStates /\ consumer'.pc = "idle"
      /\ consumer'.seen = k /\ consumer'.sync = consumer.sync
      /\ consumer'.promised = ~empty /\ consumer'.refused = FALSE
  BY <1>1, <1>2, <1>4, ConsumerReads DEF ThreadStates, Relaxed
<1>u. UNCHANGED <<msg_q_, head_, tail_, producer, sent, got>>
  OBVIOUS
<1>6. ConsumerView'
  <2>1. consumer'.promised => ~consumer'.refused /\ Len(got) < k - 1
    BY <1>3, <1>5
  <2>2. consumer.sync <= Len(sent)
    BY DEF IInv, ConsumerView
  <2>3. QED  BY <2>1, <2>2, <1>u, <1>1, <1>5, ConsumerReads DEF ConsumerView
<1>7. QED
  BY <1>u, <1>5, <1>6 DEF IInv, QueueTypeOK, ProducerView, SlotsHoldItems, GotIsPrefix,
                    ModificationOrder

LEMMA NextIInv == IInv /\ [QueueNext]_queueVars => IInv'
<1> SUFFICES ASSUME IInv, [QueueNext]_queueVars PROVE IInv'
  OBVIOUS
<1>1. CASE PushCheck          BY <1>1, PushCheckStep
<1>2. CASE PushWrite          BY <1>2, PushWriteStep
<1>3. CASE PushPublish        BY <1>3, PushPublishStep
<1>4. CASE ProducerAsksFull   BY <1>4, ProducerAsksFullStep
<1>5. CASE PopCheck           BY <1>5, PopCheckStep
<1>6. CASE PopRead            BY <1>6, PopReadStep
<1>7. CASE PopPublish         BY <1>7, PopPublishStep
<1>8. CASE ConsumerAsksEmpty  BY <1>8, ConsumerAsksEmptyStep
<1>9. CASE UNCHANGED queueVars
  BY <1>9 DEF queueVars, IInv, QueueTypeOK, ModificationOrder, ProducerView, ConsumerView,
              SlotsHoldItems, GotIsPrefix
<1>10. QED
  BY <1>1, <1>2, <1>3, <1>4, <1>5, <1>6, <1>7, <1>8, <1>9 DEF QueueNext

THEOREM Inductive == QueueSpec => []IInv
<1>1. QED  BY InitIInv, NextIInv, PTL DEF QueueSpec

----------------------------------------------------------------------------
(* Every index the two threads store is the index of a slot, and every slot *)
(* holds a T, at every capacity (the values of the fields of SPSCQueue).    *)
THEOREM TypeCorrect == QueueSpec => []QueueTypeOK
<1>1. IInv => QueueTypeOK  BY DEF IInv
<1>2. QED  BY <1>1, Inductive, PTL

LEMMA IInvNoDataRace == IInv => NoDataRace
<1> SUFFICES ASSUME IInv PROVE NoDataRace
  OBVIOUS
<1>1. ASSUME producer.pc = "write",
             NEW n \in 0 .. Len(sent) - 1, n % BufferCapacity = LastStored(tail_)
      PROVE  n < producer.sync
  <2>0. n % BufferCapacity = Len(sent) % BufferCapacity
    BY <1>1, Counts
  <2>1. /\ Len(sent) \in Nat /\ producer.seen \in Nat /\ producer.sync \in Nat
        /\ Len(sent) < producer.seen - 1 + Capacity
        /\ producer.seen - 1 <= producer.sync
    BY <1>1, Counts DEF IInv, ProducerView, ThreadStates
  <2>2. ~(Len(sent) - n < BufferCapacity)
    BY <2>0, <2>1, SlotsDiffer
  <2>3. Len(sent) - n >= Capacity + 1
    BY <2>1, <2>2, CapacityAssumption DEF BufferCapacity
  <2>4. QED  BY <2>1, <2>3, CapacityAssumption
<1>2. consumer.pc = "read" => Len(got) < consumer.sync
  BY Counts DEF IInv, ConsumerView, ThreadStates
<1>3. QED  BY <1>1, <1>2 DEF NoDataRace

(* The release store of one index and the acquire load of it by the other   *)
(* thread order every pair of accesses to a slot (push() and pop() of       *)
(* spsc_queue.h), however often the ring has wrapped around.                *)
THEOREM RaceFree == QueueSpec => []NoDataRace
<1>1. QED  BY IInvNoDataRace, Inductive, PTL

(* A producer that was told ~full(), or a consumer that was told ~empty(),  *)
(* is not refused by its next call, relaxed loads of the query included.    *)
THEOREM PromisesAreKept == QueueSpec => []PromiseKept
<1>1. IInv => PromiseKept
  BY DEF IInv, ProducerView, ConsumerView, PromiseKept
<1>2. QED  BY <1>1, Inductive, PTL

----------------------------------------------------------------------------
(* The items inside, as the abstract queue has them. *)
Inside == SubSeq(sent, Len(got) + 1, Len(sent))

LEMMA PublishIsPut ==
    ASSUME IInv, PushPublish
    PROVE  Inside' = Append(Inside, producer.item) /\ Len(Inside) < Capacity
<1>1. /\ Len(sent) \in Nat /\ Len(got) \in 0 .. Len(sent) /\ sent \in Seq(Items)
      /\ producer.item \in Items
      /\ Len(sent) < Len(got) + Capacity
      /\ sent' = Append(sent, producer.item) /\ got' = got
  BY Counts, CapacityAssumption
     DEF PushPublish, IInv, QueueTypeOK, ProducerView, ThreadStates
<1>2. Len(Inside) < Capacity
  BY <1>1, RestOf, CapacityAssumption DEF Inside
<1>3. Inside' = Append(Inside, producer.item)
  BY <1>1, RestOfAppend DEF Inside
<1>4. QED  BY <1>2, <1>3

LEMMA PublishIsTake ==
    ASSUME IInv, PopPublish
    PROVE  /\ Inside # <<>>
           /\ got' = Append(got, Head(Inside))
           /\ Inside' = Tail(Inside)
<1> DEFINE w == Len(sent)
           r == Len(got)
<1>1. /\ w \in Nat /\ r \in Nat /\ r < w /\ sent \in Seq(Items) /\ got \in Seq(Items)
      /\ consumer.item = sent[r + 1] /\ got' = Append(got, sent[r + 1])
      /\ sent' = sent
  BY Counts DEF PopPublish, IInv, QueueTypeOK, ConsumerView, ThreadStates, SlotsHoldItems
<1>2. r + 1 \in 1 .. w /\ w \in r + 1 .. w /\ sent[r + 1] \in Items
  BY <1>1, ElementOfSeq
<1>3. Len(got') = r + 1
  BY <1>1, <1>2, AppendProperties
<1>4. Inside = SubSeq(sent, r + 1, w) /\ Inside' = SubSeq(sent, r + 1 + 1, w)
  BY <1>1, <1>3 DEF Inside
<1>5. Head(Inside) = sent[r + 1] /\ Tail(Inside) = Inside'
  BY <1>1, <1>2, <1>4, HeadTailOfSubSeq
<1>6. Inside # <<>>
  <2>1. Len(Inside) = w - (r + 1) + 1
    <3>1. \A n \in r + 1 .. w : sent[n] \in Items  BY <1>1, ElementOfSeq
    <3>2. QED  BY <3>1, <1>1, <1>4, SubSeqProperties
  <2>2. QED  BY <2>1, <1>1
<1>7. QED  BY <1>1, <1>5, <1>6

(* The lock-free queue implements the bounded FIFO: the store of tail_ is   *)
(* the moment an item goes in, the store of head_ the moment one comes out, *)
(* and every other step of the two threads changes nothing a caller sees.   *)
THEOREM ImplementsFifo == QueueSpec => FifoSpec
<1>1. QueueInit => Fifo!Init
  <2>1. SubSeq(<<>>, 1, 0) = <<>>  BY SubSeqEmpty
  <2>2. QED  BY <2>1 DEF QueueInit, Fifo!Init
<1>2. IInv /\ [QueueNext]_queueVars => [Fifo!Next]_(Fifo!vars)
  <2> SUFFICES ASSUME IInv, [QueueNext]_queueVars PROVE [Fifo!Next]_(Fifo!vars)
    OBVIOUS
  <2>1. CASE PushPublish
    <3>1. producer.item \in Items  BY <2>1 DEF PushPublish, IInv, ProducerView
    <3>2. got' = got  BY <2>1 DEF PushPublish
    <3>3. Fifo!Put(producer.item)
      BY <2>1, <3>2, PublishIsPut DEF Fifo!Put, Inside
    <3>4. QED  BY <3>1, <3>3 DEF Fifo!Next
  <2>2. CASE PopPublish
    <3>1. Fifo!Take  BY <2>2, PublishIsTake DEF Fifo!Take, Inside
    <3>2. QED  BY <3>1 DEF Fifo!Next
  <2>3. CASE sent' = sent /\ got' = got
    BY <2>3 DEF Fifo!vars
  <2>4. ASSUME ~PushPublish, ~PopPublish PROVE sent' = sent /\ got' = got
    BY <2>4 DEF QueueNext, queueVars, PushCheck, PushCheckAt, PushWrite, ProducerAsksFull,
                PopCheck, PopCheckAt, PopRead, ConsumerAsksEmpty
  <2>5. QED  BY <2>1, <2>2, <2>3, <2>4
<1>3. QED  BY <1>1, <1>2, Inductive, PTL DEF QueueSpec, FifoSpec, Fifo!Spec
=============================================================================
