---------------------- MODULE SPSCBlockingQueue_proofs ----------------------
(***************************************************************************)
(* Safety of the blocking queue for every capacity, set of items and set   *)
(* of closing threads.  What makes the sleep safe is that a thread decides *)
(* to sleep (label "sleep") under the mutex and that all that could make   *)
(* the decision wrong, an insertion, a removal or close(), needs the mutex *)
(* too: the decision is still right when the thread falls asleep.          *)
(***************************************************************************)
EXTENDS SPSCBlockingQueue, RingIndex_proofs

Inside == {"test", "sleep", "insert", "remove", "notify", "leave", "refuse",
           "close", "unlock"}

(* Each thread runs its own operation; those inside hold the mutex; those   *)
(* asleep are about to lock it again.                                       *)
Roles == /\ pc[Producer] \in {"idle", "enter", "test", "sleep", "insert", "notify",
                              "leave", "refuse"}
         /\ pc[Consumer] \in {"idle", "enter", "test", "sleep", "remove", "notify",
                              "leave", "refuse"}
         /\ \A t \in Closers : pc[t] \in {"idle", "close", "unlock", "wakeProducer",
                                          "wakeConsumer"}
         /\ \A t \in Threads : pc[t] \in Inside => owner = t
         /\ waiting["not_full"] \subseteq {Producer}
         /\ waiting["not_empty"] \subseteq {Consumer}
         /\ Producer \in waiting["not_full"] => pc[Producer] = "enter"
         /\ Consumer \in waiting["not_empty"] => pc[Consumer] = "enter"

(* What a thread found true of the queue is true until it acts on it.       *)
Decisions ==
    /\ pc[Producer] # "idle" => item \in Items
    /\ pc[Producer] = "sleep"  => Full /\ ~is_closed_
    /\ pc[Producer] = "insert" => ~Full /\ ~is_closed_
    /\ pc[Consumer] = "sleep"  => Empty /\ ~is_closed_
    /\ pc[Consumer] = "remove" => ~Empty
    /\ pc[Consumer] = "refuse" => Empty /\ is_closed_
    /\ \A t \in Closers : pc[t] \in {"unlock", "wakeProducer", "wakeConsumer"} => is_closed_

(* The ring holds the items pushed and not yet popped. *)
RingOK ==
    /\ Len(got) <= Len(sent) /\ Len(sent) <= Len(got) + Capacity
    /\ tail_ = Len(sent) % BufferCapacity
    /\ head_ = Len(got) % BufferCapacity
    /\ \A n \in Len(got) .. Len(sent) - 1 : msg_q_[n % BufferCapacity] = sent[n + 1]
    /\ \A n \in 1 .. Len(got) : got[n] = sent[n]

Drained == ended => is_closed_ /\ Len(got) = Len(sent)

IInv == TypeOK /\ Roles /\ Decisions /\ RingOK /\ NoLostWakeup /\ Drained

LEMMA InitIInv == Init => IInv
<1> SUFFICES ASSUME Init PROVE IInv
  OBVIOUS
<1>1. 0 % BufferCapacity = 0 /\ 0 \in Slots
  <2>1. 0 = BufferCapacity * 0 + 0 /\ 0 \in 0 .. BufferCapacity - 1
    BY BufferCapacityType
  <2>2. QED  BY <2>1, BufferCapacityType, ModUnique DEF Slots
<1>2. TypeOK
  <2>1. MonitorTypeOK  BY DEF Init, MonitorInit, MonitorTypeOK
  <2>2. pc \in [Threads -> Labels]  BY DEF Init, Labels
  <2>3. sent \in Seq(Items) /\ got \in Seq(Items)  BY DEF Init
  <2>4. QED  BY <1>1, <2>1, <2>2, <2>3 DEF Init, TypeOK
<1>3. Roles
  BY ThreadsAssumption DEF Init, Roles, MonitorInit, Inside, Threads, Conditions
<1>4. Decisions
  BY ThreadsAssumption DEF Init, Decisions, Threads
<1>5. Len(sent) = 0 /\ Len(got) = 0
  BY DEF Init
<1>6. RingOK
  BY <1>1, <1>5, CapacityAssumption DEF Init, RingOK
<1>7. NoLostWakeup /\ Drained
  BY DEF Init, NoLostWakeup, Drained, MonitorInit, Conditions
<1>8. QED  BY <1>2, <1>3, <1>4, <1>6, <1>7 DEF IInv

(* The two counts; Full and Empty in terms of them. *)
LEMMA Counts ==
    ASSUME IInv
    PROVE  /\ Len(sent) \in Nat /\ Len(got) \in Nat
           /\ Full <=> Len(sent) = Len(got) + Capacity
           /\ Empty <=> Len(sent) = Len(got)
<1>1. Len(sent) \in Nat /\ Len(got) \in Nat
  BY LenProperties DEF IInv, TypeOK
<1>2. Full <=> Len(sent) = Len(got) + Capacity
  BY <1>1, FullMeansFull DEF IInv, RingOK, Full
<1>3. Empty <=> Len(sent) = Len(got)
  BY <1>1, EmptyMeansEmpty DEF IInv, RingOK, Empty
<1>4. QED  BY <1>1, <1>2, <1>3

(* A step that leaves the ring and the history alone. *)
LEMMA RingUnchanged ==
    ASSUME IInv, UNCHANGED <<ring, sent, got>>
    PROVE  RingOK' /\ (Full' <=> Full) /\ (Empty' <=> Empty)
BY DEF IInv, RingOK, ring, Full, Empty

----------------------------------------------------------------------------
LEMMA PushCallStep == ASSUME IInv, NEW x \in Items, PushCall(x) PROVE IInv'
<1> USE DEF PushCall
<1>1. RingOK' /\ (Full' <=> Full) /\ (Empty' <=> Empty)
  BY RingUnchanged DEF history
<1>2. TypeOK' /\ Roles' /\ Decisions'
  BY ThreadsAssumption DEF IInv, TypeOK, Roles, Decisions, Goto, Labels, Inside,
     Threads, MonitorTypeOK, monitor, ring, history, Full, Empty
<1>3. NoLostWakeup' /\ Drained'
  BY ThreadsAssumption, <1>1 DEF IInv, TypeOK, NoLostWakeup, Drained, Goto, Threads,
     monitor, ring, history, Roles, ConsumerToBeWoken, ProducerToBeWoken
<1>4. QED  BY <1>1, <1>2, <1>3 DEF IInv

LEMMA EnterStep == ASSUME IInv, NEW t \in {Producer, Consumer}, Enter(t) PROVE IInv'
<1> USE DEF Enter
<1>1. RingOK' /\ (Full' <=> Full) /\ (Empty' <=> Empty)
  BY RingUnchanged DEF history
<1>2. TypeOK' /\ Roles' /\ Decisions'
  BY ThreadsAssumption, <1>1 DEF IInv, TypeOK, Roles, Decisions, Goto, Labels, Inside,
     Threads, MonitorTypeOK, monitor, ring, history, Lock, Asleep, Conditions
<1>3. NoLostWakeup' /\ Drained'
  BY ThreadsAssumption, <1>1 DEF IInv, TypeOK, NoLostWakeup, Drained, Goto, Threads,
     monitor, ring, history, Roles, Decisions, ConsumerToBeWoken, ProducerToBeWoken,
     MonitorTypeOK, Inside, Lock, Asleep, Conditions
<1>4. QED  BY <1>1, <1>2, <1>3 DEF IInv

LEMMA PushTestStep == ASSUME IInv, PushTest PROVE IInv'
<1> USE DEF PushTest
<1>1. RingOK' /\ (Full' <=> Full) /\ (Empty' <=> Empty)
  BY RingUnchanged DEF history
<1>2. TypeOK' /\ Roles' /\ Decisions'
  BY ThreadsAssumption, <1>1 DEF IInv, TypeOK, Roles, Decisions, Goto, Labels, Inside,
     Threads, MonitorTypeOK, monitor, ring, history
<1>3. NoLostWakeup' /\ Drained'
  BY ThreadsAssumption, <1>1 DEF IInv, TypeOK, NoLostWakeup, Drained, Goto, Threads,
     monitor, ring, history, Roles, Decisions, ConsumerToBeWoken, ProducerToBeWoken,
     MonitorTypeOK, Inside
<1>4. QED  BY <1>1, <1>2, <1>3 DEF IInv

LEMMA PushSleepStep == ASSUME IInv, PushSleep PROVE IInv'
<1> USE DEF PushSleep
<1>1. RingOK' /\ (Full' <=> Full) /\ (Empty' <=> Empty)
  BY RingUnchanged DEF history
<1>2. TypeOK' /\ Roles' /\ Decisions'
  BY ThreadsAssumption, <1>1 DEF IInv, TypeOK, Roles, Decisions, Goto, Labels, Inside,
     Threads, MonitorTypeOK, monitor, ring, history, Sleep, Conditions
<1>3. NoLostWakeup' /\ Drained'
  BY ThreadsAssumption, <1>1 DEF IInv, TypeOK, NoLostWakeup, Drained, Goto, Threads,
     monitor, ring, history, Roles, Decisions, ConsumerToBeWoken, ProducerToBeWoken,
     MonitorTypeOK, Inside, Sleep, Conditions
<1>4. QED  BY <1>1, <1>2, <1>3 DEF IInv

LEMMA PushInsertStep == ASSUME IInv, PushInsert PROVE IInv'
<1> USE DEF PushInsert
<1> DEFINE w == Len(sent)
           r == Len(got)
           i == w % BufferCapacity
<1>1. /\ w \in Nat /\ r \in Nat /\ r <= w /\ w < r + Capacity
      /\ tail_ = i /\ i \in Slots /\ item \in Items /\ ~is_closed_
      /\ sent \in Seq(Items) /\ got' = got /\ head_' = head_
  BY Counts, SlotOf, CapacityAssumption DEF IInv, TypeOK, Decisions, RingOK
<1>2. /\ sent' \in Seq(Items) /\ Len(sent') = w + 1
      /\ \A n \in 1 .. w : sent'[n] = sent[n]
      /\ sent'[w + 1] = item
  BY <1>1, AppendProperties
<1>3. tail_' = (w + 1) % BufferCapacity /\ tail_' \in Slots
  BY <1>1, AdvanceSlot, SlotOf
<1>4. msg_q_' \in [Slots -> Items \cup {NoItem}]
  BY <1>1 DEF IInv, TypeOK
<1>5. ASSUME NEW n \in r .. w PROVE msg_q_'[n % BufferCapacity] = sent'[n + 1]
  <2>1. CASE n = w  BY <2>1, <1>1, <1>2 DEF IInv, TypeOK
  <2>2. CASE n < w
    <3>1. n \in Nat /\ w - n < BufferCapacity /\ n + 1 \in 1 .. w /\ n \in r .. w - 1
      BY <2>2, <1>1, CapacityAssumption DEF BufferCapacity
    <3>2. n % BufferCapacity # i /\ n % BufferCapacity \in Slots
      BY <3>1, <2>2, <1>1, SlotsDiffer, SlotOf
    <3>3. msg_q_'[n % BufferCapacity] = msg_q_[n % BufferCapacity]
      BY <3>2, <1>1 DEF IInv, TypeOK
    <3>4. QED  BY <3>1, <3>3, <1>2 DEF IInv, RingOK
  <2>3. QED  BY <2>1, <2>2, <1>1
<1>6. RingOK'
  <2>1. Len(got) <= Len(sent') /\ Len(sent') <= Len(got) + Capacity
    BY <1>1, <1>2, CapacityAssumption
  <2>2. \A n \in 1 .. Len(got) : got[n] = sent'[n]
    BY <1>1, <1>2 DEF IInv, RingOK
  <2>3. head_ = Len(got) % BufferCapacity  BY DEF IInv, RingOK
  <2>4. Len(sent') - 1 = w  BY <1>1, <1>2
  <2>5. \A n \in Len(got') .. Len(sent') - 1 : msg_q_'[n % BufferCapacity] = sent'[n + 1]
    BY <1>1, <1>5, <2>4
  <2>6. /\ tail_' = Len(sent') % BufferCapacity
        /\ head_' = Len(got') % BufferCapacity
        /\ \A n \in 1 .. Len(got') : got'[n] = sent'[n]
        /\ Len(got') <= Len(sent') /\ Len(sent') <= Len(got') + Capacity
    BY <1>1, <1>2, <1>3, <2>1, <2>2, <2>3
  <2>7. QED  BY <2>5, <2>6 DEF RingOK
<1>7. ~Empty'
  <2>1. IsEmpty(r % BufferCapacity, (w + 1) % BufferCapacity) <=> w + 1 = r
    BY <1>1, EmptyMeansEmpty, CapacityAssumption
  <2>2. QED  BY <1>1, <1>3, <2>1 DEF Empty, IInv, RingOK
<1>8. TypeOK' /\ Roles'
  BY ThreadsAssumption, <1>2, <1>3, <1>4 DEF IInv, TypeOK, Roles, Goto, Labels, Inside,
     Threads, MonitorTypeOK, monitor
<1>9. Decisions'
  BY ThreadsAssumption, <1>1, <1>7 DEF IInv, TypeOK, Roles, Decisions, Goto, Threads,
     Inside, monitor
<1>10. NoLostWakeup' /\ Drained'
  <2>1. pc'[Producer] = "notify" /\ waiting' = waiting
    BY ThreadsAssumption DEF IInv, TypeOK, Goto, Threads, monitor
  <2>2. Producer \notin waiting["not_full"]
    BY DEF IInv, Roles
  <2>3. QED
    BY <1>1, <2>1, <2>2 DEF IInv, NoLostWakeup, ConsumerToBeWoken, Drained
<1>11. QED  BY <1>6, <1>8, <1>9, <1>10 DEF IInv

LEMMA PushNotifyStep == ASSUME IInv, PushNotify PROVE IInv'
<1> USE DEF PushNotify
<1>1. RingOK' /\ (Full' <=> Full) /\ (Empty' <=> Empty)
  BY RingUnchanged DEF history
<1>2. TypeOK' /\ Roles' /\ Decisions'
  BY ThreadsAssumption, <1>1 DEF IInv, TypeOK, Roles, Decisions, Goto, Labels, Inside,
     Threads, MonitorTypeOK, monitor, ring, history, NotifyOne, Conditions
<1>3. NoLostWakeup' /\ Drained'
  BY ThreadsAssumption, <1>1 DEF IInv, TypeOK, NoLostWakeup, Drained, Goto, Threads,
     monitor, ring, history, Roles, Decisions, ConsumerToBeWoken, ProducerToBeWoken,
     MonitorTypeOK, Inside, NotifyOne, Conditions
<1>4. QED  BY <1>1, <1>2, <1>3 DEF IInv

LEMMA PushReturnStep == ASSUME IInv, PushReturn PROVE IInv'
<1> USE DEF PushReturn
<1>1. RingOK' /\ (Full' <=> Full) /\ (Empty' <=> Empty)
  BY RingUnchanged DEF history
<1>2. TypeOK' /\ Roles' /\ Decisions'
  BY ThreadsAssumption, <1>1 DEF IInv, TypeOK, Roles, Decisions, Goto, Labels, Inside,
     Threads, MonitorTypeOK, monitor, ring, history, Unlock
<1>3. NoLostWakeup' /\ Drained'
  BY ThreadsAssumption, <1>1 DEF IInv, TypeOK, NoLostWakeup, Drained, Goto, Threads,
     monitor, ring, history, Roles, Decisions, ConsumerToBeWoken, ProducerToBeWoken,
     MonitorTypeOK, Inside, Unlock
<1>4. QED  BY <1>1, <1>2, <1>3 DEF IInv

----------------------------------------------------------------------------
LEMMA PopCallStep == ASSUME IInv, PopCall PROVE IInv'
<1> USE DEF PopCall
<1>1. RingOK' /\ (Full' <=> Full) /\ (Empty' <=> Empty)
  BY RingUnchanged DEF history
<1>2. TypeOK' /\ Roles' /\ Decisions'
  BY ThreadsAssumption, <1>1 DEF IInv, TypeOK, Roles, Decisions, Goto, Labels, Inside,
     Threads, MonitorTypeOK, monitor, ring, history
<1>3. NoLostWakeup' /\ Drained'
  BY ThreadsAssumption, <1>1 DEF IInv, TypeOK, NoLostWakeup, Drained, Goto, Threads,
     monitor, ring, history, Roles, Decisions, ConsumerToBeWoken, ProducerToBeWoken,
     MonitorTypeOK, Inside
<1>4. QED  BY <1>1, <1>2, <1>3 DEF IInv

LEMMA PopTestStep == ASSUME IInv, PopTest PROVE IInv'
<1> USE DEF PopTest
<1>1. RingOK' /\ (Full' <=> Full) /\ (Empty' <=> Empty)
  BY RingUnchanged DEF history
<1>2. TypeOK' /\ Roles' /\ Decisions'
  BY ThreadsAssumption, <1>1 DEF IInv, TypeOK, Roles, Decisions, Goto, Labels, Inside,
     Threads, MonitorTypeOK, monitor, ring, history
<1>3. NoLostWakeup' /\ Drained'
  BY ThreadsAssumption, <1>1 DEF IInv, TypeOK, NoLostWakeup, Drained, Goto, Threads,
     monitor, ring, history, Roles, Decisions, ConsumerToBeWoken, ProducerToBeWoken,
     MonitorTypeOK, Inside
<1>4. QED  BY <1>1, <1>2, <1>3 DEF IInv

LEMMA PopSleepStep == ASSUME IInv, PopSleep PROVE IInv'
<1> USE DEF PopSleep
<1>1. RingOK' /\ (Full' <=> Full) /\ (Empty' <=> Empty)
  BY RingUnchanged DEF history
<1>2. TypeOK' /\ Roles' /\ Decisions'
  BY ThreadsAssumption, <1>1 DEF IInv, TypeOK, Roles, Decisions, Goto, Labels, Inside,
     Threads, MonitorTypeOK, monitor, ring, history, Sleep, Conditions
<1>3. NoLostWakeup' /\ Drained'
  BY ThreadsAssumption, <1>1 DEF IInv, TypeOK, NoLostWakeup, Drained, Goto, Threads,
     monitor, ring, history, Roles, Decisions, ConsumerToBeWoken, ProducerToBeWoken,
     MonitorTypeOK, Inside, Sleep, Conditions
<1>4. QED  BY <1>1, <1>2, <1>3 DEF IInv

LEMMA PopRemoveStep == ASSUME IInv, PopRemove PROVE IInv'
<1> USE DEF PopRemove
<1> DEFINE w == Len(sent)
           r == Len(got)
           i == r % BufferCapacity
           x == msg_q_[i]
<1>1. /\ w \in Nat /\ r \in Nat /\ r < w /\ w <= r + Capacity
      /\ head_ = i /\ i \in Slots /\ r \in r .. w - 1
      /\ got \in Seq(Items) /\ sent \in Seq(Items) /\ sent' = sent /\ tail_' = tail_
  BY Counts, SlotOf, CapacityAssumption DEF IInv, TypeOK, Decisions, RingOK
<1>2. x = sent[r + 1] /\ x \in Items
  BY <1>1, ElementOfSeq DEF IInv, RingOK
<1>3. got' = Append(got, x)
  BY <1>1
<1> HIDE DEF x
<1>4. /\ got' \in Seq(Items) /\ Len(got') = r + 1
      /\ \A n \in 1 .. r : got'[n] = got[n]
      /\ got'[r + 1] = x
  BY <1>1, <1>2, <1>3, AppendProperties
<1>5. head_' = (r + 1) % BufferCapacity /\ head_' \in Slots
  BY <1>1, AdvanceSlot, SlotOf
<1>6. msg_q_' \in [Slots -> Items \cup {NoItem}]
  BY <1>1 DEF IInv, TypeOK
<1>7. ASSUME NEW n \in r + 1 .. w - 1 PROVE msg_q_'[n % BufferCapacity] = sent[n + 1]
  <2>1. n \in Nat /\ r < n /\ n - r < BufferCapacity /\ n \in r .. w - 1
    BY <1>1, CapacityAssumption DEF BufferCapacity
  <2>2. n % BufferCapacity # i /\ n % BufferCapacity \in Slots
    BY <2>1, <1>1, SlotsDiffer, SlotOf
  <2>3. msg_q_'[n % BufferCapacity] = msg_q_[n % BufferCapacity]
    BY <2>2, <1>1 DEF IInv, TypeOK
  <2>4. QED  BY <2>1, <2>3 DEF IInv, RingOK
<1>8. RingOK'
  <2>1. Len(got') <= Len(sent) /\ Len(sent) <= Len(got') + Capacity
    BY <1>1, <1>4, CapacityAssumption
  <2>2. ASSUME NEW n \in 1 .. r + 1 PROVE got'[n] = sent[n]
    <3>1. CASE n = r + 1  BY <3>1, <1>2, <1>4
    <3>2. CASE n \in 1 .. r  BY <3>2, <1>4 DEF IInv, RingOK
    <3>3. QED  BY <3>1, <3>2, <1>1
  <2>3. tail_ = Len(sent) % BufferCapacity  BY DEF IInv, RingOK
  <2>4. QED  BY <1>1, <1>4, <1>5, <1>7, <2>1, <2>2, <2>3 DEF RingOK
<1>9. ~Full'
  <2>1. IsFull((r + 1) % BufferCapacity, w % BufferCapacity) <=> w = r + 1 + Capacity
    BY <1>1, FullMeansFull, CapacityAssumption
  <2>2. QED  BY <1>1, <1>5, <2>1, CapacityAssumption DEF Full, IInv, RingOK
<1>10. TypeOK' /\ Roles'
  BY ThreadsAssumption, <1>4, <1>5, <1>6 DEF IInv, TypeOK, Roles, Goto, Labels, Inside,
     Threads, MonitorTypeOK, monitor
<1>11. Decisions'
  BY ThreadsAssumption, <1>1, <1>9 DEF IInv, TypeOK, Roles, Decisions, Goto, Threads,
     Inside, monitor
<1>12. NoLostWakeup' /\ Drained'
  <2>1. pc'[Consumer] = "notify" /\ waiting' = waiting
    BY ThreadsAssumption DEF IInv, TypeOK, Goto, Threads, monitor
  <2>2. Consumer \notin waiting["not_empty"]
    BY DEF IInv, Roles
  <2>3. QED
    BY <1>1, <2>1, <2>2 DEF IInv, NoLostWakeup, ProducerToBeWoken, Drained
<1>13. QED  BY <1>8, <1>10, <1>11, <1>12 DEF IInv

LEMMA PopNotifyStep == ASSUME IInv, PopNotify PROVE IInv'
<1> USE DEF PopNotify
<1>1. RingOK' /\ (Full' <=> Full) /\ (Empty' <=> Empty)
  BY RingUnchanged DEF history
<1>2. TypeOK' /\ Roles' /\ Decisions'
  BY ThreadsAssumption, <1>1 DEF IInv, TypeOK, Roles, Decisions, Goto, Labels, Inside,
     Threads, MonitorTypeOK, monitor, ring, history, NotifyOne, Conditions
<1>3. NoLostWakeup' /\ Drained'
  BY ThreadsAssumption, <1>1 DEF IInv, TypeOK, NoLostWakeup, Drained, Goto, Threads,
     monitor, ring, history, Roles, Decisions, ConsumerToBeWoken, ProducerToBeWoken,
     MonitorTypeOK, Inside, NotifyOne, Conditions
<1>4. QED  BY <1>1, <1>2, <1>3 DEF IInv

LEMMA PopReturnStep == ASSUME IInv, PopReturn PROVE IInv'
<1> USE DEF PopReturn
<1>1. RingOK' /\ (Full' <=> Full) /\ (Empty' <=> Empty)
  BY RingUnchanged DEF history
<1>2. TypeOK' /\ Roles' /\ Decisions'
  BY ThreadsAssumption, <1>1 DEF IInv, TypeOK, Roles, Decisions, Goto, Labels, Inside,
     Threads, MonitorTypeOK, monitor, ring, history, Unlock
<1>3. NoLostWakeup'
  BY ThreadsAssumption, <1>1 DEF IInv, TypeOK, NoLostWakeup, Goto, Threads, monitor,
     ring, Roles, ConsumerToBeWoken, ProducerToBeWoken, Inside, Unlock
<1>d. Drained'
  <2>1. CASE pc[Consumer] = "refuse"
    BY <2>1, Counts DEF IInv, Decisions, Drained
  <2>2. CASE pc[Consumer] # "refuse"
    <3>1. ended' => ended  BY <2>2
    <3>2. QED  BY <3>1 DEF IInv, Drained
  <2>3. QED  BY <2>1, <2>2
<1>4. QED  BY <1>1, <1>2, <1>3, <1>d DEF IInv

----------------------------------------------------------------------------
LEMMA CloseEnterStep == ASSUME IInv, NEW t \in Closers, CloseEnter(t) PROVE IInv'
<1> USE DEF CloseEnter
<1>1. RingOK' /\ (Full' <=> Full) /\ (Empty' <=> Empty)
  BY RingUnchanged DEF history
<1>2. TypeOK' /\ Roles' /\ Decisions'
  BY ThreadsAssumption, <1>1 DEF IInv, TypeOK, Roles, Decisions, Goto, Labels, Inside,
     Threads, MonitorTypeOK, monitor, ring, history, Lock, Asleep, Conditions
<1>3. NoLostWakeup' /\ Drained'
  BY ThreadsAssumption, <1>1 DEF IInv, TypeOK, NoLostWakeup, Drained, Goto, Threads,
     monitor, ring, history, Roles, Decisions, ConsumerToBeWoken, ProducerToBeWoken,
     MonitorTypeOK, Inside, Lock, Asleep, Conditions
<1>4. QED  BY <1>1, <1>2, <1>3 DEF IInv

LEMMA CloseStoreStep == ASSUME IInv, NEW t \in Closers, CloseStore(t) PROVE IInv'
<1> USE DEF CloseStore
<1>1. RingOK' /\ (Full' <=> Full) /\ (Empty' <=> Empty)
  BY RingUnchanged DEF history
<1>2. TypeOK' /\ Roles' /\ Decisions'
  BY ThreadsAssumption, <1>1 DEF IInv, TypeOK, Roles, Decisions, Goto, Labels, Inside,
     Threads, MonitorTypeOK, monitor, ring, history
<1>3. NoLostWakeup' /\ Drained'
  BY ThreadsAssumption, <1>1 DEF IInv, TypeOK, NoLostWakeup, Drained, Goto, Threads,
     monitor, ring, history, Roles, Decisions, ConsumerToBeWoken, ProducerToBeWoken,
     MonitorTypeOK, Inside
<1>4. QED  BY <1>1, <1>2, <1>3 DEF IInv

LEMMA CloseLeaveStep == ASSUME IInv, NEW t \in Closers, CloseLeave(t) PROVE IInv'
<1> USE DEF CloseLeave
<1>1. RingOK' /\ (Full' <=> Full) /\ (Empty' <=> Empty)
  BY RingUnchanged DEF history
<1>2. TypeOK' /\ Roles' /\ Decisions'
  BY ThreadsAssumption, <1>1 DEF IInv, TypeOK, Roles, Decisions, Goto, Labels, Inside,
     Threads, MonitorTypeOK, monitor, ring, history, Unlock
<1>3. NoLostWakeup' /\ Drained'
  BY ThreadsAssumption, <1>1 DEF IInv, TypeOK, NoLostWakeup, Drained, Goto, Threads,
     monitor, ring, history, Roles, Decisions, ConsumerToBeWoken, ProducerToBeWoken,
     MonitorTypeOK, Inside, Unlock
<1>4. QED  BY <1>1, <1>2, <1>3 DEF IInv

LEMMA CloseWakeProducerStep == ASSUME IInv, NEW t \in Closers, CloseWakeProducer(t) PROVE IInv'
<1> USE DEF CloseWakeProducer
<1>1. RingOK' /\ (Full' <=> Full) /\ (Empty' <=> Empty)
  BY RingUnchanged DEF history
<1>2. TypeOK' /\ Roles' /\ Decisions'
  BY ThreadsAssumption, <1>1 DEF IInv, TypeOK, Roles, Decisions, Goto, Labels, Inside,
     Threads, MonitorTypeOK, monitor, ring, history, NotifyAll, Conditions
<1>3. NoLostWakeup' /\ Drained'
  BY ThreadsAssumption, <1>1 DEF IInv, TypeOK, NoLostWakeup, Drained, Goto, Threads,
     monitor, ring, history, Roles, Decisions, ConsumerToBeWoken, ProducerToBeWoken,
     MonitorTypeOK, Inside, NotifyAll, Conditions
<1>4. QED  BY <1>1, <1>2, <1>3 DEF IInv

LEMMA CloseWakeConsumerStep == ASSUME IInv, NEW t \in Closers, CloseWakeConsumer(t) PROVE IInv'
<1> USE DEF CloseWakeConsumer
<1>1. RingOK' /\ (Full' <=> Full) /\ (Empty' <=> Empty)
  BY RingUnchanged DEF history
<1>2. TypeOK' /\ Roles' /\ Decisions'
  BY ThreadsAssumption, <1>1 DEF IInv, TypeOK, Roles, Decisions, Goto, Labels, Inside,
     Threads, MonitorTypeOK, monitor, ring, history, NotifyAll, Conditions
<1>3. NoLostWakeup' /\ Drained'
  BY ThreadsAssumption, <1>1 DEF IInv, TypeOK, NoLostWakeup, Drained, Goto, Threads,
     monitor, ring, history, Roles, Decisions, ConsumerToBeWoken, ProducerToBeWoken,
     MonitorTypeOK, Inside, NotifyAll, Conditions
<1>4. QED  BY <1>1, <1>2, <1>3 DEF IInv

LEMMA SpuriousWakeupStep == ASSUME IInv, NEW t \in {Producer, Consumer}, SpuriousWakeup(t) PROVE IInv'
<1> USE DEF SpuriousWakeup
<1>1. RingOK' /\ (Full' <=> Full) /\ (Empty' <=> Empty)
  BY RingUnchanged DEF history
<1>2. TypeOK' /\ Roles' /\ Decisions'
  BY ThreadsAssumption, <1>1 DEF IInv, TypeOK, Roles, Decisions, Goto, Labels, Inside,
     Threads, MonitorTypeOK, monitor, ring, history, WakeSpuriously, Conditions
<1>3. NoLostWakeup' /\ Drained'
  BY ThreadsAssumption, <1>1 DEF IInv, TypeOK, NoLostWakeup, Drained, Goto, Threads,
     monitor, ring, history, Roles, Decisions, ConsumerToBeWoken, ProducerToBeWoken,
     MonitorTypeOK, Inside, WakeSpuriously, Conditions
<1>4. QED  BY <1>1, <1>2, <1>3 DEF IInv

LEMMA NextIInv == IInv /\ [Next]_vars => IInv'
<1> SUFFICES ASSUME IInv, [Next]_vars PROVE IInv'
  OBVIOUS
<1>1. CASE Push
  BY <1>1, PushCallStep, PushTestStep, PushSleepStep, PushInsertStep, PushNotifyStep,
     PushReturnStep DEF Push
<1>2. CASE Pop
  BY <1>2, PopCallStep, PopTestStep, PopSleepStep, PopRemoveStep, PopNotifyStep,
     PopReturnStep DEF Pop
<1>3. ASSUME NEW t \in {Producer, Consumer}, Enter(t) \/ SpuriousWakeup(t) PROVE IInv'
  BY <1>3, EnterStep, SpuriousWakeupStep
<1>4. ASSUME NEW t \in Closers, CloseEnter(t) \/ Closing(t) PROVE IInv'
  BY <1>4, CloseEnterStep, CloseStoreStep, CloseLeaveStep, CloseWakeProducerStep,
     CloseWakeConsumerStep DEF Closing
<1>5. CASE UNCHANGED vars
  BY <1>5 DEF vars, ring, monitor, history, IInv, TypeOK, MonitorTypeOK, Roles, Decisions,
     RingOK, NoLostWakeup, Drained, Full, Empty, ConsumerToBeWoken, ProducerToBeWoken
<1>6. QED  BY <1>1, <1>2, <1>3, <1>4, <1>5 DEF Next

THEOREM Inductive == Spec => []IInv
<1>1. QED  BY InitIInv, NextIInv, PTL DEF Spec

(* Every index is the index of a slot and mtx_ has at most one owner, which *)
(* is a thread of the program (the fields of SPSCBlockingQueue).            *)
THEOREM TypeCorrect == Spec => []TypeOK
<1>1. IInv => TypeOK  BY DEF IInv
<1>2. QED  BY <1>1, Inductive, PTL

(* push(), pop() and close() of spsc_blocking_queue.h lose no wake-up,      *)
(* whatever the capacity and however many threads close the queue.          *)
THEOREM NoWakeupIsLost == Spec => []NoLostWakeup
<1>1. IInv => NoLostWakeup  BY DEF IInv
<1>2. QED  BY <1>1, Inductive, PTL

(* A consumer that was answered false has been given everything that was    *)
(* and ever will be pushed.                                                 *)
THEOREM FalseEndsTheStream == Spec => []EndOfStream
<1>1. IInv => EndOfStream
  <2> SUFFICES ASSUME IInv, ended PROVE is_closed_ /\ got = sent
    BY DEF EndOfStream
  <2>1. is_closed_ /\ Len(got) = Len(sent)  BY DEF IInv, Drained
  <2>2. got \in Seq(Items) /\ sent \in Seq(Items)  BY DEF IInv, TypeOK
  <2>3. \A n \in 1 .. Len(got) : got[n] = sent[n]  BY DEF IInv, RingOK
  <2>4. QED  BY <2>1, <2>2, <2>3, SeqEqual
<1>2. QED  BY <1>1, Inductive, PTL

(* The blocking queue implements the bounded FIFO with close(): an item     *)
(* goes in at the store of tail_, and never after the store of is_closed_.  *)
THEOREM ImplementsFifo == Spec => FifoSpec
<1> DEFINE queue == SubSeq(sent, Len(got) + 1, Len(sent))
<1>1. Init => Fifo!Init
  <2>1. SubSeq(<<>>, 1, 0) = <<>>  BY SubSeqEmpty
  <2>2. QED  BY <2>1 DEF Init, Fifo!Init
<1>2. IInv /\ [Next]_vars => [Fifo!Next]_(Fifo!vars)
  <2> SUFFICES ASSUME IInv, [Next]_vars PROVE [Fifo!Next]_(Fifo!vars)
    OBVIOUS
  <2>0. /\ Len(sent) \in Nat /\ Len(got) \in 0 .. Len(sent) /\ sent \in Seq(Items)
        /\ got \in Seq(Items)
    BY Counts DEF IInv, TypeOK, RingOK
  <2>1. CASE PushInsert
    <3>1. /\ sent' = Append(sent, item) /\ got' = got /\ is_closed_' = is_closed_
          /\ item \in Items /\ ~is_closed_
          /\ Len(sent) < Len(got) + Capacity
      BY <2>1, Counts, CapacityAssumption DEF PushInsert, IInv, Decisions, RingOK
    <3>2. Len(queue) < Capacity
      BY <3>1, <2>0, RestOf, CapacityAssumption
    <3>3. queue' = Append(queue, item)
      BY <3>1, <2>0, RestOfAppend
    <3>4. Fifo!Put(item)  BY <3>1, <3>2, <3>3 DEF Fifo!Put
    <3>5. QED  BY <3>1, <3>4 DEF Fifo!Next
  <2>2. CASE PopRemove
    <3>1. /\ Len(got) < Len(sent) /\ sent' = sent /\ is_closed_' = is_closed_
          /\ got' = Append(got, sent[Len(got) + 1])
      BY <2>2, <2>0, Counts DEF PopRemove, IInv, Decisions, RingOK
    <3>2. Len(got) + 1 \in 1 .. Len(sent) /\ sent[Len(got) + 1] \in Items
      BY <3>1, <2>0, ElementOfSeq
    <3>3. Len(got') = Len(got) + 1
      BY <3>1, <3>2, <2>0, AppendProperties
    <3>4. Len(sent) \in Len(got) + 1 .. Len(sent)
      BY <3>2, <2>0
    <3>5. Head(queue) = sent[Len(got) + 1] /\ Tail(queue) = queue'
      BY <3>1, <3>2, <3>3, <3>4, <2>0, HeadTailOfSubSeq
    <3>6. queue # <<>>
      <4>1. Len(queue) = Len(sent) - Len(got)  BY <2>0, RestOf
      <4>2. QED  BY <4>1, <3>1, <2>0
    <3>7. Fifo!Take  BY <3>1, <3>5, <3>6 DEF Fifo!Take
    <3>8. QED  BY <3>7 DEF Fifo!Next
  <2>3. ASSUME NEW t \in Closers, CloseStore(t) PROVE [Fifo!Next]_(Fifo!vars)
    <3>1. Fifo!Close  BY <2>3 DEF CloseStore, Fifo!Close, history
    <3>2. QED  BY <3>1 DEF Fifo!Next
  <2>4. CASE UNCHANGED <<sent, got, is_closed_>>
    BY <2>4 DEF Fifo!vars
  <2>5. ASSUME ~PushInsert, ~PopRemove, \A t \in Closers : ~CloseStore(t)
        PROVE  UNCHANGED <<sent, got, is_closed_>>
    BY <2>5 DEF Next, vars, history, Push, Pop, PushCall, PushTest, PushSleep, PushNotify,
       PushReturn, PopCall, PopTest, PopSleep, PopNotify, PopReturn, Enter, SpuriousWakeup,
       CloseEnter, Closing, CloseLeave, CloseWakeProducer, CloseWakeConsumer
  <2>6. QED  BY <2>1, <2>2, <2>3, <2>4, <2>5
<1>3. QED  BY <1>1, <1>2, Inductive, PTL DEF Spec, FifoSpec, Fifo!Spec
=============================================================================
