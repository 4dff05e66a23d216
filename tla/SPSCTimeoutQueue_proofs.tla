---------------------- MODULE SPSCTimeoutQueue_proofs ----------------------
(***************************************************************************)
(* Safety of the timeout queue for every capacity, all durations and every *)
(* set of closing threads.  The argument is that of the blocking queue:    *)
(* what a call found out under the mutex is still so when it acts.  A      *)
(* timeout only wakes a thread, which must lock the mutex and look again.  *)
(***************************************************************************)
EXTENDS SPSCTimeoutQueue, RingIndex_proofs

(* buffer_ happens to get enough slots: with fewer, the first push that     *)
(* writes behind them is undefined (SlotIsAllocated is violated).           *)
Allocated == \A size \in InitialSizes : BufferCapacity <= size

----------------------------------------------------------------------------
Labels == {"idle", "enter", "test", "sleep", "act", "notify", "leave", "refuse",
           "close", "unlock", "wakeProducer", "wakeConsumer"}
CallRecords == [mode : {"block", "timed", "try"}, asked : Nat, left : Nat, passed : Nat,
                begun : BOOLEAN]

(* Every variable holds a value of its C++ type. *)
TypeOK == /\ \E size \in InitialSizes : buffer_ \in [0 .. size - 1 -> Items \cup {NoItem}]
          /\ head_ \in Slots /\ tail_ \in Slots
          /\ closed_ \in BOOLEAN /\ ended \in BOOLEAN
          /\ MonitorTypeOK
          /\ pc \in [Threads -> Labels]
          /\ item \in Items \cup {NoItem}
          /\ sent \in Seq(Items) /\ got \in Seq(Items)
          /\ call \in [Callers -> CallRecords]

Inside == {"test", "sleep", "act", "notify", "leave", "refuse", "close", "unlock"}

(* Each thread runs its own operation; those inside hold the mutex; those   *)
(* asleep are about to lock it again.                                       *)
Roles == /\ \A t \in Callers : /\ pc[t] \in {"idle", "enter", "test", "sleep", "act",
                                             "notify", "leave", "refuse"}
                               /\ t \in waiting[ConditionOf(t)] => pc[t] = "enter"
         /\ \A t \in Closers : pc[t] \in {"idle", "close", "unlock", "wakeProducer",
                                          "wakeConsumer"}
         /\ \A t \in Threads : pc[t] \in Inside => owner = t
         /\ waiting["not_full"] \subseteq {Producer}
         /\ waiting["not_empty"] \subseteq {Consumer}

(* What a thread found true of the queue is true until it acts on it.       *)
Decisions ==
    /\ pc[Producer] # "idle" => item \in Items
    /\ \A t \in Callers :
         /\ pc[t] = "sleep"  => ~WaitedFor(t)
         /\ pc[t] = "act"    => Possible(t)
         /\ pc[t] = "refuse" => ~Possible(t)
         /\ pc[t] = "refuse" /\ call[t].mode = "block" => closed_
    /\ \A t \in Closers : pc[t] \in {"unlock", "wakeProducer", "wakeConsumer"} => closed_

(* The ring holds the items pushed and not yet popped. *)
RingOK ==
    /\ Len(got) <= Len(sent) /\ Len(sent) <= Len(got) + Capacity
    /\ tail_ = Len(sent) % BufferCapacity
    /\ head_ = Len(got) % BufferCapacity
    /\ \A n \in Len(got) .. Len(sent) - 1 : buffer_[n % BufferCapacity] = sent[n + 1]
    /\ \A n \in 1 .. Len(got) : got[n] = sent[n]

Drained == ended => closed_ /\ Len(got) = Len(sent)

IInv == TypeOK /\ Roles /\ Decisions /\ RingOK /\ NoLostWakeup /\ Drained

(* A timed call has passed, or has left to wait, the whole milliseconds of  *)
(* what it was asked; one that gives up on an open queue has nothing left.  *)
Waiting(c) == c.passed <= c.asked /\ WholeMs(c.asked) <= c.passed + c.left
Clocks == \A t \in Callers : call[t].mode = "timed" =>
    /\ Waiting(call[t])
    /\ pc[t] = "refuse" /\ ~closed_ => call[t].passed >= WholeMs(call[t].asked)

----------------------------------------------------------------------------
LEMMA RoundDownType == ASSUME NEW d \in Nat PROVE RoundDown(d) \in Nat
<1>1. d \div TicksPerMs \in Nat /\ TicksPerMs \in Nat  BY TimeAssumption
<1>2. QED  BY <1>1 DEF RoundDown

LEMMA NewCallType == Calls \subseteq CallRecords /\ NewCall("try", 0) \in CallRecords
<1>1. ASSUME NEW m \in {"block", "timed", "try"}, NEW d \in Nat
      PROVE  NewCall(m, d) \in CallRecords
  BY RoundDownType DEF NewCall, CallRecords
<1>2. QED  BY <1>1, TimeAssumption DEF Calls

(* Producer, consumer and closers are distinct; the two conditions. *)
LEMMA Parties ==
    /\ Producer \in Threads /\ Consumer \in Threads /\ Producer # Consumer
    /\ Callers = {Producer, Consumer} /\ Callers \subseteq Threads
    /\ Closers \subseteq Threads /\ NoThread \notin Threads
    /\ \A t \in Closers : t # Producer /\ t # Consumer
    /\ ConditionOf(Producer) = "not_full" /\ ConditionOf(Consumer) = "not_empty"
BY ThreadsAssumption DEF Threads, Callers, ConditionOf

LEMMA InitIInv == Allocated /\ Init => IInv
<1> SUFFICES ASSUME Allocated, Init PROVE IInv
  OBVIOUS
<1>1. 0 % BufferCapacity = 0 /\ 0 \in Slots
  <2>1. 0 = BufferCapacity * 0 + 0 /\ 0 \in 0 .. BufferCapacity - 1
    BY BufferCapacityType
  <2>2. QED  BY <2>1, BufferCapacityType, ModUnique DEF Slots
<1>2. TypeOK
  <2>1. MonitorTypeOK  BY DEF Init, MonitorInit, MonitorTypeOK
  <2>2. pc \in [Threads -> Labels]  BY DEF Init, Labels
  <2>3. sent \in Seq(Items) /\ got \in Seq(Items)  BY DEF Init
  <2>4. call \in [Callers -> CallRecords]  BY NewCallType DEF Init
  <2>5. \E size \in InitialSizes : buffer_ \in [0 .. size - 1 -> Items \cup {NoItem}]
    BY DEF Init
  <2>6. QED  BY <1>1, <2>1, <2>2, <2>3, <2>4, <2>5 DEF Init, TypeOK
<1>3. Roles
  BY Parties DEF Init, Roles, MonitorInit, Inside, Conditions
<1>4. Decisions
  BY Parties DEF Init, Decisions
<1>5. Len(sent) = 0 /\ Len(got) = 0
  BY DEF Init
<1>6. RingOK
  BY <1>1, <1>5, CapacityAssumption DEF Init, RingOK
<1>7. NoLostWakeup /\ Drained
  BY Parties DEF Init, NoLostWakeup, Drained, MonitorInit, Conditions
<1>8. QED  BY <1>2, <1>3, <1>4, <1>6, <1>7 DEF IInv

(* The two counts; Full and Empty in terms of them. *)
LEMMA Counts ==
    ASSUME IInv
    PROVE  /\ Len(sent) \in Nat /\ Len(got) \in Nat
           /\ Full <=> Len(sent) = Len(got) + Capacity
           /\ Empty <=> Len(sent) = Len(got)
<1>1. Len(sent) \in Nat /\ Len(got) \in Nat
  BY LenProperties DEF IInv, TypeOK
<1>2. Full <=> Len(sent) = Len(got) + Capacity
  BY <1>1, FullMeansFull DEF IInv, RingOK, Full
<1>3. Empty <=> Len(sent) = Len(got)
  BY <1>1, EmptyMeansEmpty DEF IInv, RingOK, Empty
<1>4. QED  BY <1>1, <1>2, <1>3

(* Every slot of the ring is one of buffer_. *)
LEMMA SlotsAllocated ==
    ASSUME Allocated, IInv, NEW i \in Slots, NEW x \in Items \cup {NoItem},
           buffer_' = [buffer_ EXCEPT ![i] = x]
    PROVE  /\ \E size \in InitialSizes : buffer_' \in [0 .. size - 1 -> Items \cup {NoItem}]
           /\ buffer_'[i] = x
           /\ \A j \in Slots : j # i => buffer_'[j] = buffer_[j]
<1>1. PICK size \in InitialSizes : buffer_ \in [0 .. size - 1 -> Items \cup {NoItem}]
  BY DEF IInv, TypeOK
<1>2. Slots \subseteq 0 .. size - 1
  BY BufferCapacityType, SizesAssumption DEF Allocated, Slots
<1>3. QED  BY <1>1, <1>2

(* A step that leaves the ring and the history of items alone. *)
LEMMA RingUnchanged ==
    ASSUME IInv, UNCHANGED <<ring, sent, got>>
    PROVE  RingOK' /\ (Full' <=> Full) /\ (Empty' <=> Empty)
BY DEF IInv, RingOK, ring, Full, Empty

----------------------------------------------------------------------------
LEMMA PushCallStep == ASSUME IInv, NEW x \in Items, NEW c \in Calls, PushCall(x, c) PROVE IInv'
<1> USE DEF PushCall
<1>1. RingOK' /\ (Full' <=> Full) /\ (Empty' <=> Empty)
  BY RingUnchanged DEF history
<1>2. call' \in [Callers -> CallRecords]
  BY NewCallType DEF IInv, TypeOK
<1>3. TypeOK' /\ Roles'
  <2>1. TypeOK'
    BY Parties, <1>2 DEF IInv, TypeOK, Goto, Labels, MonitorTypeOK, monitor, ring, history
  <2>2. Roles'
    BY Parties DEF IInv, TypeOK, Roles, Goto, Inside, monitor, ConditionOf
  <2>3. QED  BY <2>1, <2>2
<1>4. Decisions'
  BY Parties, <1>1, <1>2 DEF IInv, TypeOK, Roles, Decisions, Goto, Inside, monitor, ring,
     history, Possible, WaitedFor
<1>5. NoLostWakeup'
  BY Parties, <1>1 DEF IInv, TypeOK, NoLostWakeup, Goto, monitor, ring, history, Roles,
     Decisions, ToBeWoken, WaitedFor, MonitorTypeOK, Inside, ConditionOf
<1>6. Drained'
  BY DEF IInv, Drained, history
<1>7. QED  BY <1>1, <1>3, <1>4, <1>5, <1>6 DEF IInv

LEMMA PopCallStep == ASSUME IInv, NEW c \in Calls, PopCall(c) PROVE IInv'
<1> USE DEF PopCall
<1>1. RingOK' /\ (Full' <=> Full) /\ (Empty' <=> Empty)
  BY RingUnchanged DEF history
<1>2. call' \in [Callers -> CallRecords]
  BY NewCallType DEF IInv, TypeOK
<1>3. TypeOK' /\ Roles'
  BY Parties, <1>2 DEF IInv, TypeOK, Roles, Goto, Labels, Inside, MonitorTypeOK, monitor,
     ring, history, ConditionOf
<1>4. Decisions'
  BY Parties, <1>1, <1>2 DEF IInv, TypeOK, Roles, Decisions, Goto, Inside, monitor, ring,
     history, Possible, WaitedFor
<1>5. NoLostWakeup'
  BY Parties, <1>1 DEF IInv, TypeOK, NoLostWakeup, Goto, monitor, ring, history, Roles,
     Decisions, ToBeWoken, WaitedFor, MonitorTypeOK, Inside, ConditionOf
<1>6. Drained'
  BY DEF IInv, Drained, history
<1>7. QED  BY <1>1, <1>3, <1>4, <1>5, <1>6 DEF IInv

LEMMA EnterStep == ASSUME IInv, NEW t \in Callers, Enter(t) PROVE IInv'
<1> USE DEF Enter
<1>1. RingOK' /\ (Full' <=> Full) /\ (Empty' <=> Empty)
  BY RingUnchanged DEF history
<1>2. call' \in [Callers -> CallRecords]
  BY DEF IInv, TypeOK
<1>3. TypeOK' /\ Roles'
  BY Parties, <1>2 DEF IInv, TypeOK, Roles, Goto, Labels, Inside, MonitorTypeOK, monitor,
     ring, history, ConditionOf, Lock, Asleep, Conditions
<1>4. Decisions'
  BY Parties, <1>1, <1>2 DEF IInv, TypeOK, Roles, Decisions, Goto, Inside, monitor, ring,
     history, Possible, WaitedFor, Lock, Asleep, Conditions
<1>5. NoLostWakeup'
  BY Parties, <1>1 DEF IInv, TypeOK, NoLostWakeup, Goto, monitor, ring, history, Roles,
     Decisions, ToBeWoken, WaitedFor, MonitorTypeOK, Inside, ConditionOf, Lock, Asleep, Conditions
<1>6. Drained'
  BY DEF IInv, Drained, history
<1>7. QED  BY <1>1, <1>3, <1>4, <1>5, <1>6 DEF IInv

LEMMA TestStep == ASSUME IInv, NEW t \in Callers, Test(t) PROVE IInv'
<1> USE DEF Test
<1>1. RingOK' /\ (Full' <=> Full) /\ (Empty' <=> Empty)
  BY RingUnchanged DEF history
<1>2. call' \in [Callers -> CallRecords]
  BY DEF IInv, TypeOK, CallRecords
<1>3. TypeOK'
  BY Parties, <1>2 DEF IInv, TypeOK, Goto, Labels, MonitorTypeOK, monitor, ring, history
<1>7. Roles'
  <2>1. pc'[t] \in {"act", "refuse", "sleep"} /\ pc[t] = "test"
        /\ \A u \in Threads \ {t} : pc'[u] = pc[u]
    BY Parties DEF IInv, TypeOK, Goto
  <2>2. UNCHANGED <<owner, waiting>>  BY DEF monitor
  <2>3. t \notin waiting[ConditionOf(t)]  BY <2>1 DEF IInv, Roles
  <2>4. \A u \in Closers : u # t  BY Parties
  <2> HIDE DEF Test
  <2>5. \A u \in Callers :
           /\ pc'[u] \in {"idle", "enter", "test", "sleep", "act", "notify", "leave", "refuse"}
           /\ u \in waiting'[ConditionOf(u)] => pc'[u] = "enter"
    BY <2>1, <2>2, <2>3, Parties DEF IInv, Roles
  <2>6. \A u \in Closers : pc'[u] = pc[u]
    BY <2>1, <2>4, Parties
  <2>7. \A u \in Threads : pc'[u] \in Inside => owner' = u
    BY <2>1, <2>2, Parties DEF IInv, Roles, Inside
  <2>8. QED  BY <2>2, <2>5, <2>6, <2>7 DEF IInv, Roles
<1>4. Decisions'
  BY Parties, <1>1, <1>2 DEF IInv, TypeOK, Roles, Decisions, Goto, Inside, monitor, ring,
     history, Possible, WaitedFor, MustNotWait, CallRecords
<1>5. NoLostWakeup'
  BY Parties, <1>1 DEF IInv, TypeOK, NoLostWakeup, Goto, monitor, ring, history, Roles,
     Decisions, ToBeWoken, WaitedFor, MonitorTypeOK, Inside, ConditionOf
<1>6. Drained'
  BY DEF IInv, Drained, history
<1>8. QED  BY <1>1, <1>3, <1>4, <1>5, <1>6, <1>7 DEF IInv

LEMMA SleepOnStep == ASSUME IInv, NEW t \in Callers, SleepOn(t) PROVE IInv'
<1> USE DEF SleepOn
<1>1. RingOK' /\ (Full' <=> Full) /\ (Empty' <=> Empty)
  BY RingUnchanged DEF history
<1>2. call' \in [Callers -> CallRecords]
  BY DEF IInv, TypeOK
<1>3. TypeOK' /\ Roles'
  BY Parties, <1>2 DEF IInv, TypeOK, Roles, Goto, Labels, Inside, MonitorTypeOK, monitor,
     ring, history, ConditionOf, Sleep, Conditions
<1>4. Decisions'
  BY Parties, <1>1, <1>2 DEF IInv, TypeOK, Roles, Decisions, Goto, Inside, monitor, ring,
     history, Possible, WaitedFor, Sleep, Conditions
<1>5. NoLostWakeup'
  BY Parties, <1>1 DEF IInv, TypeOK, NoLostWakeup, Goto, monitor, ring, history, Roles,
     Decisions, ToBeWoken, WaitedFor, MonitorTypeOK, Inside, ConditionOf, Sleep, Conditions
<1>6. Drained'
  BY DEF IInv, Drained, history
<1>7. QED  BY <1>1, <1>3, <1>4, <1>5, <1>6 DEF IInv

LEMMA TimeOutStep == ASSUME IInv, NEW t \in Callers, TimeOut(t) PROVE IInv'
<1> USE DEF TimeOut
<1>1. RingOK' /\ (Full' <=> Full) /\ (Empty' <=> Empty)
  BY RingUnchanged DEF history
<1>2. call' \in [Callers -> CallRecords]
  BY DEF IInv, TypeOK
<1>3. TypeOK' /\ Roles'
  BY Parties, <1>2 DEF IInv, TypeOK, Roles, Goto, Labels, Inside, MonitorTypeOK, monitor,
     ring, history, ConditionOf, WakeSpuriously, Conditions
<1>4. Decisions'
  BY Parties, <1>1, <1>2 DEF IInv, TypeOK, Roles, Decisions, Goto, Inside, monitor, ring,
     history, Possible, WaitedFor, WakeSpuriously, Conditions
<1>5. NoLostWakeup'
  BY Parties, <1>1 DEF IInv, TypeOK, NoLostWakeup, Goto, monitor, ring, history, Roles,
     Decisions, ToBeWoken, WaitedFor, MonitorTypeOK, Inside, ConditionOf, WakeSpuriously, Conditions
<1>6. Drained'
  BY DEF IInv, Drained, history
<1>7. QED  BY <1>1, <1>3, <1>4, <1>5, <1>6 DEF IInv

LEMMA SpuriousWakeupStep == ASSUME IInv, NEW t \in Callers, SpuriousWakeup(t) PROVE IInv'
<1> USE DEF SpuriousWakeup
<1>1. RingOK' /\ (Full' <=> Full) /\ (Empty' <=> Empty)
  BY RingUnchanged DEF history
<1>2. call' \in [Callers -> CallRecords]
  BY DEF IInv, TypeOK
<1>3. TypeOK' /\ Roles'
  BY Parties, <1>2 DEF IInv, TypeOK, Roles, Goto, Labels, Inside, MonitorTypeOK, monitor,
     ring, history, ConditionOf, WakeSpuriously, Conditions
<1>4. Decisions'
  BY Parties, <1>1, <1>2 DEF IInv, TypeOK, Roles, Decisions, Goto, Inside, monitor, ring,
     history, Possible, WaitedFor, WakeSpuriously, Conditions
<1>5. NoLostWakeup'
  BY Parties, <1>1 DEF IInv, TypeOK, NoLostWakeup, Goto, monitor, ring, history, Roles,
     Decisions, ToBeWoken, WaitedFor, MonitorTypeOK, Inside, ConditionOf, WakeSpuriously, Conditions
<1>6. Drained'
  BY DEF IInv, Drained, history
<1>7. QED  BY <1>1, <1>3, <1>4, <1>5, <1>6 DEF IInv

LEMMA TickedType ==
    ASSUME NEW c \in CallRecords
    PROVE  Ticked(c) \in CallRecords /\ Ticked(c).mode = c.mode /\ Ticked(c).asked = c.asked
<1> DEFINE left   == IF c.begun /\ c.left > 0 THEN c.left - 1 ELSE c.left
           passed == IF c.passed < c.asked THEN c.passed + 1 ELSE c.passed
<1>1. c.left \in Nat /\ c.passed \in Nat /\ c.asked \in Nat
  BY DEF CallRecords
<1>2. left \in Nat /\ passed \in Nat
  BY <1>1
<1>3. Ticked(c) = [c EXCEPT !.left = left, !.passed = passed]
  BY DEF Ticked, CallRecords
<1> HIDE DEF left, passed
<1>4. QED  BY <1>2, <1>3 DEF CallRecords

LEMMA TickStep == ASSUME IInv, Tick PROVE IInv'
<1> USE DEF Tick
<1>1. RingOK' /\ (Full' <=> Full) /\ (Empty' <=> Empty)
  BY RingUnchanged DEF history
<1>2. call' \in [Callers -> CallRecords]
  BY TickedType DEF IInv, TypeOK
<1>3. TypeOK' /\ Roles'
  BY Parties, <1>2 DEF IInv, TypeOK, Roles, Goto, Labels, Inside, MonitorTypeOK, monitor,
     ring, history, ConditionOf
<1>4. Decisions'
  BY Parties, <1>1, TickedType DEF IInv, TypeOK, Roles, Decisions, Goto, Inside, monitor, ring,
     history, Possible, WaitedFor
<1>5. NoLostWakeup'
  BY Parties, <1>1 DEF IInv, TypeOK, NoLostWakeup, Goto, monitor, ring, history, Roles,
     Decisions, ToBeWoken, WaitedFor, MonitorTypeOK, Inside, ConditionOf
<1>6. Drained'
  BY DEF IInv, Drained, history
<1>7. QED  BY <1>1, <1>3, <1>4, <1>5, <1>6 DEF IInv

LEMMA NotifyStep == ASSUME IInv, NEW t \in Callers, Notify(t) PROVE IInv'
<1> USE DEF Notify
<1>1. RingOK' /\ (Full' <=> Full) /\ (Empty' <=> Empty)
  BY RingUnchanged DEF history
<1>2. call' \in [Callers -> CallRecords]
  BY DEF IInv, TypeOK
<1>3. TypeOK' /\ Roles'
  BY Parties, <1>2 DEF IInv, TypeOK, Roles, Goto, Labels, Inside, MonitorTypeOK, monitor,
     ring, history, ConditionOf, NotifyOne, Conditions
<1>4. Decisions'
  BY Parties, <1>1, <1>2 DEF IInv, TypeOK, Roles, Decisions, Goto, Inside, monitor, ring,
     history, Possible, WaitedFor, NotifyOne, Conditions
<1>5. NoLostWakeup'
  BY Parties, <1>1 DEF IInv, TypeOK, NoLostWakeup, Goto, monitor, ring, history, Roles,
     Decisions, ToBeWoken, WaitedFor, MonitorTypeOK, Inside, ConditionOf, NotifyOne, Conditions
<1>6. Drained'
  BY DEF IInv, Drained, history
<1>7. QED  BY <1>1, <1>3, <1>4, <1>5, <1>6 DEF IInv

LEMMA ReturnStep == ASSUME IInv, NEW t \in Callers, Return(t) PROVE IInv'
<1> USE DEF Return
<1>1. RingOK' /\ (Full' <=> Full) /\ (Empty' <=> Empty)
  BY RingUnchanged DEF history
<1>2. call' \in [Callers -> CallRecords]
  BY DEF IInv, TypeOK
<1>3. TypeOK' /\ Roles'
  BY Parties, <1>2 DEF IInv, TypeOK, Roles, Goto, Labels, Inside, MonitorTypeOK, monitor,
     ring, history, ConditionOf, Unlock
<1>4. Decisions'
  BY Parties, <1>1, <1>2 DEF IInv, TypeOK, Roles, Decisions, Goto, Inside, monitor, ring,
     history, Possible, WaitedFor, Unlock
<1>5. NoLostWakeup'
  BY Parties, <1>1 DEF IInv, TypeOK, NoLostWakeup, Goto, monitor, ring, history, Roles,
     Decisions, ToBeWoken, WaitedFor, MonitorTypeOK, Inside, ConditionOf, Unlock
<1>6. Drained'
  <2>1. CASE t = Consumer /\ pc[t] = "refuse" /\ call[t].mode = "block"
    BY <2>1, Parties, Counts DEF IInv, Decisions, Drained, Possible
  <2>2. CASE ~(t = Consumer /\ pc[t] = "refuse" /\ call[t].mode = "block")
    BY <2>2 DEF IInv, TypeOK, Drained
  <2>3. QED  BY <2>1, <2>2
<1>7. QED  BY <1>1, <1>3, <1>4, <1>5, <1>6 DEF IInv

----------------------------------------------------------------------------
LEMMA CloseEnterStep == ASSUME IInv, NEW t \in Closers, CloseEnter(t) PROVE IInv'
<1> USE DEF CloseEnter
<1>1. RingOK' /\ (Full' <=> Full) /\ (Empty' <=> Empty)
  BY RingUnchanged DEF history
<1>2. call' \in [Callers -> CallRecords]
  BY DEF IInv, TypeOK
<1>3. TypeOK' /\ Roles'
  BY Parties, <1>2 DEF IInv, TypeOK, Roles, Goto, Labels, Inside, MonitorTypeOK, monitor,
     ring, history, ConditionOf, Lock, Asleep, Conditions
<1>4. Decisions'
  BY Parties, <1>1, <1>2 DEF IInv, TypeOK, Roles, Decisions, Goto, Inside, monitor, ring,
     history, Possible, WaitedFor, Lock, Asleep, Conditions
<1>5. NoLostWakeup'
  BY Parties, <1>1 DEF IInv, TypeOK, NoLostWakeup, Goto, monitor, ring, history, Roles,
     Decisions, ToBeWoken, WaitedFor, MonitorTypeOK, Inside, ConditionOf, Lock, Asleep, Conditions
<1>6. Drained'
  BY DEF IInv, Drained, history
<1>7. QED  BY <1>1, <1>3, <1>4, <1>5, <1>6 DEF IInv

LEMMA CloseStoreStep == ASSUME IInv, NEW t \in Closers, CloseStore(t) PROVE IInv'
<1> USE DEF CloseStore
<1>1. RingOK' /\ (Full' <=> Full) /\ (Empty' <=> Empty)
  BY RingUnchanged DEF history
<1>2. call' \in [Callers -> CallRecords]
  BY DEF IInv, TypeOK
<1>3. TypeOK' /\ Roles'
  BY Parties, <1>2 DEF IInv, TypeOK, Roles, Goto, Labels, Inside, MonitorTypeOK, monitor,
     ring, history, ConditionOf
<1>4. Decisions'
  BY Parties, <1>1, <1>2 DEF IInv, TypeOK, Roles, Decisions, Goto, Inside, monitor, ring,
     history, Possible, WaitedFor
<1>5. NoLostWakeup'
  BY Parties, <1>1 DEF IInv, TypeOK, NoLostWakeup, Goto, monitor, ring, history, Roles,
     Decisions, ToBeWoken, WaitedFor, MonitorTypeOK, Inside, ConditionOf
<1>6. Drained'
  BY DEF IInv, Drained, history
<1>7. QED  BY <1>1, <1>3, <1>4, <1>5, <1>6 DEF IInv

LEMMA CloseLeaveStep == ASSUME IInv, NEW t \in Closers, CloseLeave(t) PROVE IInv'
<1> USE DEF CloseLeave
<1>1. RingOK' /\ (Full' <=> Full) /\ (Empty' <=> Empty)
  BY RingUnchanged DEF history
<1>2. call' \in [Callers -> CallRecords]
  BY DEF IInv, TypeOK
<1>3. TypeOK' /\ Roles'
  BY Parties, <1>2 DEF IInv, TypeOK, Roles, Goto, Labels, Inside, MonitorTypeOK, monitor,
     ring, history, ConditionOf, Unlock
<1>4. Decisions'
  BY Parties, <1>1, <1>2 DEF IInv, TypeOK, Roles, Decisions, Goto, Inside, monitor, ring,
     history, Possible, WaitedFor, Unlock
<1>5. NoLostWakeup'
  BY Parties, <1>1 DEF IInv, TypeOK, NoLostWakeup, Goto, monitor, ring, history, Roles,
     Decisions, ToBeWoken, WaitedFor, MonitorTypeOK, Inside, ConditionOf, Unlock
<1>6. Drained'
  BY DEF IInv, Drained, history
<1>7. QED  BY <1>1, <1>3, <1>4, <1>5, <1>6 DEF IInv

LEMMA CloseWakeProducerStep == ASSUME IInv, NEW t \in Closers, CloseWakeProducer(t) PROVE IInv'
<1> USE DEF CloseWakeProducer
<1>1. RingOK' /\ (Full' <=> Full) /\ (Empty' <=> Empty)
  BY RingUnchanged DEF history
<1>2. call' \in [Callers -> CallRecords]
  BY DEF IInv, TypeOK
<1>3. TypeOK' /\ Roles'
  BY Parties, <1>2 DEF IInv, TypeOK, Roles, Goto, Labels, Inside, MonitorTypeOK, monitor,
     ring, history, ConditionOf, NotifyAll, Conditions
<1>4. Decisions'
  BY Parties, <1>1, <1>2 DEF IInv, TypeOK, Roles, Decisions, Goto, Inside, monitor, ring,
     history, Possible, WaitedFor, NotifyAll, Conditions
<1>5. NoLostWakeup'
  BY Parties, <1>1 DEF IInv, TypeOK, NoLostWakeup, Goto, monitor, ring, history, Roles,
     Decisions, ToBeWoken, WaitedFor, MonitorTypeOK, Inside, ConditionOf, NotifyAll, Conditions
<1>6. Drained'
  BY DEF IInv, Drained, history
<1>7. QED  BY <1>1, <1>3, <1>4, <1>5, <1>6 DEF IInv

LEMMA CloseWakeConsumerStep == ASSUME IInv, NEW t \in Closers, CloseWakeConsumer(t) PROVE IInv'
<1> USE DEF CloseWakeConsumer
<1>1. RingOK' /\ (Full' <=> Full) /\ (Empty' <=> Empty)
  BY RingUnchanged DEF history
<1>2. call' \in [Callers -> CallRecords]
  BY DEF IInv, TypeOK
<1>3. TypeOK' /\ Roles'
  BY Parties, <1>2 DEF IInv, TypeOK, Roles, Goto, Labels, Inside, MonitorTypeOK, monitor,
     ring, history, ConditionOf, NotifyAll, Conditions
<1>4. Decisions'
  BY Parties, <1>1, <1>2 DEF IInv, TypeOK, Roles, Decisions, Goto, Inside, monitor, ring,
     history, Possible, WaitedFor, NotifyAll, Conditions
<1>5. NoLostWakeup'
  BY Parties, <1>1 DEF IInv, TypeOK, NoLostWakeup, Goto, monitor, ring, history, Roles,
     Decisions, ToBeWoken, WaitedFor, MonitorTypeOK, Inside, ConditionOf, NotifyAll, Conditions
<1>6. Drained'
  BY DEF IInv, Drained, history
<1>7. QED  BY <1>1, <1>3, <1>4, <1>5, <1>6 DEF IInv

----------------------------------------------------------------------------
LEMMA PushInsertStep == ASSUME Allocated, IInv, PushInsert PROVE IInv'
<1> USE DEF PushInsert
<1> DEFINE w == Len(sent)
           r == Len(got)
           i == w % BufferCapacity
<1>1. /\ w \in Nat /\ r \in Nat /\ r <= w /\ w < r + Capacity
      /\ tail_ = i /\ i \in Slots /\ item \in Items /\ ~closed_
      /\ sent \in Seq(Items) /\ got' = got /\ head_' = head_
  BY Counts, SlotOf, CapacityAssumption, Parties DEF IInv, TypeOK, Decisions, RingOK, Possible
<1>2. /\ sent' \in Seq(Items) /\ Len(sent') = w + 1
      /\ \A n \in 1 .. w : sent'[n] = sent[n]
      /\ sent'[w + 1] = item
  BY <1>1, AppendProperties
<1>3. tail_' = (w + 1) % BufferCapacity /\ tail_' \in Slots
  BY <1>1, AdvanceSlot, SlotOf
<1>4. /\ \E size \in InitialSizes : buffer_' \in [0 .. size - 1 -> Items \cup {NoItem}]
      /\ buffer_'[i] = item
      /\ \A j \in Slots : j # i => buffer_'[j] = buffer_[j]
  <2>1. buffer_' = [buffer_ EXCEPT ![i] = item] /\ item \in Items \cup {NoItem}
    BY <1>1
  <2>2. QED  BY <2>1, <1>1, SlotsAllocated
<1>5. ASSUME NEW n \in r .. w PROVE buffer_'[n % BufferCapacity] = sent'[n + 1]
  <2>1. CASE n = w  BY <2>1, <1>1, <1>2, <1>4
  <2>2. CASE n < w
    <3>1. n \in Nat /\ w - n < BufferCapacity /\ n + 1 \in 1 .. w /\ n \in r .. w - 1
      BY <2>2, <1>1, CapacityAssumption DEF BufferCapacity
    <3>2. n % BufferCapacity # i /\ n % BufferCapacity \in Slots
      BY <3>1, <2>2, <1>1, SlotsDiffer, SlotOf
    <3>3. QED  BY <3>1, <3>2, <1>2, <1>4 DEF IInv, RingOK
  <2>3. QED  BY <2>1, <2>2, <1>1
<1>6. RingOK'
  <2>1. Len(got) <= Len(sent') /\ Len(sent') <= Len(got) + Capacity
    BY <1>1, <1>2, CapacityAssumption
  <2>2. \A n \in 1 .. Len(got) : got[n] = sent'[n]
    BY <1>1, <1>2 DEF IInv, RingOK
  <2>3. head_ = Len(got) % BufferCapacity  BY DEF IInv, RingOK
  <2>4. Len(sent') - 1 = w  BY <1>1, <1>2
  <2>5. \A n \in Len(got') .. Len(sent') - 1 : buffer_'[n % BufferCapacity] = sent'[n + 1]
    BY <1>1, <1>5, <2>4
  <2>6. /\ tail_' = Len(sent') % BufferCapacity
        /\ head_' = Len(got') % BufferCapacity
        /\ \A n \in 1 .. Len(got') : got'[n] = sent'[n]
        /\ Len(got') <= Len(sent') /\ Len(sent') <= Len(got') + Capacity
    BY <1>1, <1>2, <1>3, <2>1, <2>2, <2>3
  <2>7. QED  BY <2>5, <2>6 DEF RingOK
<1>7. ~Empty'
  <2>1. IsEmpty(r % BufferCapacity, (w + 1) % BufferCapacity) <=> w + 1 = r
    BY <1>1, EmptyMeansEmpty, CapacityAssumption
  <2>2. QED  BY <1>1, <1>3, <2>1 DEF Empty, IInv, RingOK
<1>8. TypeOK' /\ Roles'
  BY Parties, <1>2, <1>3, <1>4 DEF IInv, TypeOK, Roles, Goto, Labels, Inside,
     MonitorTypeOK, monitor, ConditionOf
<1>9. Decisions'
  BY Parties, <1>1, <1>7 DEF IInv, TypeOK, Roles, Decisions, Goto, Inside, monitor,
     Possible, WaitedFor
<1>10. NoLostWakeup' /\ Drained'
  <2>1. pc'[Producer] = "notify" /\ waiting' = waiting
    BY Parties DEF IInv, TypeOK, Goto, monitor
  <2>2. Producer \notin waiting["not_full"]
    BY Parties DEF IInv, Roles
  <2>3. QED
    BY Parties, <1>1, <2>1, <2>2 DEF IInv, NoLostWakeup, ToBeWoken, Drained
<1>11. QED  BY <1>6, <1>8, <1>9, <1>10 DEF IInv

LEMMA PopRemoveStep == ASSUME Allocated, IInv, PopRemove PROVE IInv'
<1> USE DEF PopRemove
<1> DEFINE w == Len(sent)
           r == Len(got)
           i == r % BufferCapacity
           x == buffer_[i]
<1>1. /\ w \in Nat /\ r \in Nat /\ r < w /\ w <= r + Capacity
      /\ head_ = i /\ i \in Slots /\ r \in r .. w - 1
      /\ got \in Seq(Items) /\ sent \in Seq(Items) /\ sent' = sent /\ tail_' = tail_
  BY Counts, SlotOf, CapacityAssumption, Parties DEF IInv, TypeOK, Decisions, RingOK, Possible
<1>2. x = sent[r + 1] /\ x \in Items
  BY <1>1, ElementOfSeq DEF IInv, RingOK
<1>3. got' = Append(got, x)
  BY <1>1
<1> HIDE DEF x
<1>4. /\ got' \in Seq(Items) /\ Len(got') = r + 1
      /\ \A n \in 1 .. r : got'[n] = got[n]
      /\ got'[r + 1] = x
  BY <1>1, <1>2, <1>3, AppendProperties
<1>5. head_' = (r + 1) % BufferCapacity /\ head_' \in Slots
  BY <1>1, AdvanceSlot, SlotOf
<1>6. /\ \E size \in InitialSizes : buffer_' \in [0 .. size - 1 -> Items \cup {NoItem}]
      /\ \A j \in Slots : j # i => buffer_'[j] = buffer_[j]
  <2>1. buffer_' = [buffer_ EXCEPT ![i] = NoItem] /\ NoItem \in Items \cup {NoItem}
    BY <1>1
  <2>2. QED  BY <2>1, <1>1, SlotsAllocated
<1>7. ASSUME NEW n \in r + 1 .. w - 1 PROVE buffer_'[n % BufferCapacity] = sent[n + 1]
  <2>1. n \in Nat /\ r < n /\ n - r < BufferCapacity /\ n \in r .. w - 1
    BY <1>1, CapacityAssumption DEF BufferCapacity
  <2>2. n % BufferCapacity # i /\ n % BufferCapacity \in Slots
    BY <2>1, <1>1, SlotsDiffer, SlotOf
  <2>3. buffer_'[n % BufferCapacity] = buffer_[n % BufferCapacity]
    BY <2>2, <1>6
  <2>4. QED  BY <2>1, <2>3 DEF IInv, RingOK
<1>8. RingOK'
  <2>1. Len(got') <= Len(sent) /\ Len(sent) <= Len(got') + Capacity
    BY <1>1, <1>4, CapacityAssumption
  <2>2. ASSUME NEW n \in 1 .. r + 1 PROVE got'[n] = sent[n]
    <3>1. CASE n = r + 1  BY <3>1, <1>2, <1>4
    <3>2. CASE n \in 1 .. r  BY <3>2, <1>4 DEF IInv, RingOK
    <3>3. QED  BY <3>1, <3>2, <1>1
  <2>3. tail_ = Len(sent) % BufferCapacity  BY DEF IInv, RingOK
  <2>4. QED  BY <1>1, <1>4, <1>5, <1>7, <2>1, <2>2, <2>3 DEF RingOK
<1>9. ~Full'
  <2>1. IsFull((r + 1) % BufferCapacity, w % BufferCapacity) <=> w = r + 1 + Capacity
    BY <1>1, FullMeansFull, CapacityAssumption
  <2>2. QED  BY <1>1, <1>5, <2>1, CapacityAssumption DEF Full, IInv, RingOK
<1>10. TypeOK' /\ Roles'
  BY Parties, <1>4, <1>5, <1>6 DEF IInv, TypeOK, Roles, Goto, Labels, Inside,
     MonitorTypeOK, monitor, ConditionOf
<1>11. Decisions'
  BY Parties, <1>1, <1>9 DEF IInv, TypeOK, Roles, Decisions, Goto, Inside, monitor,
     Possible, WaitedFor
<1>12. NoLostWakeup' /\ Drained'
  <2>1. pc'[Consumer] = "notify" /\ waiting' = waiting
    BY Parties DEF IInv, TypeOK, Goto, monitor
  <2>2. Consumer \notin waiting["not_empty"]
    BY Parties DEF IInv, Roles
  <2>3. QED
    BY Parties, <1>1, <2>1, <2>2 DEF IInv, NoLostWakeup, ToBeWoken, Drained
<1>13. QED  BY <1>8, <1>10, <1>11, <1>12 DEF IInv

LEMMA NextIInv == Allocated /\ IInv /\ [Next]_vars => IInv'
<1> SUFFICES ASSUME Allocated, IInv, [Next]_vars PROVE IInv'
  OBVIOUS
<1>1. ASSUME NEW c \in Calls, PopCall(c) \/ \E x \in Items : PushCall(x, c) PROVE IInv'
  BY <1>1, PopCallStep, PushCallStep
<1>2. ASSUME NEW t \in Callers, Enter(t) \/ InCall(t) \/ TimeOut(t) \/ SpuriousWakeup(t)
      PROVE  IInv'
  BY <1>2, EnterStep, TestStep, SleepOnStep, NotifyStep, ReturnStep, PushInsertStep,
     PopRemoveStep, TimeOutStep, SpuriousWakeupStep DEF InCall
<1>3. CASE Tick
  BY <1>3, TickStep
<1>4. ASSUME NEW t \in Closers, CloseEnter(t) \/ Closing(t) PROVE IInv'
  BY <1>4, CloseEnterStep, CloseStoreStep, CloseLeaveStep, CloseWakeProducerStep,
     CloseWakeConsumerStep DEF Closing
<1>5. CASE UNCHANGED vars
  BY <1>5 DEF vars, ring, monitor, history, IInv, TypeOK, MonitorTypeOK, Roles, Decisions,
     RingOK, NoLostWakeup, Drained, Full, Empty, Possible, WaitedFor, ToBeWoken
<1>6. QED  BY <1>1, <1>2, <1>3, <1>4, <1>5 DEF Next

----------------------------------------------------------------------------
(* The clocks.  Which steps touch a call, and what the others do to pc.     *)
LEMMA CallsUntouched ==
    ASSUME IInv, Clocks, UNCHANGED call,
           closed_ => closed_',
           \A t \in Callers : pc'[t] = "refuse" => pc[t] = "refuse"
    PROVE  Clocks'
BY DEF Clocks

LEMMA RoundDownIsWholeMs ==
    ASSUME NEW d \in Nat
    PROVE  RoundDown(d) = WholeMs(d) /\ WholeMs(d) \in Nat
<1>1. /\ TicksPerMs \in Nat \ {0} /\ d \in Int
      /\ d = TicksPerMs * (d \div TicksPerMs) + (d % TicksPerMs)
  BY TimeAssumption, DivMod
<1>2. d \div TicksPerMs \in Int /\ d % TicksPerMs \in Int
  BY <1>1, DivMod
<1>3. RoundDown(d) = WholeMs(d)
  BY <1>1, <1>2 DEF RoundDown, WholeMs
<1>4. QED  BY <1>3, RoundDownType

LEMMA NewCallClocks ==
    ASSUME NEW c \in Calls, c.mode = "timed"
    PROVE  Waiting(c)
<1>1. PICK d \in Durations : c = NewCall("timed", d)
  BY DEF Calls, NewCall
<1>2. d \in Nat /\ c.passed = 0 /\ c.asked = d /\ c.left = RoundDown(d)
  BY <1>1, TimeAssumption DEF NewCall
<1>3. RoundDown(d) = WholeMs(d) /\ WholeMs(d) \in Nat
  BY <1>2, RoundDownIsWholeMs
<1>4. QED  BY <1>2, <1>3 DEF Waiting

LEMMA CallMade ==
    ASSUME IInv, Clocks, NEW t \in Callers, NEW c \in Calls,
           call' = [call EXCEPT ![t] = c], Goto(t, "enter"), UNCHANGED closed_
    PROVE  Clocks'
<1> SUFFICES ASSUME NEW u \in Callers, call'[u].mode = "timed"
             PROVE  /\ Waiting(call'[u])
                    /\ pc'[u] = "refuse" /\ ~closed_'
                         => call'[u].passed >= WholeMs(call'[u].asked)
  BY DEF Clocks
<1>1. pc'[t] = "enter" /\ \A v \in Callers \ {t} : pc'[v] = pc[v] /\ call'[v] = call[v]
  BY Parties DEF Goto, IInv, TypeOK
<1>2. CASE u = t
  <2>1. call'[u] = c  BY <1>2 DEF IInv, TypeOK
  <2>2. Waiting(c)  BY <2>1, NewCallClocks
  <2>3. QED  BY <1>1, <1>2, <2>1, <2>2
<1>3. CASE u # t
  BY <1>1, <1>3 DEF Clocks
<1>4. QED  BY <1>2, <1>3

(* A timed call that finds the queue of no use and open gives up only when  *)
(* nothing of its time is left.                                             *)
LEMMA TestClocks ==
    ASSUME IInv, Clocks, NEW t \in Callers, Test(t)
    PROVE  Clocks'
<1> SUFFICES ASSUME NEW u \in Callers, call'[u].mode = "timed"
             PROVE  /\ Waiting(call'[u])
                    /\ pc'[u] = "refuse" /\ ~closed_'
                         => call'[u].passed >= WholeMs(call'[u].asked)
  BY DEF Clocks
<1>1. /\ \A v \in Callers \ {t} : pc'[v] = pc[v]
      /\ \A v \in Callers : /\ call'[v].mode = call[v].mode /\ call'[v].left = call[v].left
                            /\ call'[v].passed = call[v].passed
                            /\ call'[v].asked = call[v].asked
      /\ closed_' = closed_
  BY Parties DEF Test, Goto, IInv, TypeOK, CallRecords
<1>2. Waiting(call[u])
  BY <1>1 DEF Clocks
<1>3. ASSUME pc'[u] = "refuse", ~closed_ PROVE call[u].passed >= WholeMs(call[u].asked)
  <2>1. CASE u # t  BY <2>1, <1>1, <1>3 DEF Clocks
  <2>2. CASE u = t
    <3>1. WaitedFor(t) \/ MustNotWait(t)
      BY <2>2, <1>3, Parties DEF Test, Goto, IInv, TypeOK
    <3>2. ~Possible(t)
      BY <2>2, <1>3, Parties DEF Test, Goto, IInv, TypeOK
    <3>3. call[u].left = 0
      BY <3>1, <3>2, <2>2, <1>1, <1>3 DEF WaitedFor, Possible, MustNotWait
    <3>4. call[u].passed \in Nat /\ WholeMs(call[u].asked) \in Nat
      BY RoundDownIsWholeMs DEF IInv, TypeOK, CallRecords
    <3>5. QED  BY <3>3, <3>4, <1>2 DEF Waiting
  <2>3. QED  BY <2>1, <2>2
<1>4. QED  BY <1>1, <1>2, <1>3 DEF Waiting

LEMMA TickedClocks ==
    ASSUME NEW c \in CallRecords, Waiting(c)
    PROVE  /\ Waiting(Ticked(c))
           /\ c.passed >= WholeMs(c.asked) => Ticked(c).passed >= WholeMs(Ticked(c).asked)
<1>1. c.left \in Nat /\ c.passed \in Nat /\ c.asked \in Nat /\ WholeMs(c.asked) \in Nat
      /\ WholeMs(c.asked) <= c.asked
  <2>1. c.left \in Nat /\ c.passed \in Nat /\ c.asked \in Nat  BY DEF CallRecords
  <2>2. c.asked % TicksPerMs \in Nat  BY <2>1, TimeAssumption
  <2>3. QED  BY <2>1, <2>2, RoundDownIsWholeMs DEF WholeMs
<1>2. /\ Ticked(c).asked = c.asked
      /\ Ticked(c).left = IF c.begun /\ c.left > 0 THEN c.left - 1 ELSE c.left
      /\ Ticked(c).passed = IF c.passed < c.asked THEN c.passed + 1 ELSE c.passed
  BY DEF Ticked, CallRecords
<1>3. QED  BY <1>1, <1>2 DEF Waiting

LEMMA TickClocks == ASSUME IInv, Clocks, Tick PROVE Clocks'
<1> SUFFICES ASSUME NEW u \in Callers, call'[u].mode = "timed"
             PROVE  /\ Waiting(call'[u])
                    /\ pc'[u] = "refuse" /\ ~closed_'
                         => call'[u].passed >= WholeMs(call'[u].asked)
  BY DEF Clocks
<1>1. UNCHANGED <<pc, closed_>> /\ call[u] \in CallRecords
  BY DEF Tick, IInv, TypeOK
<1>2. CASE call'[u] = call[u]
  BY <1>1, <1>2 DEF Clocks
<1>3. CASE call'[u] = Ticked(call[u])
  BY <1>1, <1>3, TickedType, TickedClocks DEF Clocks
<1>4. QED  BY <1>2, <1>3 DEF Tick

LEMMA NextClocks == IInv /\ Clocks /\ [Next]_vars => Clocks'
<1> SUFFICES ASSUME IInv, Clocks, [Next]_vars PROVE Clocks'
  OBVIOUS
<1>1. ASSUME NEW c \in Calls, PopCall(c) \/ \E x \in Items : PushCall(x, c) PROVE Clocks'
  BY <1>1, CallMade, Parties DEF PopCall, PushCall
<1>2. ASSUME NEW t \in Callers, Enter(t) \/ InCall(t) \/ TimeOut(t) \/ SpuriousWakeup(t)
      PROVE  Clocks'
  <2>1. CASE Test(t)  BY <2>1, TestClocks
  <2>2. CASE ~Test(t)
    <3>1. UNCHANGED <<call, closed_>>
      BY <1>2, <2>2 DEF InCall, Enter, SleepOn, Notify, Return, PushInsert, PopRemove,
         TimeOut, SpuriousWakeup
    <3>2. \A u \in Callers : pc'[u] = "refuse" => pc[u] = "refuse"
      BY <1>2, <2>2, Parties DEF IInv, TypeOK, Goto, InCall, Enter, SleepOn, Notify, Return,
         PushInsert, PopRemove, TimeOut, SpuriousWakeup
    <3>3. QED  BY <3>1, <3>2, CallsUntouched
  <2>3. QED  BY <2>1, <2>2
<1>3. CASE Tick
  BY <1>3, TickClocks
<1>4. ASSUME NEW t \in Closers, CloseEnter(t) \/ Closing(t) PROVE Clocks'
  <2>1. UNCHANGED call /\ (closed_ => closed_')
    BY <1>4 DEF CloseEnter, Closing, CloseStore, CloseLeave, CloseWakeProducer,
       CloseWakeConsumer
  <2>2. \A u \in Callers : pc'[u] = "refuse" => pc[u] = "refuse"
    BY <1>4, Parties DEF IInv, TypeOK, Goto, CloseEnter, Closing, CloseStore, CloseLeave,
       CloseWakeProducer, CloseWakeConsumer
  <2>3. QED  BY <2>1, <2>2, CallsUntouched
<1>5. CASE UNCHANGED vars
  BY <1>5 DEF vars, Clocks
<1>6. QED  BY <1>1, <1>2, <1>3, <1>4, <1>5 DEF Next

----------------------------------------------------------------------------
(* Every step of spsc_timeout_queue.h preserves the inductive invariant,    *)
(* provided that buffer_ was built with enough slots.                       *)
THEOREM Inductive == Allocated /\ Spec => []IInv
<1> SUFFICES ASSUME Allocated PROVE Spec => []IInv
  OBVIOUS
<1>1. Init => IInv  BY InitIInv
<1>2. IInv /\ [Next]_vars => IInv'  BY NextIInv
<1>3. QED  BY <1>1, <1>2, PTL DEF Spec

(* Every variable holds a value of its type (the fields of                  *)
(* SPSCTimeoutQueue and the arguments of its calls).                        *)
THEOREM TypeCorrect == Allocated /\ Spec => []TypeOK
<1>1. IInv => TypeOK  BY DEF IInv
<1>2. QED  BY <1>1, Inductive, PTL

(* "fixed memory use": with enough slots at the start, push_internal()      *)
(* writes only slots that exist.                                            *)
THEOREM WritesStayInside == Allocated /\ Spec => []SlotIsAllocated
<1> SUFFICES ASSUME Allocated PROVE Spec => []SlotIsAllocated
  OBVIOUS
<1>1. IInv => SlotIsAllocated
  <2> SUFFICES ASSUME IInv PROVE tail_ \in DOMAIN buffer_
    BY DEF SlotIsAllocated
  <2>1. PICK size \in InitialSizes : buffer_ \in [0 .. size - 1 -> Items \cup {NoItem}]
    BY DEF IInv, TypeOK
  <2>2. Slots \subseteq 0 .. size - 1
    BY BufferCapacityType, SizesAssumption DEF Allocated, Slots
  <2>3. QED  BY <2>1, <2>2 DEF IInv, TypeOK
<1>2. QED  BY <1>1, Inductive, PTL

(* No notification of push_internal(), pop_internal() or close() is lost,   *)
(* also when it races with a timeout.                                       *)
THEOREM NoWakeupIsLost == Allocated /\ Spec => []NoLostWakeup
<1>1. IInv => NoLostWakeup  BY DEF IInv
<1>2. QED  BY <1>1, Inductive, PTL

(* Whatever its mode, a call that answers false can do nothing at the       *)
(* moment it answers: the last look at the queue is never skipped.          *)
THEOREM FalseIsJustified == Allocated /\ Spec => []NothingMissed
<1>1. IInv => NothingMissed  BY DEF IInv, Decisions, NothingMissed
<1>2. QED  BY <1>1, Inductive, PTL

(* The consumer whose blocking pop() is answered false has been given       *)
(* everything that was and ever will be pushed.                             *)
THEOREM FalseEndsTheStream == Allocated /\ Spec => []EndOfStream
<1>1. IInv => EndOfStream
  <2> SUFFICES ASSUME IInv, ended PROVE closed_ /\ got = sent
    BY DEF EndOfStream
  <2>1. closed_ /\ Len(got) = Len(sent)  BY DEF IInv, Drained
  <2>2. got \in Seq(Items) /\ sent \in Seq(Items)  BY DEF IInv, TypeOK
  <2>3. \A n \in 1 .. Len(got) : got[n] = sent[n]  BY DEF IInv, RingOK
  <2>4. QED  BY <2>1, <2>2, <2>3, SeqEqual
<1>2. QED  BY <1>1, Inductive, PTL

(* push_for() and pop_for() that give up on an open queue have been at it   *)
(* for all the whole milliseconds of the duration, however often they were  *)
(* woken in between.                                                        *)
THEOREM TimedCallsWait == Allocated /\ Spec => []WaitsAsAsked
<1> SUFFICES ASSUME Allocated PROVE Spec => []WaitsAsAsked
  OBVIOUS
<1>1. Init => Clocks
  BY DEF Init, Clocks, NewCall
<1>2. IInv /\ Clocks /\ [Next]_vars => Clocks'
  BY NextClocks
<1>3. Clocks => WaitsAsAsked
  BY DEF Clocks, WaitsAsAsked
<1>4. QED  BY <1>1, <1>2, <1>3, Inductive, PTL DEF Spec

(* Blocking, timed and non-blocking calls together implement the bounded    *)
(* FIFO with close(): an item goes in at the store of tail_, and never      *)
(* after the store of closed_.                                              *)
THEOREM ImplementsFifo == Allocated /\ Spec => FifoSpec
<1> DEFINE queue == SubSeq(sent, Len(got) + 1, Len(sent))
<1>1. Init => Fifo!Init
  <2>1. SubSeq(<<>>, 1, 0) = <<>>  BY SubSeqEmpty
  <2>2. QED  BY <2>1 DEF Init, Fifo!Init
<1>2. IInv /\ [Next]_vars => [Fifo!Next]_(Fifo!vars)
  <2> SUFFICES ASSUME IInv, [Next]_vars PROVE [Fifo!Next]_(Fifo!vars)
    OBVIOUS
  <2>0. /\ Len(sent) \in Nat /\ Len(got) \in 0 .. Len(sent) /\ sent \in Seq(Items)
        /\ got \in Seq(Items)
    BY Counts DEF IInv, TypeOK, RingOK
  <2>1. CASE PushInsert
    <3>1. /\ sent' = Append(sent, item) /\ got' = got /\ closed_' = closed_
          /\ item \in Items /\ ~closed_
          /\ Len(sent) < Len(got) + Capacity
      BY <2>1, Parties, Counts, CapacityAssumption DEF PushInsert, IInv, Decisions, RingOK,
         Possible
    <3>2. Len(queue) < Capacity
      BY <3>1, <2>0, RestOf, CapacityAssumption
    <3>3. queue' = Append(queue, item)
      BY <3>1, <2>0, RestOfAppend
    <3>4. Fifo!Put(item)  BY <3>1, <3>2, <3>3 DEF Fifo!Put
    <3>5. QED  BY <3>1, <3>4 DEF Fifo!Next
  <2>2. CASE PopRemove
    <3>1. /\ Len(got) < Len(sent) /\ sent' = sent /\ closed_' = closed_
          /\ got' = Append(got, sent[Len(got) + 1])
      <4>1. /\ pc[Consumer] = "act" /\ got' = Append(got, buffer_[head_])
            /\ sent' = sent /\ closed_' = closed_
        BY <2>2 DEF PopRemove
      <4>2. ~Empty
        BY <4>1, Parties DEF IInv, Decisions, Possible
      <4>3. Len(got) < Len(sent)
        BY <4>2, <2>0, Counts
      <4>4. buffer_[head_] = sent[Len(got) + 1]
        BY <4>3, <2>0 DEF IInv, RingOK
      <4>5. QED  BY <4>1, <4>3, <4>4
    <3>2. Len(got) + 1 \in 1 .. Len(sent) /\ sent[Len(got) + 1] \in Items
      BY <3>1, <2>0, ElementOfSeq
    <3>3. Len(got') = Len(got) + 1
      BY <3>1, <3>2, <2>0, AppendProperties
    <3>4. Len(sent) \in Len(got) + 1 .. Len(sent)
      BY <3>2, <2>0
    <3>5. Head(queue) = sent[Len(got) + 1] /\ Tail(queue) = queue'
      BY <3>1, <3>2, <3>3, <3>4, <2>0, HeadTailOfSubSeq
    <3>6. queue # <<>>
      <4>1. Len(queue) = Len(sent) - Len(got)  BY <2>0, RestOf
      <4>2. QED  BY <4>1, <3>1, <2>0
    <3>7. Fifo!Take  BY <3>1, <3>5, <3>6 DEF Fifo!Take
    <3>8. QED  BY <3>7 DEF Fifo!Next
  <2>3. ASSUME NEW t \in Closers, CloseStore(t) PROVE [Fifo!Next]_(Fifo!vars)
    <3>1. Fifo!Close  BY <2>3 DEF CloseStore, Fifo!Close, history
    <3>2. QED  BY <3>1 DEF Fifo!Next
  <2>4. CASE UNCHANGED <<sent, got, closed_>>
    BY <2>4 DEF Fifo!vars
  <2>5. ASSUME ~PushInsert, ~PopRemove, \A t \in Closers : ~CloseStore(t)
        PROVE  UNCHANGED <<sent, got, closed_>>
    BY <2>5 DEF Next, vars, history, PushCall, PopCall, Enter, InCall, Test, SleepOn, Notify,
       Return, TimeOut, SpuriousWakeup, Tick, CloseEnter, Closing, CloseLeave,
       CloseWakeProducer, CloseWakeConsumer
  <2>6. QED  BY <2>1, <2>2, <2>3, <2>4, <2>5
<1>3. QED  BY <1>1, <1>2, Inductive, PTL DEF Spec, FifoSpec, Fifo!Spec
=============================================================================
