----------------------------- MODULE SPSCQueue -----------------------------
(***************************************************************************)
(* spsc_queue.h: the lock-free queue between one producer thread and one   *)
(* consumer thread, under the C++ release/acquire memory model.            *)
(*                                                                         *)
(* An atomic index is the sequence of the stores made to it, its           *)
(* modification order.  A load may return any store not older than the one *)
(* its thread returned last (coherence).  Each store carries in "rel" how  *)
(* many slot accesses of the storing thread it releases; an acquire load   *)
(* of it makes them happen before what the loading thread does next, and   *)
(* "sync" is how many accesses of the other thread are known to do so.  A  *)
(* slot of msg_q_ is plain memory: two accesses that are not so ordered    *)
(* are a data race.                                                        *)
(***************************************************************************)
EXTENDS QueueItems

VARIABLES msg_q_, head_, tail_,
          producer,     \* the producer thread: position, views, last answers
          consumer,     \* the consumer thread
          sent,         \* history: the items whose push took effect
          got           \* history: the items the consumer was given

queueVars == <<msg_q_, head_, tail_, producer, consumer, sent, got>>

----------------------------------------------------------------------------
(* The memory model, for the one writer each index has.                    *)

LastStored(atomic)  == atomic[Len(atomic)].at
Readable(atomic, t) == t.seen .. Len(atomic)
Relaxed(t, k)       == [t EXCEPT !.seen = k]
Acquire(t, k, atomic) ==
    [t EXCEPT !.seen = k,
              !.sync = IF atomic[k].rel > @ THEN atomic[k].rel ELSE @]
RelaxedStore(accesses) == 0         \* fault: the store is not a release
Release(accesses)   == accesses
Store(atomic, i, accesses) == Append(atomic, [at |-> i, rel |-> accesses])

----------------------------------------------------------------------------
(* A thread between two calls that has seen the initial store only. *)
AtRest == [pc |-> "idle", item |-> NoItem, seen |-> 1, sync |-> 0,
           refused |-> FALSE, promised |-> FALSE]

QueueInit == /\ msg_q_ = [i \in Slots |-> NoItem]
             /\ head_ = <<[at |-> 0, rel |-> 0]>>
             /\ tail_ = <<[at |-> 0, rel |-> 0]>>
             /\ producer = AtRest
             /\ consumer = AtRest
             /\ sent = <<>>
             /\ got = <<>>

(* Fault: push() tests the index it loaded in an earlier call. *)
PushCheckCached(x, k) ==
    /\ producer.pc = "idle"
    /\ Len(sent) < MaxItems
    /\ producer' = IF IsFull(head_[producer.seen].at, LastStored(tail_))
                   THEN [producer EXCEPT !.refused = TRUE]
                   ELSE [producer EXCEPT !.pc = "write", !.item = x]
    /\ UNCHANGED <<msg_q_, head_, tail_, consumer, sent, got>>

(* push(): both loads and the test for a full ring. *)
PushCheckAt(x, k) ==
    LET p == Acquire(producer, k, head_) IN
    /\ producer.pc = "idle"
    /\ Len(sent) < MaxItems
    /\ producer' = IF IsFull(head_[k].at, LastStored(tail_))
                   THEN [p EXCEPT !.refused = TRUE]
                   ELSE [p EXCEPT !.pc = "write", !.item = x]
    /\ UNCHANGED <<msg_q_, head_, tail_, consumer, sent, got>>

PushCheck == \E x \in Items, k \in Readable(head_, producer) : PushCheckAt(x, k)

PushWrite ==
    /\ producer.pc = "write"
    /\ msg_q_' = [msg_q_ EXCEPT ![LastStored(tail_)] = producer.item]
    /\ producer' = [producer EXCEPT !.pc = "publish"]
    /\ UNCHANGED <<head_, tail_, consumer, sent, got>>

(* The release store of tail_, and "return true". *)
PushPublish ==
    /\ producer.pc = "publish"
    /\ tail_' = Store(tail_, Advance(LastStored(tail_)), Release(Len(sent) + 1))
    /\ sent' = Append(sent, producer.item)
    /\ producer' = [producer EXCEPT !.pc = "idle", !.item = NoItem,
                                    !.refused = FALSE, !.promised = FALSE]
    /\ UNCHANGED <<msg_q_, head_, consumer, got>>

(* pop(): both loads and the test for an empty ring. *)
PopCheckAt(k) ==
    LET c == Acquire(consumer, k, tail_) IN
    /\ consumer.pc = "idle"
    /\ consumer' = IF IsEmpty(LastStored(head_), tail_[k].at)
                   THEN [c EXCEPT !.refused = TRUE]
                   ELSE [c EXCEPT !.pc = "read"]
    /\ UNCHANGED <<msg_q_, head_, tail_, producer, sent, got>>

PopCheck == \E k \in Readable(tail_, consumer) : PopCheckAt(k)

PopRead ==
    /\ consumer.pc = "read"
    /\ consumer' = [consumer EXCEPT !.pc = "publish",
                                    !.item = msg_q_[LastStored(head_)]]
    /\ UNCHANGED <<msg_q_, head_, tail_, producer, sent, got>>

(* The release store of head_, and "return true". *)
PopPublish ==
    /\ consumer.pc = "publish"
    /\ head_' = Store(head_, Advance(LastStored(head_)), Release(Len(got) + 1))
    /\ got' = Append(got, consumer.item)
    /\ consumer' = [consumer EXCEPT !.pc = "idle", !.item = NoItem,
                                    !.refused = FALSE, !.promised = FALSE]
    /\ UNCHANGED <<msg_q_, tail_, producer, sent>>

(* Fault: full() takes the spare slot for a usable one. *)
AsksFullOfEverySlot == \E k \in Readable(head_, producer) :
    /\ producer.pc = "idle"
    /\ producer' = [Relaxed(producer, k) EXCEPT
                        !.promised = SizeOf(head_[k].at, LastStored(tail_)) < BufferCapacity,
                        !.refused = FALSE]
    /\ UNCHANGED <<msg_q_, head_, tail_, consumer, sent, got>>

(* full() asked by the producer, empty() asked by the consumer, between two *)
(* of its calls: the other thread's index is loaded relaxed.  "promised"    *)
(* remembers an answer by which the thread's next call must succeed.        *)
ProducerAsksFull == \E k \in Readable(head_, producer) :
    /\ producer.pc = "idle"
    /\ producer' = [Relaxed(producer, k) EXCEPT
                        !.promised = ~IsFull(head_[k].at, LastStored(tail_)),
                        !.refused = FALSE]
    /\ UNCHANGED <<msg_q_, head_, tail_, consumer, sent, got>>

ConsumerAsksEmpty == \E k \in Readable(tail_, consumer) :
    /\ consumer.pc = "idle"
    /\ consumer' = [Relaxed(consumer, k) EXCEPT
                        !.promised = ~IsEmpty(LastStored(head_), tail_[k].at),
                        !.refused = FALSE]
    /\ UNCHANGED <<msg_q_, head_, tail_, producer, sent, got>>

QueueNext == \/ PushCheck \/ PushWrite \/ PushPublish \/ ProducerAsksFull
             \/ PopCheck \/ PopRead \/ PopPublish \/ ConsumerAsksEmpty

QueueSpec == QueueInit /\ [][QueueNext]_queueVars

(* Both threads are scheduled and keep calling push() and pop(); a store is *)
(* eventually seen by a thread that keeps loading ([atomics.order]/12).     *)
QueueFairness == /\ WF_queueVars(\E x \in Items : PushCheckAt(x, Len(head_)))
                 /\ WF_queueVars(PushWrite)
                 /\ WF_queueVars(PushPublish)
                 /\ WF_queueVars(PopCheckAt(Len(tail_)))
                 /\ WF_queueVars(PopRead)
                 /\ WF_queueVars(PopPublish)

----------------------------------------------------------------------------
Stores  == [at : Slots, rel : Nat]
ThreadStates == [pc : {"idle", "write", "read", "publish"}, item : Items \cup {NoItem},
                 seen : Nat \ {0}, sync : Nat, refused : BOOLEAN, promised : BOOLEAN]

(* Every variable holds a value of its C++ type, and every index stored in  *)
(* an atomic is the index of an existing slot.                              *)
QueueTypeOK == /\ msg_q_ \in [Slots -> Items \cup {NoItem}]
               /\ head_ \in Seq(Stores) /\ head_ # <<>>
               /\ tail_ \in Seq(Stores) /\ tail_ # <<>>
               /\ producer \in ThreadStates
               /\ consumer \in ThreadStates
               /\ sent \in Seq(Items)
               /\ got \in Seq(Items)

(* No slot is ever accessed by both threads without a happens-before edge   *)
(* between the two accesses (spsc_queue.h, the memory-order convention of   *)
(* the class comment): when the producer writes a slot, every read of an    *)
(* earlier item of that slot happens before; when the consumer reads one,   *)
(* the write of the item in it happens before.                              *)
NoDataRace ==
    /\ producer.pc = "write" =>
         \A n \in 0 .. Len(sent) - 1 :
             n % BufferCapacity = LastStored(tail_) => n < producer.sync
    /\ consumer.pc = "read" => Len(got) < consumer.sync

(* A query by the thread that acts on it is a promise: once full() told the *)
(* producer there is room, or empty() told the consumer there is an item,   *)
(* its next push() or pop() does not return false, although the query loads *)
(* the other index relaxed.                                                 *)
PromiseKept == /\ ~(producer.promised /\ producer.refused)
               /\ ~(consumer.promised /\ consumer.refused)

(* The queue implements the bounded FIFO: a push takes effect at the store  *)
(* of tail_, a pop at the store of head_.  It has no close().               *)
Fifo == INSTANCE BoundedFifo
            WITH queue <- SubSeq(sent, Len(got) + 1, Len(sent)),
                 delivered <- got, closed <- FALSE
FifoSpec == Fifo!Spec

(* Two threads that keep calling push() and pop() get all items through:    *)
(* neither a stale index nor the wrap-around of the ring stops them.        *)
AllThrough == <>(Len(got) = MaxItems)
=============================================================================
