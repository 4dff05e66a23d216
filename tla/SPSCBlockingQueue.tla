------------------------- MODULE SPSCBlockingQueue -------------------------
(***************************************************************************)
(* spsc_blocking_queue.h: the queue whose push() sleeps while the ring is  *)
(* full and whose pop() sleeps while it is empty, until close().           *)
(*                                                                         *)
(* push() and pop() touch the indices and the slots only while they hold   *)
(* mtx_, so the mutex orders those accesses and the indices are plain      *)
(* values here.  Any number of threads may call close(), at any time; a    *)
(* producer that closes its own queue is one of them between its pushes.   *)
(***************************************************************************)
EXTENDS QueueItems

CONSTANTS Producer, Consumer, Closers, NoThread

Threads    == {Producer, Consumer} \cup Closers
Conditions == {"not_full", "not_empty"}

ASSUME ThreadsAssumption == /\ Producer # Consumer
                            /\ Producer \notin Closers /\ Consumer \notin Closers
                            /\ NoThread \notin Threads

VARIABLES msg_q_, head_, tail_, is_closed_,
          owner, waiting,       \* mtx_, and who sleeps on not_full_, not_empty_
          pc,                   \* where each thread is in its call
          item,                 \* the argument of the current push()
          ended,                \* history: pop() has returned false
          sent, got             \* history: the items pushed, the items popped

ring    == <<msg_q_, head_, tail_>>
monitor == <<owner, waiting>>
history == <<ended, sent, got>>
vars    == <<ring, is_closed_, monitor, pc, item, history>>

INSTANCE Monitor

Goto(t, label) == pc' = [pc EXCEPT ![t] = label]
Full  == IsFull(head_, tail_)
Empty == IsEmpty(head_, tail_)

Init == /\ msg_q_ = [i \in Slots |-> NoItem]
        /\ head_ = 0 /\ tail_ = 0
        /\ is_closed_ = FALSE
        /\ MonitorInit
        /\ pc = [t \in Threads |-> "idle"]
        /\ item = NoItem
        /\ ended = FALSE /\ sent = <<>> /\ got = <<>>

----------------------------------------------------------------------------
(* push_internal() *)
PushCall(x) ==
    /\ pc[Producer] = "idle"
    /\ Len(sent) < MaxItems
    /\ Goto(Producer, "enter")
    /\ item' = x
    /\ UNCHANGED <<ring, is_closed_, monitor, history>>

(* Lock mtx_, at the start of a call and after a wake-up, to test the       *)
(* condition of the wait (again).                                           *)
Enter(t) ==
    /\ t \in {Producer, Consumer}
    /\ pc[t] = "enter"
    /\ Lock(t)
    /\ Goto(t, "test")
    /\ UNCHANGED <<ring, is_closed_, item, history>>

(* Fault: push() does not look at is_closed_ again after its wait. *)
PushTestThoughClosed ==
    /\ pc[Producer] = "test"
    /\ Goto(Producer, IF Full /\ ~is_closed_ THEN "sleep" ELSE "insert")
    /\ UNCHANGED <<ring, is_closed_, monitor, item, history>>

PushTest ==
    /\ pc[Producer] = "test"
    /\ Goto(Producer, IF Full /\ ~is_closed_ THEN "sleep"
                      ELSE IF is_closed_ THEN "refuse" ELSE "insert")
    /\ UNCHANGED <<ring, is_closed_, monitor, item, history>>

PushSleep ==
    /\ pc[Producer] = "sleep"
    /\ Sleep(Producer, "not_full")
    /\ Goto(Producer, "enter")
    /\ UNCHANGED <<ring, is_closed_, item, history>>

PushInsert ==
    /\ pc[Producer] = "insert"
    /\ msg_q_' = [msg_q_ EXCEPT ![tail_] = item]
    /\ tail_' = Advance(tail_)
    /\ sent' = Append(sent, item)
    /\ Goto(Producer, "notify")
    /\ UNCHANGED <<head_, is_closed_, monitor, item, ended, got>>

(* Fault: the consumer is not told of the item. *)
PushWithoutNotify ==
    /\ pc[Producer] = "notify"
    /\ Goto(Producer, "leave")
    /\ UNCHANGED <<ring, is_closed_, monitor, item, history>>

PushNotify ==
    /\ pc[Producer] = "notify"
    /\ NotifyOne("not_empty")
    /\ Goto(Producer, "leave")
    /\ UNCHANGED <<ring, is_closed_, item, history>>

(* Both returns of push_internal(): the destructor of lock unlocks mtx_.    *)
PushReturn ==
    /\ pc[Producer] \in {"refuse", "leave"}
    /\ Unlock(Producer)
    /\ Goto(Producer, "idle")
    /\ item' = NoItem
    /\ UNCHANGED <<ring, is_closed_, history>>

----------------------------------------------------------------------------
(* pop() *)
PopCall ==
    /\ pc[Consumer] = "idle"
    /\ Goto(Consumer, "enter")
    /\ UNCHANGED <<ring, is_closed_, monitor, item, history>>

PopTest ==
    /\ pc[Consumer] = "test"
    /\ Goto(Consumer, IF Empty /\ ~is_closed_ THEN "sleep"
                      ELSE IF Empty THEN "refuse" ELSE "remove")
    /\ UNCHANGED <<ring, is_closed_, monitor, item, history>>

PopSleep ==
    /\ pc[Consumer] = "sleep"
    /\ Sleep(Consumer, "not_empty")
    /\ Goto(Consumer, "enter")
    /\ UNCHANGED <<ring, is_closed_, item, history>>

(* The item is moved out of its slot. *)
PopRemove ==
    /\ pc[Consumer] = "remove"
    /\ got' = Append(got, msg_q_[head_])
    /\ msg_q_' = [msg_q_ EXCEPT ![head_] = NoItem]
    /\ head_' = Advance(head_)
    /\ Goto(Consumer, "notify")
    /\ UNCHANGED <<tail_, is_closed_, monitor, item, ended, sent>>

(* Fault: the producer is told only that a full ring has room again, seen   *)
(* after the removal.                                                       *)
PopNotifiesIfFull ==
    /\ pc[Consumer] = "notify"
    /\ IF Full THEN NotifyOne("not_full") ELSE UNCHANGED monitor
    /\ Goto(Consumer, "leave")
    /\ UNCHANGED <<ring, is_closed_, item, history>>

PopNotify ==
    /\ pc[Consumer] = "notify"
    /\ NotifyOne("not_full")
    /\ Goto(Consumer, "leave")
    /\ UNCHANGED <<ring, is_closed_, item, history>>

PopReturn ==
    /\ pc[Consumer] \in {"refuse", "leave"}
    /\ Unlock(Consumer)
    /\ Goto(Consumer, "idle")
    /\ ended' = (ended \/ pc[Consumer] = "refuse")
    /\ UNCHANGED <<ring, is_closed_, item, sent, got>>

----------------------------------------------------------------------------
(* close(): the flag is set under mtx_, the notifications come after it. *)
(* Fault: close() sets the flag without mtx_, as msg_queue_design.md has it *)
(* in its sketch of a blocking queue.                                       *)
CloseUnlocked(t) ==
    /\ pc[t] = "idle"
    /\ is_closed_' = TRUE
    /\ Goto(t, "wakeProducer")
    /\ UNCHANGED <<ring, monitor, item, history>>

CloseEnter(t) ==
    /\ pc[t] = "idle"
    /\ Lock(t)
    /\ Goto(t, "close")
    /\ UNCHANGED <<ring, is_closed_, item, history>>

CloseStore(t) ==
    /\ pc[t] = "close"
    /\ is_closed_' = TRUE
    /\ Goto(t, "unlock")
    /\ UNCHANGED <<ring, monitor, item, history>>

CloseLeave(t) ==
    /\ pc[t] = "unlock"
    /\ Unlock(t)
    /\ Goto(t, "wakeProducer")
    /\ UNCHANGED <<ring, is_closed_, item, history>>

CloseWakeProducer(t) ==
    /\ pc[t] = "wakeProducer"
    /\ NotifyAll("not_full")
    /\ Goto(t, "wakeConsumer")
    /\ UNCHANGED <<ring, is_closed_, item, history>>

(* Fault: close() notifies one of the two conditions only. *)
CloseForgetsConsumer(t) ==
    /\ pc[t] = "wakeConsumer"
    /\ Goto(t, "idle")
    /\ UNCHANGED <<ring, is_closed_, monitor, item, history>>

CloseWakeConsumer(t) ==
    /\ pc[t] = "wakeConsumer"
    /\ NotifyAll("not_empty")
    /\ Goto(t, "idle")
    /\ UNCHANGED <<ring, is_closed_, item, history>>

SpuriousWakeup(t) ==
    /\ WakeSpuriously(t)
    /\ UNCHANGED <<ring, is_closed_, pc, item, history>>

----------------------------------------------------------------------------
Push == \/ \E x \in Items : PushCall(x)
        \/ PushTest \/ PushSleep \/ PushInsert \/ PushNotify \/ PushReturn
Pop  == PopCall \/ PopTest \/ PopSleep \/ PopRemove \/ PopNotify \/ PopReturn
Closing(t) == CloseStore(t) \/ CloseLeave(t) \/ CloseWakeProducer(t) \/ CloseWakeConsumer(t)

Next == \/ Push
        \/ Pop
        \/ \E t \in {Producer, Consumer} : Enter(t) \/ SpuriousWakeup(t)
        \/ \E t \in Closers : CloseEnter(t) \/ Closing(t)

Spec == Init /\ [][Next]_vars

(* A thread inside a call keeps running, one that contends for mtx_ gets it *)
(* in the end, and the consumer calls pop() again.  Nobody has to push or   *)
(* to close.                                                                *)
Fairness ==
    /\ WF_vars(PushTest \/ PushSleep \/ PushInsert \/ PushNotify \/ PushReturn)
    /\ WF_vars(Pop)
    /\ \A t \in {Producer, Consumer} : SF_vars(Enter(t))
    /\ \A t \in Closers : WF_vars(Closing(t))

FairSpec == Spec /\ Fairness

----------------------------------------------------------------------------
Labels == {"idle", "enter", "test", "sleep", "insert", "remove", "notify", "leave",
           "refuse", "close", "unlock", "wakeProducer", "wakeConsumer"}

(* Every variable holds a value of its C++ type. *)
TypeOK == /\ msg_q_ \in [Slots -> Items \cup {NoItem}]
          /\ head_ \in Slots /\ tail_ \in Slots
          /\ is_closed_ \in BOOLEAN
          /\ MonitorTypeOK
          /\ pc \in [Threads -> Labels]
          /\ item \in Items \cup {NoItem}
          /\ ended \in BOOLEAN
          /\ sent \in Seq(Items) /\ got \in Seq(Items)

(* No wake-up is lost: a thread that sleeps although what it waits for is   *)
(* true (there is room, there is an item, or the queue is closed) is about  *)
(* to be notified by a thread that is already on its way to do so.          *)
ConsumerToBeWoken == \/ pc[Producer] = "notify"
                     \/ \E t \in Closers : pc[t] \in {"unlock", "wakeProducer", "wakeConsumer"}
ProducerToBeWoken == \/ pc[Consumer] = "notify"
                     \/ \E t \in Closers : pc[t] \in {"unlock", "wakeProducer"}
NoLostWakeup ==
    /\ Consumer \in waiting["not_empty"] /\ (~Empty \/ is_closed_) => ConsumerToBeWoken
    /\ Producer \in waiting["not_full"] /\ (~Full \/ is_closed_) => ProducerToBeWoken

(* false from pop() is the end of the stream: the queue is closed, all that *)
(* was pushed has been popped, and nothing can be pushed any more.          *)
EndOfStream == ended => is_closed_ /\ got = sent

(* push() takes effect at its store of tail_, pop() at its store of head_,  *)
(* close() at its store of is_closed_.                                      *)
Fifo == INSTANCE BoundedFifo
            WITH queue <- SubSeq(sent, Len(got) + 1, Len(sent)),
                 delivered <- got, closed <- is_closed_
FifoSpec == Fifo!Spec

(* While the consumer keeps popping, every push() returns, closed or not.   *)
PushReturns == pc[Producer] # "idle" ~> pc[Producer] = "idle"

(* Every item that was pushed is popped, also after close().                *)
EveryItemArrives == \A n \in 1 .. MaxItems : Len(sent) >= n ~> Len(got) >= n

(* close() wakes a consumer that sleeps on an empty queue: its pop()        *)
(* returns.                                                                 *)
PopReturnsOnceClosed == is_closed_ /\ pc[Consumer] # "idle" ~> pc[Consumer] = "idle"
=============================================================================
