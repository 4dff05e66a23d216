-------------------------- MODULE SPSCTimeoutQueue --------------------------
(***************************************************************************)
(* spsc_timeout_queue.h: every push and pop comes in three modes, to wait  *)
(* for ever ("block"), for a duration ("timed") or not at all ("try").     *)
(*                                                                         *)
(* Time passes in ticks, TicksPerMs of them to a millisecond.  A duration  *)
(* is rounded down to milliseconds before it is waited for.  A sleep whose *)
(* time is up may end at any moment from then on; the thread still has to  *)
(* lock mutex_ and to look at the queue once more.                         *)
(*                                                                         *)
(* buffer_ is declared before buffer_capacity_ and is therefore built from *)
(* an uninitialised number of slots: any of InitialSizes here.             *)
(***************************************************************************)
EXTENDS QueueItems, FiniteSets

CONSTANTS Producer, Consumer, Closers, NoThread,
          Durations,    \* the timeouts of push_for() and pop_for(), in ticks
          TicksPerMs,
          InitialSizes  \* what buffer_capacity_ may hold before it is set

Callers    == {Producer, Consumer}
Threads    == Callers \cup Closers
Conditions == {"not_full", "not_empty"}

ASSUME ThreadsAssumption == /\ Producer # Consumer
                            /\ Callers \cap Closers = {}
                            /\ NoThread \notin Threads
ASSUME TimeAssumption    == Durations \subseteq Nat /\ TicksPerMs \in Nat \ {0}
ASSUME SizesAssumption   == InitialSizes \subseteq Nat

VARIABLES buffer_, head_, tail_, closed_,
          owner, waiting,       \* mutex_, and who sleeps on which condition
          pc,                   \* where each thread is in its call
          call,                 \* the current call of each caller
          item,                 \* the argument of the current push
          ended,                \* history: a blocking pop() has returned false
          sent, got             \* history: the items pushed, the items popped

ring    == <<buffer_, head_, tail_>>
monitor == <<owner, waiting>>
history == <<ended, sent, got>>
vars    == <<ring, closed_, monitor, pc, call, item, history>>

INSTANCE Monitor

Goto(t, label) == pc' = [pc EXCEPT ![t] = label]
Full  == IsFull(head_, tail_)
Empty == IsEmpty(head_, tail_)

----------------------------------------------------------------------------
(* A call: what was asked for, whether its wait has begun and the ticks  *)
(* left of it, and the ticks since the call was made (up to "asked").       *)
MillisecondsAsTicks(ticks) == ticks \div TicksPerMs     \* fault: a wrong unit
RoundDown(ticks) == (ticks \div TicksPerMs) * TicksPerMs
NewCall(mode, ticks) == [mode |-> mode, asked |-> ticks, left |-> RoundDown(ticks),
                         passed |-> 0, begun |-> FALSE]
Calls == {NewCall(m, 0) : m \in {"block", "try"}} \cup {NewCall("timed", d) : d \in Durations}

Init == /\ \E size \in InitialSizes : buffer_ = [i \in 0 .. size - 1 |-> NoItem]
        /\ head_ = 0 /\ tail_ = 0
        /\ closed_ = FALSE
        /\ MonitorInit
        /\ pc = [t \in Threads |-> "idle"]
        /\ call = [t \in Callers |-> NewCall("try", 0)]
        /\ item = NoItem
        /\ ended = FALSE /\ sent = <<>> /\ got = <<>>

PushCall(x, c) ==
    /\ pc[Producer] = "idle"
    /\ Len(sent) < MaxItems
    /\ item' = x
    /\ call' = [call EXCEPT ![Producer] = c]
    /\ Goto(Producer, "enter")
    /\ UNCHANGED <<ring, closed_, monitor, history>>

PopCall(c) ==
    /\ pc[Consumer] = "idle"
    /\ call' = [call EXCEPT ![Consumer] = c]
    /\ Goto(Consumer, "enter")
    /\ UNCHANGED <<ring, closed_, monitor, item, history>>

(* Lock mutex_, at the start of a call or after a sleep. *)
Enter(t) ==
    /\ pc[t] = "enter"
    /\ Lock(t)
    /\ Goto(t, "test")
    /\ UNCHANGED <<ring, closed_, call, item, history>>

(* Fault: a push whose wait is over does not look at closed_ again. *)
PossibleThoughClosed(t) == IF t = Producer THEN ~Full ELSE ~Empty

(* The call can do its work; the predicate of its wait; whether it is not   *)
(* to wait, or no longer: wait_for() gives up on finding its time over when *)
(* it has slept, whatever it was that woke it.                              *)
Possible(t)  == IF t = Producer THEN ~Full /\ ~closed_ ELSE ~Empty
WaitedFor(t) == IF t = Producer THEN ~Full \/ closed_ ELSE ~Empty \/ closed_
MustNotWait(t) == \/ call[t].mode = "try"
                  \/ call[t].mode = "timed" /\ call[t].begun /\ call[t].left = 0

(* Fault: a timed call whose time is up gives up without another look. *)
TestTrustingTimeout(t) ==
    /\ pc[t] = "test"
    /\ Goto(t, IF call[t].mode = "timed" /\ MustNotWait(t) THEN "refuse"
               ELSE IF Possible(t) THEN "act"
               ELSE IF WaitedFor(t) \/ MustNotWait(t) THEN "refuse" ELSE "sleep")
    /\ call' = [call EXCEPT ![t].begun = @ \/ ~(WaitedFor(t) \/ MustNotWait(t))]
    /\ UNCHANGED <<ring, closed_, monitor, item, history>>

(* Fault: every sleep of one call starts its timeout anew. *)
TestRestartingTimeout(t) ==
    /\ pc[t] = "test"
    /\ Goto(t, IF Possible(t) THEN "act"
               ELSE IF WaitedFor(t) \/ MustNotWait(t) THEN "refuse" ELSE "sleep")
    /\ call' = [call EXCEPT ![t].begun = TRUE, ![t].left = RoundDown(call[t].asked)]
    /\ UNCHANGED <<ring, closed_, monitor, item, history>>

Test(t) ==
    /\ pc[t] = "test"
    /\ \/ /\ Possible(t)
          /\ Goto(t, "act")
          /\ UNCHANGED call
       \/ /\ ~Possible(t)
          /\ WaitedFor(t) \/ MustNotWait(t)
          /\ Goto(t, "refuse")
          /\ UNCHANGED call
       \/ /\ ~WaitedFor(t)
          /\ ~MustNotWait(t)
          /\ Goto(t, "sleep")
          /\ call' = [call EXCEPT ![t].begun = TRUE]
    /\ UNCHANGED <<ring, closed_, monitor, item, history>>

ConditionOf(t) == IF t = Producer THEN "not_full" ELSE "not_empty"

SleepOn(t) ==
    /\ pc[t] = "sleep"
    /\ Sleep(t, ConditionOf(t))
    /\ Goto(t, "enter")
    /\ UNCHANGED <<ring, closed_, call, item, history>>

TimeOut(t) ==
    /\ t \in waiting[ConditionOf(t)]
    /\ call[t].mode = "timed"
    /\ call[t].left = 0
    /\ WakeSpuriously(t)
    /\ UNCHANGED <<ring, closed_, pc, call, item, history>>

SpuriousWakeup(t) ==
    /\ WakeSpuriously(t)
    /\ UNCHANGED <<ring, closed_, pc, call, item, history>>

(* A tick of the clock, seen by every call that is being made. *)
Ticked(c) == [c EXCEPT !.left   = IF c.begun /\ @ > 0 THEN @ - 1 ELSE @,
                       !.passed = IF @ < c.asked THEN @ + 1 ELSE @]
Tick == /\ call' = [t \in Callers |-> IF pc[t] = "idle" THEN call[t] ELSE Ticked(call[t])]
        /\ UNCHANGED <<ring, closed_, monitor, pc, item, history>>

PushInsert ==
    /\ pc[Producer] = "act"
    /\ buffer_' = [buffer_ EXCEPT ![tail_] = item]
    /\ tail_' = Advance(tail_)
    /\ sent' = Append(sent, item)
    /\ Goto(Producer, "notify")
    /\ UNCHANGED <<head_, closed_, monitor, call, item, ended, got>>

(* Fault: head_ moves on before the slot is read. *)
PopAfterAdvancing ==
    /\ pc[Consumer] = "act"
    /\ LET first == Advance(head_)
       IN  /\ got' = Append(got, buffer_[first])
           /\ buffer_' = [buffer_ EXCEPT ![first] = NoItem]
           /\ head_' = first
    /\ Goto(Consumer, "notify")
    /\ UNCHANGED <<tail_, closed_, monitor, call, item, ended, sent>>

(* The item is moved out of its slot. *)
PopRemove ==
    /\ pc[Consumer] = "act"
    /\ got' = Append(got, buffer_[head_])
    /\ buffer_' = [buffer_ EXCEPT ![head_] = NoItem]
    /\ head_' = Advance(head_)
    /\ Goto(Consumer, "notify")
    /\ UNCHANGED <<tail_, closed_, monitor, call, item, ended, sent>>

Notify(t) ==
    /\ pc[t] = "notify"
    /\ NotifyOne(IF t = Producer THEN "not_empty" ELSE "not_full")
    /\ Goto(t, "leave")
    /\ UNCHANGED <<ring, closed_, call, item, history>>

(* Every return of push_internal() and pop_internal() unlocks mutex_.       *)
Return(t) ==
    /\ pc[t] \in {"refuse", "leave"}
    /\ Unlock(t)
    /\ Goto(t, "idle")
    /\ ended' = (ended \/ (t = Consumer /\ pc[t] = "refuse" /\ call[t].mode = "block"))
    /\ UNCHANGED <<ring, closed_, call, item, sent, got>>

----------------------------------------------------------------------------
(* close() *)
(* Fault: close() sets the flag without mutex_. *)
CloseUnlocked(t) ==
    /\ pc[t] = "idle"
    /\ closed_' = TRUE
    /\ Goto(t, "wakeProducer")
    /\ UNCHANGED <<ring, monitor, call, item, history>>

CloseEnter(t) ==
    /\ pc[t] = "idle"
    /\ Lock(t)
    /\ Goto(t, "close")
    /\ UNCHANGED <<ring, closed_, call, item, history>>

CloseStore(t) ==
    /\ pc[t] = "close"
    /\ closed_' = TRUE
    /\ Goto(t, "unlock")
    /\ UNCHANGED <<ring, monitor, call, item, history>>

CloseLeave(t) ==
    /\ pc[t] = "unlock"
    /\ Unlock(t)
    /\ Goto(t, "wakeProducer")
    /\ UNCHANGED <<ring, closed_, call, item, history>>

CloseWakeProducer(t) ==
    /\ pc[t] = "wakeProducer"
    /\ NotifyAll("not_full")
    /\ Goto(t, "wakeConsumer")
    /\ UNCHANGED <<ring, closed_, call, item, history>>

(* Fault: close() notifies one of the two conditions only. *)
CloseForgetsConsumer(t) ==
    /\ pc[t] = "wakeConsumer"
    /\ Goto(t, "idle")
    /\ UNCHANGED <<ring, closed_, monitor, call, item, history>>

CloseWakeConsumer(t) ==
    /\ pc[t] = "wakeConsumer"
    /\ NotifyAll("not_empty")
    /\ Goto(t, "idle")
    /\ UNCHANGED <<ring, closed_, call, item, history>>

----------------------------------------------------------------------------
InCall(t)  == \/ Test(t) \/ SleepOn(t) \/ Notify(t) \/ Return(t)
              \/ t = Producer /\ PushInsert
              \/ t = Consumer /\ PopRemove
Closing(t) == CloseStore(t) \/ CloseLeave(t) \/ CloseWakeProducer(t) \/ CloseWakeConsumer(t)

Next == \/ \E c \in Calls : PopCall(c) \/ \E x \in Items : PushCall(x, c)
        \/ \E t \in Callers : Enter(t) \/ InCall(t) \/ TimeOut(t) \/ SpuriousWakeup(t)
        \/ Tick
        \/ \E t \in Closers : CloseEnter(t) \/ Closing(t)

Spec == Init /\ [][Next]_vars

(* A thread inside a call keeps running, one that contends for mutex_ gets  *)
(* it in the end, time passes and a sleep whose time is up ends.  Nobody    *)
(* has to make any call.                                                    *)
Fairness ==
    /\ \A t \in Callers : WF_vars(InCall(t)) /\ SF_vars(Enter(t)) /\ WF_vars(TimeOut(t))
    /\ WF_vars(Tick)
    /\ \A t \in Closers : WF_vars(Closing(t))

FairSpec == Spec /\ Fairness

----------------------------------------------------------------------------
(* No wake-up is lost, also when notifications race with timeouts: a thread *)
(* sleeps on a condition that holds only while its notifier is on its way.  *)
ToBeWoken(t) ==
    \/ \E u \in Callers \ {t} : pc[u] = "notify"
    \/ \E u \in Closers : pc[u] \in {"unlock", "wakeProducer"}
                                      \cup IF t = Consumer THEN {"wakeConsumer"} ELSE {}
NoLostWakeup == \A t \in Callers :
    t \in waiting[ConditionOf(t)] /\ WaitedFor(t) => ToBeWoken(t)

(* A call answers false only while it holds mutex_ and sees that it can do  *)
(* nothing: an item that arrived, or room that was made, just before its    *)
(* time was up is not missed.                                               *)
NothingMissed == \A t \in Callers : pc[t] = "refuse" => ~Possible(t)

(* "wait for the given duration" (spsc_timeout_queue.h, push_for() and      *)
(* pop_for()): a timed call that gives up on an open queue was in the call  *)
(* for all the whole milliseconds that it was asked to wait, however often  *)
(* it was woken.                                                            *)
WholeMs(ticks) == ticks - (ticks % TicksPerMs)
WaitsAsAsked == \A t \in Callers :
    pc[t] = "refuse" /\ call[t].mode = "timed" /\ ~closed_
        => call[t].passed >= WholeMs(call[t].asked)

(* "fixed memory use (preallocated buffer)" (spsc_timeout_queue.h): the     *)
(* slot a push writes is one that the constructor allocated.                *)
SlotIsAllocated == pc[Producer] = "act" => tail_ \in DOMAIN buffer_

(* false from a blocking pop() is the end of the stream: the queue is       *)
(* closed, all that was pushed was popped, and nothing can be pushed.       *)
EndOfStream == ended => closed_ /\ got = sent

(* Whatever the modes of the calls, the queue is the bounded FIFO.          *)
Fifo == INSTANCE BoundedFifo
            WITH queue <- SubSeq(sent, Len(got) + 1, Len(sent)),
                 delivered <- got, closed <- closed_
FifoSpec == Fifo!Spec

(* A timed or non-blocking call returns, though no other thread makes a     *)
(* call; and so does a blocking one once the queue is closed.               *)
TimedCallsReturn == \A t \in Callers :
    pc[t] # "idle" /\ call[t].mode # "block" ~> pc[t] = "idle"
CallsReturnOnceClosed == \A t \in Callers :
    pc[t] # "idle" /\ closed_ ~> pc[t] = "idle"
=============================================================================
