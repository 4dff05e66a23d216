-------------------------- MODULE SPSCQueueObserver --------------------------
(***************************************************************************)
(* A third thread that asks size(), full() or empty() of the lock-free     *)
(* queue while the producer and the consumer work.  All three queries load *)
(* head_, then tail_, both relaxed, and compute from the pair: full() is   *)
(* size() = Capacity and empty() is size() = 0.                            *)
(***************************************************************************)
EXTENDS SPSCQueue

VARIABLES observer,     \* the query thread: which loads are done, what it saw
          sizes         \* history: the numbers of items the queue has held

observerVars == <<observer, sizes>>
allVars      == <<queueVars, observerVars>>

ObserverInit == /\ QueueInit
                /\ observer = [pc |-> "idle", head |-> 1, tail |-> 1, size |-> 0]
                /\ sizes = {0}

(* A relaxed load may return any store not older than the last one seen.   *)
LoadHead == \E k \in observer.head .. Len(head_) :
    /\ observer.pc = "idle"
    /\ observer' = [observer EXCEPT !.pc = "headLoaded", !.head = k]
    /\ UNCHANGED <<queueVars, sizes>>

LoadTail == \E k \in observer.tail .. Len(tail_) :
    /\ observer.pc = "headLoaded"
    /\ observer' = [observer EXCEPT !.pc = "idle", !.tail = k,
                                    !.size = SizeOf(head_[observer.head].at, tail_[k].at)]
    /\ UNCHANGED <<queueVars, sizes>>

QueueStep == /\ QueueNext
             /\ sizes' = sizes \cup {Len(sent') - Len(got')}
             /\ UNCHANGED observer

ObserverNext == QueueStep \/ LoadHead \/ LoadTail
ObserverSpec == ObserverInit /\ [][ObserverNext]_allVars

(* "thread-safe, but the result may be out of date at once" (spsc_queue.h,  *)
(* the notes of empty(), full() and size()): the answer a query gives was   *)
(* the number of items in the queue at some moment up to now.               *)
AnswerIsStaleAtWorst == observer.size \in sizes
=============================================================================
