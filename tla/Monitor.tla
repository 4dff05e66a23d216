------------------------------ MODULE Monitor ------------------------------
(***************************************************************************)
(* std::mutex and std::condition_variable as the blocking queues use them: *)
(* one mutex, and threads that sleep on one of its conditions.  wait()     *)
(* releases the mutex and goes to sleep in one step; a thread that is      *)
(* woken, by a notification or spuriously, must lock the mutex again.      *)
(***************************************************************************)
CONSTANTS Threads, Conditions, NoThread

VARIABLES owner,        \* the thread that holds the mutex, or NoThread
          waiting       \* condition -> the threads asleep on it

MonitorTypeOK == /\ owner \in Threads \cup {NoThread}
                 /\ waiting \in [Conditions -> SUBSET Threads]

MonitorInit == /\ owner = NoThread
               /\ waiting = [c \in Conditions |-> {}]

Asleep(t) == \E c \in Conditions : t \in waiting[c]

Lock(t)   == /\ owner = NoThread
             /\ ~Asleep(t)
             /\ owner' = t
             /\ UNCHANGED waiting

Unlock(t) == /\ owner = t
             /\ owner' = NoThread
             /\ UNCHANGED waiting

Sleep(t, c) == /\ owner = t
               /\ owner' = NoThread
               /\ waiting' = [waiting EXCEPT ![c] = @ \cup {t}]

NotifyOne(c) == /\ UNCHANGED owner
                /\ \/ /\ waiting[c] = {}
                      /\ UNCHANGED waiting
                   \/ \E t \in waiting[c] : waiting' = [waiting EXCEPT ![c] = @ \ {t}]

NotifyAll(c) == /\ UNCHANGED owner
                /\ waiting' = [waiting EXCEPT ![c] = {}]

WakeSpuriously(t) == \E c \in Conditions :
    /\ t \in waiting[c]
    /\ waiting' = [waiting EXCEPT ![c] = @ \ {t}]
    /\ UNCHANGED owner
=============================================================================
