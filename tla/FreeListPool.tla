---------------------------- MODULE FreeListPool ----------------------------
(***************************************************************************)
(* thread_safe_fixed_memory_pool_mutex: the linked list of LockFreePool    *)
(* with a mutex instead of compare-and-swap.  With one thread the mutex    *)
(* never makes anyone wait and the module is fixed_memory_pool, which is   *)
(* the same code without it.                                               *)
(***************************************************************************)
EXTENDS PoolBlocks

CONSTANT Threads

VARIABLES free_list_head_, mutex_,
          next,                 \* the first word of each block
          pc, ptr,              \* per thread: position; the block it handles
          inUse,
          free                  \* history: the free blocks, last freed first

vars == <<free_list_head_, mutex_, next, pc, ptr, inUse, free>>

Init == /\ free_list_head_ = InitialHead
        /\ mutex_ = {}
        /\ next = InitialLinks
        /\ pc = [t \in Threads |-> "idle"]
        /\ ptr = [t \in Threads |-> NoBlock]
        /\ inUse = {}
        /\ free = InitialList

Goto(t, label) == pc' = [pc EXCEPT ![t] = label]
Lock(t)   == mutex_ = {} /\ mutex_' = {t}
Unlock(t) == mutex_' = mutex_ \ {t}

----------------------------------------------------------------------------
(* allocate(): the test for an empty list, whose answer is nullptr, and the *)
(* load of the head ...                                                     *)
AllocEnter(t) ==
    /\ pc[t] = "idle"
    /\ Lock(t)
    /\ Goto(t, "load")
    /\ UNCHANGED <<free_list_head_, next, ptr, inUse, free>>

AllocEmpty(t) ==
    /\ pc[t] = "load"
    /\ free_list_head_ = NoBlock
    /\ Unlock(t)
    /\ Goto(t, "idle")
    /\ UNCHANGED <<free_list_head_, next, ptr, inUse, free>>

AllocLoad(t) ==
    /\ pc[t] = "load"
    /\ free_list_head_ # NoBlock
    /\ ptr' = [ptr EXCEPT ![t] = free_list_head_]
    /\ Goto(t, "pop")
    /\ UNCHANGED <<free_list_head_, mutex_, next, inUse, free>>

(* ... then the list begins with the next block. *)
AllocPop(t) ==
    /\ pc[t] = "pop"
    /\ free_list_head_' = next[free_list_head_]
    /\ inUse' = inUse \cup {ptr[t]}
    /\ free' = Tail(free)
    /\ Unlock(t)
    /\ Goto(t, "idle")
    /\ UNCHANGED <<next, ptr>>

(* Fault: deallocate() runs without the mutex. *)
FreeEnterUnlocked(t, b) ==
    /\ pc[t] = "idle"
    /\ b \in inUse
    /\ inUse' = inUse \ {b}
    /\ ptr' = [ptr EXCEPT ![t] = b]
    /\ Goto(t, "link")
    /\ UNCHANGED <<free_list_head_, mutex_, next, free>>

(* deallocate(): *)
FreeEnter(t, b) ==
    /\ pc[t] = "idle"
    /\ b \in inUse
    /\ Lock(t)
    /\ inUse' = inUse \ {b}
    /\ ptr' = [ptr EXCEPT ![t] = b]
    /\ Goto(t, "link")
    /\ UNCHANGED <<free_list_head_, next, free>>

FreeLink(t) ==
    /\ pc[t] = "link"
    /\ next' = [next EXCEPT ![ptr[t]] = free_list_head_]
    /\ Goto(t, "push")
    /\ UNCHANGED <<free_list_head_, mutex_, ptr, inUse, free>>

FreePush(t) ==
    /\ pc[t] = "push"
    /\ free_list_head_' = ptr[t]
    /\ free' = <<ptr[t]>> \o free
    /\ Unlock(t)
    /\ Goto(t, "idle")
    /\ UNCHANGED <<next, ptr, inUse>>

(* The user of a block writes over its first word. *)
UserWrites(b) ==
    /\ b \in inUse
    /\ next' = [next EXCEPT ![b] = Payload]
    /\ UNCHANGED <<free_list_head_, mutex_, pc, ptr, inUse, free>>

Next == \/ \E t \in Threads : AllocEnter(t) \/ AllocEmpty(t) \/ AllocLoad(t) \/ AllocPop(t)
        \/ \E t \in Threads : FreeLink(t) \/ FreePush(t)
        \/ \E t \in Threads, b \in Blocks : FreeEnter(t, b)
        \/ \E b \in Blocks : UserWrites(b)

Spec == Init /\ [][Next]_vars

----------------------------------------------------------------------------
(* The linked list starting at free_list_head_ is the list of the free      *)
(* blocks at every moment, in the middle of a call too: what the mutex      *)
(* protects is never seen half changed, and no block in use is in the list. *)
FreeSet == {free[i] : i \in 1 .. Len(free)}
FreeListIntact ==
    /\ free_list_head_ = IF free = <<>> THEN NoBlock ELSE free[1]
    /\ \A i \in 1 .. Len(free) :
         next[free[i]] = IF i = Len(free) THEN NoBlock ELSE free[i + 1]
    /\ FreeSet \cap inUse = {}
=============================================================================
