---------------------------- MODULE LockFreePool ----------------------------
(***************************************************************************)
(* thread_safe_fixed_memory_pool_lock_free: free blocks in a linked list   *)
(* whose head is moved by compare-and-swap.  The link of a free block is   *)
(* its first word, which the user of the block writes over; allocate()     *)
(* reads it from a block another thread may meanwhile have been given.     *)
(*                                                                         *)
(* Threads that may call allocate() and deallocate() are parameters: the   *)
(* list is sound when one thread allocates or when no block is given back, *)
(* as the thread-local pool uses it, and not in general.                   *)
(* A load returns the last value stored: no load here is an acquire, but   *)
(* each address read depends on the pointer loaded before, and machines    *)
(* keep that order.                                                        *)
(***************************************************************************)
EXTENDS PoolBlocks

CONSTANTS Allocators, Freers    \* threads that call allocate(), deallocate()

Threads == Allocators \cup Freers

VARIABLES free_list_head_,
          next,                 \* the first word of each block
          pc, head, link, block,  \* per thread: position and local variables
          inUse,                \* the blocks handed out and not given back
          free                  \* history: the free blocks, last freed first

locals == <<pc, head, link, block>>
vars   == <<free_list_head_, next, locals, inUse, free>>

Init == /\ free_list_head_ = InitialHead
        /\ next = InitialLinks
        /\ pc = [t \in Threads |-> "idle"]
        /\ head = [t \in Threads |-> NoBlock]
        /\ link = [t \in Threads |-> NoBlock]
        /\ block = [t \in Threads |-> NoBlock]
        /\ inUse = {}
        /\ free = InitialList

Goto(t, label) == pc' = [pc EXCEPT ![t] = label]

----------------------------------------------------------------------------
(* allocate(); on an empty list it returns nullptr and changes nothing. *)
AllocLoad(t) ==
    /\ pc[t] = "idle"
    /\ free_list_head_ # NoBlock
    /\ head' = [head EXCEPT ![t] = free_list_head_]
    /\ Goto(t, "readNext")
    /\ UNCHANGED <<free_list_head_, next, link, block, inUse, free>>

AllocReadNext(t) ==
    /\ pc[t] = "readNext"
    /\ head[t] \in Blocks
    /\ link' = [link EXCEPT ![t] = next[head[t]]]
    /\ Goto(t, "swap")
    /\ UNCHANGED <<free_list_head_, next, head, block, inUse, free>>

(* Fault: the new head is stored whatever the head is by now. *)
AllocSwapUncompared(t) ==
    /\ pc[t] = "swap"
    /\ free_list_head_' = link[t]
    /\ inUse' = inUse \cup {head[t]}
    /\ free' = Tail(free)
    /\ Goto(t, "idle")
    /\ UNCHANGED <<next, head, link, block>>

AllocSwap(t) ==
    /\ pc[t] = "swap"
    /\ free_list_head_ = head[t]
    /\ free_list_head_' = link[t]
    /\ inUse' = inUse \cup {head[t]}
    /\ free' = Tail(free)
    /\ Goto(t, "idle")
    /\ UNCHANGED <<next, head, link, block>>

(* The swap fails, spuriously perhaps, and loads the head again. *)
AllocRetry(t) ==
    /\ pc[t] = "swap"
    /\ head' = [head EXCEPT ![t] = free_list_head_]
    /\ Goto(t, IF free_list_head_ = NoBlock THEN "idle" ELSE "readNext")
    /\ UNCHANGED <<free_list_head_, next, link, block, inUse, free>>

----------------------------------------------------------------------------
(* deallocate(): the user gives the block back by calling it. *)
FreeLoad(t, b) ==
    /\ pc[t] = "idle"
    /\ b \in inUse
    /\ inUse' = inUse \ {b}
    /\ block' = [block EXCEPT ![t] = b]
    /\ head' = [head EXCEPT ![t] = free_list_head_]
    /\ Goto(t, "writeNext")
    /\ UNCHANGED <<free_list_head_, next, link, free>>

(* Fault: the link of the block is left as its user wrote it. *)
FreeWithoutLink(t) ==
    /\ pc[t] = "writeNext"
    /\ Goto(t, "push")
    /\ UNCHANGED <<free_list_head_, next, head, link, block, inUse, free>>

FreeWriteNext(t) ==
    /\ pc[t] = "writeNext"
    /\ next' = [next EXCEPT ![block[t]] = head[t]]
    /\ Goto(t, "push")
    /\ UNCHANGED <<free_list_head_, head, link, block, inUse, free>>

(* Fault: the new head is stored whatever the head is by now. *)
FreeSwapUncompared(t) ==
    /\ pc[t] = "push"
    /\ free_list_head_' = block[t]
    /\ free' = <<block[t]>> \o free
    /\ Goto(t, "idle")
    /\ UNCHANGED <<next, head, link, block, inUse>>

FreeSwap(t) ==
    /\ pc[t] = "push"
    /\ free_list_head_ = head[t]
    /\ free_list_head_' = block[t]
    /\ free' = <<block[t]>> \o free
    /\ Goto(t, "idle")
    /\ UNCHANGED <<next, head, link, block, inUse>>

(* Fault: the head that the failed swap found is not kept. *)
FreeRetryWithOldHead(t) ==
    /\ pc[t] = "push"
    /\ Goto(t, "writeNext")
    /\ UNCHANGED <<free_list_head_, next, head, link, block, inUse, free>>

FreeRetry(t) ==
    /\ pc[t] = "push"
    /\ head' = [head EXCEPT ![t] = free_list_head_]
    /\ Goto(t, "writeNext")
    /\ UNCHANGED <<free_list_head_, next, link, block, inUse, free>>

(* The user of a block writes into it. *)
UserWrites(b) ==
    /\ b \in inUse
    /\ next' = [next EXCEPT ![b] = Payload]
    /\ UNCHANGED <<free_list_head_, locals, inUse, free>>

Allocating(t) == AllocLoad(t) \/ AllocReadNext(t) \/ AllocSwap(t) \/ AllocRetry(t)
Freeing(t)    == \/ \E b \in Blocks : FreeLoad(t, b)
                 \/ FreeWriteNext(t) \/ FreeSwap(t) \/ FreeRetry(t)

Next == \/ \E t \in Allocators : Allocating(t)
        \/ \E t \in Freers : Freeing(t)
        \/ \E b \in Blocks : UserWrites(b)

Spec == Init /\ [][Next]_vars

(* A thread inside a call keeps running, and a weak compare-and-swap does   *)
(* not fail spuriously for ever.  Nobody has to make a call.                *)
ChangedHead(t) == free_list_head_ # head[t]
Fairness == \A t \in Threads :
    /\ WF_vars(AllocReadNext(t))
    /\ SF_vars(AllocSwap(t) \/ (ChangedHead(t) /\ AllocRetry(t)))
    /\ WF_vars(FreeWriteNext(t))
    /\ SF_vars(FreeSwap(t) \/ (ChangedHead(t) /\ FreeRetry(t)))

FairSpec == Spec /\ Fairness

----------------------------------------------------------------------------
Words == Blocks \cup {NoBlock, Payload}

(* Every pointer that is followed is null or a block: what a user wrote     *)
(* into a block is read as a link at most and never becomes a list head.    *)
TypeOK == /\ free_list_head_ \in Blocks \cup {NoBlock}
          /\ next \in [Blocks -> Words]
          /\ pc \in [Threads -> {"idle", "readNext", "swap", "writeNext", "push"}]
          /\ head \in [Threads -> Blocks \cup {NoBlock}]
          /\ link \in [Threads -> Words]
          /\ block \in [Threads -> Blocks \cup {NoBlock}]
          /\ inUse \in SUBSET Blocks
          /\ free \in Seq(Blocks)

(* The linked list starting at free_list_head_ is the list of the blocks    *)
(* that are free, none of them twice, none of them in use.                  *)
FreeSet == {free[i] : i \in 1 .. Len(free)}
FreeListIntact ==
    /\ free_list_head_ = IF free = <<>> THEN NoBlock ELSE free[1]
    /\ \A i \in 1 .. Len(free) :
         next[free[i]] = IF i = Len(free) THEN NoBlock ELSE free[i + 1]
    /\ \A i, j \in 1 .. Len(free) : free[i] = free[j] => i = j
    /\ FreeSet \cap inUse = {}

(* "in this implementation the ABA problem leads to no memory corruption"   *)
(* (README.md of the lock-free pool): a block in use is never the one that  *)
(* allocate() hands out next.                                               *)
HeadIsNotInUse == free_list_head_ \notin inUse

(* Each block has one user at a time: a block is handed out by the swap in  *)
(* allocate() and taken in by the swap in deallocate().                     *)
Allocator == INSTANCE BlockAllocator WITH available <- FreeSet
AllocatorSpec == Allocator!Spec

(* The list is lock-free: unless all calls are over from time to time, some *)
(* call completes again and again.                                          *)
Completes == \E t \in Threads : AllocSwap(t) \/ FreeSwap(t) \/
                                 (AllocRetry(t) /\ free_list_head_ = NoBlock)
LockFree == []<>(\A t \in Threads : pc[t] = "idle") \/ []<><<Completes>>_vars
=============================================================================
