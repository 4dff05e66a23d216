------------------------ MODULE ThreadLocalPoolLinked ------------------------
(***************************************************************************)
(* The thread-local pool down to its links: the central pool is the        *)
(* lock-free pool itself, called by several threads at a time, and the     *)
(* list of a thread is linked by the same first words of the blocks.       *)
(* A thread inside central_pool_.allocate() may read the first word of a   *)
(* block that by now is in the list of another thread or in use.           *)
(*                                                                         *)
(* Freers is empty, and inUse of LockFreePool here is the set of blocks    *)
(* that have left the central pool.                                        *)
(***************************************************************************)
EXTENDS LockFreePool

CONSTANT BLOCKS_TO_FETCH

VARIABLES local_free_list_,    \* per thread: the head of its list
          step, fetched,       \* per thread: the allocate() it is in
          users,               \* the blocks handed out and not given back
          life, running        \* of the pool, and the threads that run

calls  == <<step, fetched>>
world  == <<life, running>>
own    == <<local_free_list_, calls, users, world>>
linkedVars == <<vars, own>>

LinkedInit == /\ Init
              /\ local_free_list_ = [t \in Threads |-> NoBlock]
              /\ step = [t \in Threads |-> "idle"]
              /\ fetched = [t \in Threads |-> 0]
              /\ users = {}
              /\ life = "unborn"
              /\ running = {}

Step(t, label) == step' = [step EXCEPT ![t] = label]

(* Two statements; no other thread depends on what it reads in between. *)
Push(t, b) == /\ next' = [next EXCEPT ![b] = local_free_list_[t]]
              /\ local_free_list_' = [local_free_list_ EXCEPT ![t] = b]
              /\ UNCHANGED <<free_list_head_, locals, inUse, free>>

CreatePool  == life = "unborn" /\ life' = "alive"
               /\ UNCHANGED <<vars, local_free_list_, calls, users, running>>

DestroyPool == /\ life = "alive" /\ users = {} /\ \A t \in Threads : step[t] = "idle"
               /\ life' = "destroyed"
               /\ UNCHANGED <<vars, local_free_list_, calls, users, running>>

StartThread(t) == /\ t \notin running
                  /\ running' = running \cup {t}
                  /\ UNCHANGED <<vars, local_free_list_, calls, users, life>>

ExitThread(t) == /\ t \in running /\ step[t] = "idle"
                 /\ running' = running \ {t}
                 /\ local_free_list_' = [local_free_list_ EXCEPT ![t] = NoBlock]
                 /\ UNCHANGED <<vars, calls, users, life>>

----------------------------------------------------------------------------
Enter(t, label) ==
    /\ t \in running /\ life = "alive" /\ step[t] = "idle"
    /\ Step(t, label)
    /\ UNCHANGED <<vars, local_free_list_, fetched, users, world>>

Allocate(t) == Enter(t, IF local_free_list_[t] = NoBlock THEN "fetch" ELSE "take")

(* fetch_from_central_pool(): central_pool_.allocate(), step by step ... *)
CallCentral(t) == /\ step[t] = "fetch"
                  /\ \/ fetched[t] < BLOCKS_TO_FETCH /\ AllocLoad(t)
                     \/ AllocReadNext(t)
                     \/ AllocRetry(t)
                  /\ UNCHANGED own

CentralGives(t) == /\ step[t] = "fetch"
                   /\ AllocSwap(t)
                   /\ Step(t, "link")
                   /\ UNCHANGED <<local_free_list_, fetched, users, world>>

(* ... and the block it returned, which the thread puts in its list. *)
Fetched(t) == /\ step[t] = "link"
              /\ fetched' = [fetched EXCEPT ![t] = @ + 1]
              /\ Step(t, "fetch")
              /\ UNCHANGED <<users, world>>

(* Fault: the head moves to the new block, whose link is left as it was. *)
LinkInUnlinked(t) == /\ Fetched(t)
                     /\ local_free_list_' = [local_free_list_ EXCEPT ![t] = head[t]]
                     /\ UNCHANGED vars

LinkIn(t) == Fetched(t) /\ Push(t, head[t])

FetchEnd(t) == /\ step[t] = "fetch" /\ pc[t] = "idle"
               /\ fetched[t] = BLOCKS_TO_FETCH \/ free_list_head_ = NoBlock
               /\ fetched' = [fetched EXCEPT ![t] = 0]
               /\ Step(t, "take")
               /\ UNCHANGED <<vars, local_free_list_, users, world>>

Take(t) == /\ step[t] = "take"
           /\ local_free_list_[t] # NoBlock
           /\ users' = users \cup {local_free_list_[t]}
           /\ local_free_list_' = [local_free_list_ EXCEPT ![t] = next[@]]
           /\ Step(t, "idle")
           /\ UNCHANGED <<vars, fetched, world>>

TakeNone(t) == /\ step[t] = "take"
               /\ local_free_list_[t] = NoBlock
               /\ Step(t, "idle")
               /\ UNCHANGED <<vars, local_free_list_, fetched, users, world>>

Deallocate(t, b) == /\ t \in running /\ step[t] = "idle"
                    /\ b \in users
                    /\ users' = users \ {b}
                    /\ Push(t, b)
                    /\ UNCHANGED <<calls, world>>

UserOverwrites(b) == b \in users /\ UserWrites(b) /\ UNCHANGED own

InAllocate(t) == \/ CallCentral(t) \/ CentralGives(t) \/ LinkIn(t)
                 \/ FetchEnd(t) \/ Take(t) \/ TakeNone(t)

LinkedNext ==
    \/ CreatePool \/ DestroyPool
    \/ \E t \in Threads : \/ StartThread(t) \/ ExitThread(t)
                          \/ Allocate(t) \/ InAllocate(t)
    \/ \E t \in Threads, b \in Blocks : Deallocate(t, b)
    \/ \E b \in Blocks : UserOverwrites(b)

LinkedSpec == LinkedInit /\ [][LinkedNext]_linkedVars

----------------------------------------------------------------------------
(* The blocks found by following the links, until one is no link to a block *)
(* (or more have been found than there are).                                *)
Followed(links, b) ==
    LET at[i \in 1 .. BlockCount + 2] ==
          IF i = 1 THEN b ELSE IF at[i - 1] \in Blocks THEN links[at[i - 1]] ELSE NoBlock
    IN  at

ListIn(links, b) ==
    LET at     == Followed(links, b)
        length == CHOOSE n \in 0 .. BlockCount + 1 :
                    /\ \A i \in 1 .. n : at[i] \in Blocks
                    /\ n = BlockCount + 1 \/ at[n + 1] \notin Blocks
    IN  [i \in 1 .. length |-> at[i]]

ListFrom(b) == ListIn(next, b)

(* "Any read or write of it is free of data races" (README.md of the pool,  *)
(* of the list of a thread): no other thread is about to read the link of a *)
(* block in that list.                                                      *)
ListsAreNotRacedOn == \A t \in Threads : \A u \in Threads \ {t} :
    LET list == ListFrom(local_free_list_[u]) IN
    pc[t] = "readNext" => \A i \in 1 .. Len(list) : list[i] # head[t]

(* What the links say implements the thread-local pool in which the lists   *)
(* are sequences and central_pool_.allocate() is one step, that of the swap *)
(* that succeeds: stale links read meanwhile never get into a list.         *)
ThePool == "the pool"
AsBlock(b) == [pool |-> ThePool, nr |-> b]
ListOf(t)  == LET list == ListFrom(local_free_list_[t])
                  all  == IF step[t] = "link" THEN <<head[t]>> \o list ELSE list
              IN  [i \in 1 .. Len(all) |-> AsBlock(all[i])]

ThreadLocal == INSTANCE ThreadLocalPool WITH
    ThreadIds        <- Threads,
    Pools            <- {ThePool},
    BlockCount       <- [p \in {ThePool} |-> BlockCount],
    central_pool_    <- [p \in {ThePool} |-> IF life # "alive" THEN 0
                                             ELSE Len(ListFrom(free_list_head_))],
    life             <- [p \in {ThePool} |-> life],
    local_free_list_ <- [t \in Threads |-> ListOf(t)],
    pc      <- [t \in Threads |-> IF step[t] = "link" THEN "fetch" ELSE step[t]],
    pool    <- [t \in Threads |-> ThePool],
    fetched <- [t \in Threads |-> IF step[t] = "link" THEN fetched[t] + 1 ELSE fetched[t]],
    inUse   <- {AsBlock(b) : b \in users}
ThreadLocalSpec == ThreadLocal!Spec
=============================================================================
