--------------------------- MODULE ThreadLocalPool ---------------------------
(***************************************************************************)
(* thread_safe_fixed_memory_pool_thread_local: every thread takes blocks   *)
(* from a list of its own, which it fills from a central lock-free pool    *)
(* and to which it gives blocks back, whichever thread they came from.     *)
(*                                                                         *)
(* local_free_list_ is static: one list per thread for all pools of the    *)
(* program.  Nothing is ever given back to a central pool, so its free     *)
(* list is known from its length (LockFreePool with no thread in Freers):  *)
(* with central_pool_[p] = n it holds the blocks n, n - 1, ... 1 of p.     *)
(***************************************************************************)
EXTENDS Naturals, Sequences

CONSTANTS ThreadIds,
          Pools,               \* the pieces of memory pools are made in
          BlockCount,          \* block_cnt, of each pool
          BLOCKS_TO_FETCH

ASSUME BlockCountAssumption == BlockCount \in [Pools -> Nat]
ASSUME FetchAssumption      == BLOCKS_TO_FETCH \in Nat

Blocks == UNION {[pool : {p}, nr : 1 .. BlockCount[p]] : p \in Pools}

VARIABLES central_pool_,       \* per pool: the blocks not fetched so far
          life,                \* per pool: "unborn", "alive" or "destroyed"
          local_free_list_,    \* per thread, first block first
          running,             \* the threads that have started and not exited
          pc, pool, fetched,   \* per thread: the allocate() it is in
          inUse                \* the blocks handed out and not given back

call == <<pc, pool, fetched>>
vars == <<central_pool_, life, local_free_list_, running, call, inUse>>

Init == /\ central_pool_ = [p \in Pools |-> 0]
        /\ life = [p \in Pools |-> "unborn"]
        /\ local_free_list_ = [t \in ThreadIds |-> <<>>]
        /\ running = {}
        /\ pc = [t \in ThreadIds |-> "idle"]
        /\ pool = [t \in ThreadIds |-> CHOOSE p \in Pools : TRUE]
        /\ fetched = [t \in ThreadIds |-> 0]
        /\ inUse = {}

Goto(t, label) == pc' = [pc EXCEPT ![t] = label]
Push(t, b)     == local_free_list_' = [local_free_list_ EXCEPT ![t] = <<b>> \o @]

----------------------------------------------------------------------------
(* Pools and threads come and go.  A pool is destroyed by a program that   *)
(* has given all its blocks back; an exiting thread drops its list.  The   *)
(* memory malloc() gives a new pool may be that of one destroyed before,   *)
(* whose blocks lists of threads still hold.                               *)
CreatePool(p) ==
    /\ life[p] # "alive"
    /\ life' = [life EXCEPT ![p] = "alive"]
    /\ central_pool_' = [central_pool_ EXCEPT ![p] = BlockCount[p]]
    /\ UNCHANGED <<local_free_list_, running, call, inUse>>

DestroyPool(p) ==
    /\ life[p] = "alive"
    /\ \A t \in ThreadIds : pc[t] # "idle" => pool[t] # p
    /\ \A b \in inUse : b.pool # p
    /\ life' = [life EXCEPT ![p] = "destroyed"]
    /\ central_pool_' = [central_pool_ EXCEPT ![p] = 0]
    /\ UNCHANGED <<local_free_list_, running, call, inUse>>

StartThread(t) ==
    /\ t \notin running
    /\ running' = running \cup {t}
    /\ UNCHANGED <<central_pool_, life, local_free_list_, call, inUse>>

ExitThread(t) ==
    /\ t \in running
    /\ pc[t] = "idle"
    /\ running' = running \ {t}
    /\ local_free_list_' = [local_free_list_ EXCEPT ![t] = <<>>]
    /\ UNCHANGED <<central_pool_, life, call, inUse>>

----------------------------------------------------------------------------
(* Fault: blocks are fetched though the thread still has some. *)
AllocateAlwaysFetching(t, p) ==
    /\ t \in running
    /\ pc[t] = "idle"
    /\ life[p] = "alive"
    /\ pool' = [pool EXCEPT ![t] = p]
    /\ Goto(t, "fetch")
    /\ UNCHANGED <<central_pool_, life, local_free_list_, running, fetched, inUse>>

(* allocate(): *)
Allocate(t, p) ==
    /\ t \in running
    /\ pc[t] = "idle"
    /\ life[p] = "alive"
    /\ pool' = [pool EXCEPT ![t] = p]
    /\ Goto(t, IF local_free_list_[t] = <<>> THEN "fetch" ELSE "take")
    /\ UNCHANGED <<central_pool_, life, local_free_list_, running, fetched, inUse>>

MayFetch(t) == fetched[t] < BLOCKS_TO_FETCH /\ central_pool_[pool[t]] > 0

(* fetch_from_central_pool(), one block of the batch: *)
FetchOne(t) ==
    /\ pc[t] = "fetch"
    /\ MayFetch(t)
    /\ Push(t, [pool |-> pool[t], nr |-> central_pool_[pool[t]]])
    /\ central_pool_' = [central_pool_ EXCEPT ![pool[t]] = @ - 1]
    /\ fetched' = [fetched EXCEPT ![t] = @ + 1]
    /\ UNCHANGED <<life, running, pc, pool, inUse>>

FetchEnd(t) ==
    /\ pc[t] = "fetch"
    /\ ~MayFetch(t)
    /\ fetched' = [fetched EXCEPT ![t] = 0]
    /\ Goto(t, "take")
    /\ UNCHANGED <<central_pool_, life, local_free_list_, running, pool, inUse>>

(* Fault: the head of the thread's list is handed out and stays there. *)
TakeByLooking(t) ==
    /\ pc[t] = "take"
    /\ local_free_list_[t] # <<>>
    /\ inUse' = inUse \cup {Head(local_free_list_[t])}
    /\ Goto(t, "idle")
    /\ UNCHANGED <<central_pool_, life, local_free_list_, running, pool, fetched>>

(* allocate() returns the head of the thread's list ... *)
Take(t) ==
    /\ pc[t] = "take"
    /\ local_free_list_[t] # <<>>
    /\ inUse' = inUse \cup {Head(local_free_list_[t])}
    /\ local_free_list_' = [local_free_list_ EXCEPT ![t] = Tail(@)]
    /\ Goto(t, "idle")
    /\ UNCHANGED <<central_pool_, life, running, pool, fetched>>

(* ... or nullptr. *)
TakeNone(t) ==
    /\ pc[t] = "take"
    /\ local_free_list_[t] = <<>>
    /\ Goto(t, "idle")
    /\ UNCHANGED <<central_pool_, life, local_free_list_, running, pool, fetched, inUse>>

(* deallocate(): the user of the block calls it, in any thread. *)
Deallocate(t, b) ==
    /\ t \in running
    /\ pc[t] = "idle"
    /\ b \in inUse
    /\ inUse' = inUse \ {b}
    /\ Push(t, b)
    /\ UNCHANGED <<central_pool_, life, running, call>>

InAllocate(t) == FetchOne(t) \/ FetchEnd(t) \/ Take(t) \/ TakeNone(t)

Next == \/ \E p \in Pools : CreatePool(p) \/ DestroyPool(p)
        \/ \E t \in ThreadIds : StartThread(t) \/ ExitThread(t) \/ InAllocate(t)
        \/ \E t \in ThreadIds, p \in Pools : Allocate(t, p)
        \/ \E t \in ThreadIds, b \in Blocks : Deallocate(t, b)

Spec == Init /\ [][Next]_vars

----------------------------------------------------------------------------
(* The lists of the threads, the central pools and the users of blocks      *)
(* share no block, and no list holds a block twice: threads that exchange   *)
(* blocks and fetch at the same time never come to own the same one.        *)
InList(t, b)   == \E i \in 1 .. Len(local_free_list_[t]) : local_free_list_[t][i] = b
InCentral(b)   == b.nr <= central_pool_[b.pool]
EachBlockOnce ==
    /\ \A t \in ThreadIds : \A i, j \in 1 .. Len(local_free_list_[t]) :
         local_free_list_[t][i] = local_free_list_[t][j] => i = j
    /\ \A t \in ThreadIds, b \in Blocks : InList(t, b) =>
         /\ b \notin inUse
         /\ ~InCentral(b)
         /\ \A u \in ThreadIds : InList(u, b) => u = t
    /\ \A b \in inUse : ~InCentral(b)
=============================================================================
