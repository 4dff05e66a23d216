---------------------------- MODULE MCSerialCode ----------------------------
(***************************************************************************)
(* The code whose calls never overlap, because one thread makes them or a  *)
(* mutex keeps them apart: the caches, the single-threaded ring buffer,    *)
(* the mutex pool and the algorithms.  A behaviour uses one of them; the   *)
(* algorithms share their variables.                                       *)
(*                                                                         *)
(* The caches have four keys for three places, so that evicted keys come   *)
(* back; the ring has four slots; the pool three blocks and threads; the   *)
(* arrays up to five elements.                                             *)
(***************************************************************************)
EXTENDS CachePolicy, ArrayInputs

CONSTANTS MaxFreq, Items, NoItem, Capacity, Threads, BlockCount, Payload,
          k1, k2, k3, k4, v1, v2, a, b, t1, t2, t3

ASSUME SerialAssumption == Capacity \in Nat /\ BlockCount \in Nat /\ Payload \notin Nat

VARIABLES used,                                     \* the code in use
          list_, map_, lruLast, lruRecent,
          cache_data_, freq_lists_, list_iter_map_, min_freq_, lfuLast, lfuRecent,
          msg_q_, head_, tail_, item, inside, due,
          free_list_head_, mutex_, next, pc, ptr, inUse, free,
          stage, problem, input, nums, target, left, right, i, j, found, answer, turns,
          window, valid, start, len, starts, pending, seen, level

LRU  == INSTANCE LRUCache WITH last <- lruLast, recent <- lruRecent
LFU  == INSTANCE LFUCache WITH last <- lfuLast, recent <- lfuRecent
Ring == INSTANCE RingBufferQueue
Pool == INSTANCE FreeListPool

Search == INSTANCE Searches WITH leftIndex <- found
Colors == INSTANCE SortColors WITH solution <- problem, given <- input, size <- target,
                                   zero <- left, two <- right
Nth    == INSTANCE NthElement WITH given <- input, n <- target, result <- found
Best   == INSTANCE Greedy
Count  == INSTANCE Counting
Window == INSTANCE Windows
Walk   == INSTANCE Traversals

lruVars  == <<list_, map_, lruLast, lruRecent>>
lfuVars  == <<cache_data_, freq_lists_, list_iter_map_, min_freq_, lfuLast, lfuRecent>>
ringVars == <<msg_q_, head_, tail_, item, inside, due>>
poolVars == <<free_list_head_, mutex_, next, pc, ptr, inUse, free>>
arrayVars  == <<nums, target, left, right, i, j, found>>
windowVars == <<window, valid, start, len>>
walkVars   == <<starts, pending, seen, level>>
algVars    == <<stage, problem, input, answer, turns, arrayVars, windowVars, walkVars>>

vars == <<used, lruVars, lfuVars, ringVars, poolVars, algVars>>

Init == /\ used \in {"LRUCache", "LFUCache", "RingBufferQueue", "FreeListPool",
                     "Searches", "SortColors", "NthElement", "Greedy",
                     "Counting", "Windows", "Traversals"}
        /\ LRU!Init /\ LFU!Init /\ Ring!Init /\ Pool!Init
        /\ Search!Init /\ Colors!Init /\ Nth!Init /\ Best!Init
        /\ Window!Init /\ Walk!Init

OnArrays ==
    /\ \/ used = "Searches" /\ Search!Next /\ UNCHANGED <<input, i, j>>
       \/ used = "SortColors" /\ Colors!Next /\ UNCHANGED <<j, found, answer>>
       \/ used = "NthElement" /\ Nth!Next /\ UNCHANGED <<problem, answer, turns>>
    /\ UNCHANGED <<windowVars, walkVars>>

Algorithm ==
    \/ OnArrays
    \/ /\ \/ used = "Greedy" /\ Best!Next
          \/ used = "Counting" /\ Count!CountingNext
       /\ UNCHANGED <<stage, turns, arrayVars, windowVars, walkVars>>
    \/ used = "Windows" /\ Window!Next
         /\ UNCHANGED <<problem, turns, nums, target, i, j, found, walkVars>>
    \/ used = "Traversals" /\ Walk!Next
         /\ UNCHANGED <<stage, turns, arrayVars, windowVars>>

Next ==
    /\ UNCHANGED used
    /\ \/ used = "LRUCache" /\ LRU!Next /\ UNCHANGED <<lfuVars, ringVars, poolVars, algVars>>
       \/ used = "LFUCache" /\ LFU!Next /\ UNCHANGED <<lruVars, ringVars, poolVars, algVars>>
       \/ used = "RingBufferQueue" /\ Ring!Next /\ UNCHANGED <<lruVars, lfuVars, poolVars, algVars>>
       \/ used = "FreeListPool" /\ Pool!Next /\ UNCHANGED <<lruVars, lfuVars, ringVars, algVars>>
       \/ Algorithm /\ UNCHANGED <<lruVars, lfuVars, ringVars, poolVars>>

Spec == Init /\ [][Next]_vars

----------------------------------------------------------------------------
(* LRUCache: list and map agree, and hold the keys used last, in the order *)
(* of use.                                                                 *)
LRUHoldsTheMostRecent == LRU!MapMatchesList /\ LRU!HoldsTheMostRecent

(* LRUCache: it gives back what was put, within its capacity. *)
LRUCacheSpec == LRU!CacheSpec

(* LFUCache: data, frequency lists and iterators hold the same keys, and a  *)
(* cache that is not empty always finds one to evict.                      *)
LFUMapsAgree == LFU!MapsAgree /\ LFU!SomethingToEvict

(* LFUCache: of the keys of a frequency the one used longest ago goes. *)
LFUEvictsTheOldest == LFU!EvictsTheOldest

(* LFUCache: it gives back what was put, within its capacity. *)
LFUCacheSpec == LFU!CacheSpec

(* RingBufferQueue: the slots and the queries agree with what was pushed    *)
(* and neither popped nor cleared.                                          *)
RingHoldsWhatIsInside == Ring!HoldsWhatIsInside

(* Mutex pool: the linked list is always that of the free blocks, and no    *)
(* block has two users.                                                     *)
MutexPoolIntact == Pool!FreeListIntact

(* Searches: every turn of a loop narrows the interval, and what comes out  *)
(* is the answer for the whole array.                                       *)
NarrowsToTheAnswer == [][used = "Searches" => Search!Narrows]_vars

(* The partitions keep the regions their comments speak of: SortColors ends *)
(* with the array sorted and the colors it had; in NthElement the n-th      *)
(* smallest stays within the part that is searched, of the same elements.   *)
PartitionsHold == [][/\ used = "SortColors" => Colors!Sorts
                     /\ used = "NthElement" => Nth!Selects]_vars

(* Greedy and Counting: what is answered is what a search through           *)
(* everything finds, in whatever order equal elements come.                *)
AnswersAreRight == /\ used = "Greedy" => Best!GreedyIsOptimal
                   /\ used = "Counting" => Count!CountingIsRight

(* minWindow(): no window that covers t is passed over. *)
WindowIsSmallest == used = "Windows" => Window!WindowIsSmallest

(* Traversals: every cell, and the nearest sum, is found, and found once. *)
TraversalsFindAll == used = "Traversals" => Walk!TraversalsFindAll
=============================================================================
