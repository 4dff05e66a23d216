------------------------- MODULE ThreadLocalPoolTest -------------------------
(***************************************************************************)
(* run_threaded_test() of test_memory_pool.cpp with the thread-local pool: *)
(* every thread allocates ALLOCS_PER_THREAD blocks, then gives them back,  *)
(* and the main thread allocates one when all have been joined.  The pool  *)
(* is given NUM_THREADS * (BLOCKS_TO_FETCH - 1) blocks to spare, for those *)
(* that wait in the lists of threads that do not need them.                *)
(***************************************************************************)
EXTENDS ThreadLocalPool, FiniteSets

CONSTANTS Main, Workers, Pool, ALLOCS_PER_THREAD

ASSUME TestAssumption ==
    /\ Main \notin Workers /\ ThreadIds = {Main} \cup Workers
    /\ Pool \in Pools
    /\ BlockCount[Pool] = Cardinality(Workers) * ALLOCS_PER_THREAD + 1
                          + Cardinality(Workers) * (BLOCKS_TO_FETCH - 1)

VARIABLES allocs,       \* per worker: the blocks in its vector
          done          \* the workers that are through with allocating

test     == <<allocs, done>>
testVars == <<vars, test>>

TestInit == /\ Init
            /\ allocs = [t \in Workers |-> {}]
            /\ done = {}

Setup == /\ \/ life[Pool] = "unborn" /\ CreatePool(Pool)
            \/ life[Pool] = "alive" /\ \E t \in ThreadIds \ (running \cup done) : StartThread(t)
         /\ UNCHANGED test

AllocateNext(t) ==
    /\ t \notin done
    /\ Cardinality(allocs[t]) < ALLOCS_PER_THREAD
    /\ Allocate(t, Pool)
    /\ UNCHANGED test

Fetching(t) == (FetchOne(t) \/ FetchEnd(t)) /\ UNCHANGED test

Taking(t) ==
    /\ Take(t)
    /\ allocs' = [allocs EXCEPT ![t] = @ \cup (inUse' \ inUse)]
    /\ done' = IF Cardinality(allocs'[t]) = ALLOCS_PER_THREAD THEN done \cup {t} ELSE done

GivingBack(t) ==
    /\ t \in done
    /\ \E b \in allocs[t] : /\ Deallocate(t, b)
                            /\ allocs' = [allocs EXCEPT ![t] = @ \ {b}]
    /\ UNCHANGED done

Exiting(t) ==
    /\ t \in done
    /\ allocs[t] = {}
    /\ ExitThread(t)
    /\ UNCHANGED test

(* The main thread, after the joins: one more allocate() and deallocate(),  *)
(* of a block that then is in its own list; the pool is destroyed.          *)
Joined == life[Pool] = "alive" /\ done = Workers /\ running = {Main}
MainCalls ==
    /\ Joined
    /\ \/ inUse = {} /\ local_free_list_[Main] = <<>> /\ Allocate(Main, Pool)
       \/ FetchOne(Main) \/ FetchEnd(Main) \/ Take(Main)
       \/ \E b \in inUse : Deallocate(Main, b)
       \/ inUse = {} /\ local_free_list_[Main] # <<>> /\ DestroyPool(Pool)
    /\ UNCHANGED test

TestNext == \/ Setup
            \/ MainCalls
            \/ \E t \in Workers : \/ AllocateNext(t) \/ Fetching(t) \/ Taking(t)
                                  \/ GivingBack(t) \/ Exiting(t)

TestSpec == TestInit /\ [][TestNext]_testVars

----------------------------------------------------------------------------
(* assert(p != nullptr) after every allocate(), in the workers and in main: *)
(* the spare blocks are enough however the threads fetch.                   *)
AssertionsHold == life[Pool] # "unborn" =>
    \A t \in ThreadIds : pc[t] = "take" => local_free_list_[t] # <<>>
=============================================================================
