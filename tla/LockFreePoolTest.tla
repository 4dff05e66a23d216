-------------------------- MODULE LockFreePoolTest --------------------------
(***************************************************************************)
(* run_threaded_test() of test_memory_pool.cpp with the lock-free pool:    *)
(* every thread allocates ALLOCS_PER_THREAD blocks, then gives them back   *)
(* in the same order.  There is a block for each allocation and one more:  *)
(* BlockCount is ALLOCS_PER_THREAD times the number of threads, plus one.  *)
(***************************************************************************)
EXTENDS LockFreePool

CONSTANT ALLOCS_PER_THREAD

VARIABLES allocs,       \* per thread: its vector
          returned      \* per thread: how many of them it has given back

testVars == <<vars, allocs, returned>>

TestInit == /\ Init
            /\ allocs = [t \in Threads |-> <<>>]
            /\ returned = [t \in Threads |-> 0]

InAllocate(t) ==
    /\ Len(allocs[t]) < ALLOCS_PER_THREAD
    /\ \/ (AllocLoad(t) \/ AllocReadNext(t) \/ AllocRetry(t)) /\ UNCHANGED allocs
       \/ AllocSwap(t) /\ allocs' = [allocs EXCEPT ![t] = Append(@, head[t])]
    /\ UNCHANGED returned

InDeallocate(t) ==
    /\ Len(allocs[t]) = ALLOCS_PER_THREAD
    /\ \/ /\ returned[t] < ALLOCS_PER_THREAD
          /\ FreeLoad(t, allocs[t][returned[t] + 1])
          /\ returned' = [returned EXCEPT ![t] = @ + 1]
       \/ (FreeWriteNext(t) \/ FreeSwap(t) \/ FreeRetry(t)) /\ UNCHANGED returned
    /\ UNCHANGED allocs

TestNext == \E t \in Threads : InAllocate(t) \/ InDeallocate(t)
TestSpec == TestInit /\ [][TestNext]_testVars
=============================================================================
