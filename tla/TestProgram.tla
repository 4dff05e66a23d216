----------------------------- MODULE TestProgram -----------------------------
(***************************************************************************)
(* main() of test_memory_pool.cpp from the test of the thread-local pool   *)
(* on: run_threaded_test() with its own pool, then test_general_pool(),    *)
(* both in the main thread, whose list of blocks outlives the first pool.  *)
(***************************************************************************)
EXTENDS ThreadLocalPoolTest, GeneralPool

VARIABLE calls          \* the calls test_general_pool() has made

programVars == <<testVars, ownVars, calls>>

ProgramInit == TestInit /\ GeneralInit /\ calls = 0

ThreadedTest == TestNext /\ UNCHANGED <<ownVars, calls>>

Script == <<[op |-> "allocate", size |-> 8],   [op |-> "allocate", size |-> 512],
            [op |-> "deallocate", size |-> 8], [op |-> "deallocate", size |-> 512],
            [op |-> "allocate", size |-> 1024], [op |-> "deallocate", size |-> 1024]>>

(* Each call of the script is made when the one before has returned. *)
Call == /\ calls < Len(Script)
        /\ calls' = calls + 1
        /\ LET c == Script[calls + 1] IN
           IF c.op = "allocate"
           THEN \/ AllocateManaged(Main, c.size)
                \/ \E m \in Large : AllocateLarge(Main, c.size, m)
           ELSE \E b \in objects :
                  request[b] = c.size /\ DeallocateByHeader(Main, b)

GeneralTest == /\ life[Pool] = "destroyed"
               /\ \/ Call
                  \/ /\ \/ Construct
                        \/ ReturnManaged(Main)
                        \/ calls = Len(Script) /\ Destruct
                     /\ UNCHANGED calls
               /\ UNCHANGED test

Returned == life[0] = "destroyed" /\ UNCHANGED programVars

ProgramNext == ThreadedTest \/ GeneralTest \/ Returned
ProgramSpec == ProgramInit /\ [][ProgramNext]_programVars
=============================================================================
