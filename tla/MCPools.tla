------------------------------- MODULE MCPools -------------------------------
(***************************************************************************)
(* Three uses of the thread-local pool: any use of the general pool by     *)
(* three threads, each confined to one size class (two pass objects of 9   *)
(* bytes to each other, the third has the last class and large objects);   *)
(* the test program up to the end of the threaded test, with two workers   *)
(* and a pool of its own; and any use of a linked pool by two threads.     *)
(***************************************************************************)
EXTENDS MCTestProgram
CONSTANT Payload

VARIABLES use,
          free_list_head_, next, at, head, link, block, left, free,
          list, step, got, users, alive, awake

Linked == INSTANCE ThreadLocalPoolLinked WITH
    Allocators <- {t1, t2}, Freers <- {}, BlockCount <- 3, pc <- at, inUse <- left,
    local_free_list_ <- list, fetched <- got, life <- alive, running <- awake

linked == <<free_list_head_, next, at, head, link, block, left, free,
            list, step, got, users, alive, awake>>
uses   == <<use, programVars, linked>>

UsesInit == /\ ProgramInit
            /\ Linked!LinkedInit
            /\ use \in {"general", "test", "linked"}

UsesNext ==
    /\ UNCHANGED use
    /\ \/ use = "general" /\ GeneralNext /\ UNCHANGED <<test, calls, linked>>
       \/ use = "test" /\ ThreadedTest /\ UNCHANGED linked
       \/ use = "linked" /\ Linked!LinkedNext /\ UNCHANGED programVars

UsesSpec == UsesInit /\ [][UsesNext]_uses

ThreadLocalSpec == Linked!ThreadLocalSpec
=============================================================================
