----------------------------- MODULE MCLockFree -----------------------------
(***************************************************************************)
(* The two structures that do without a lock.  The queue: two kinds of     *)
(* items and a ring of three slots, which six items wrap around twice.     *)
(* The pool: one thread that allocates, three that give blocks back.  A    *)
(* behaviour uses one of the two.                                          *)
(***************************************************************************)
EXTENDS SPSCQueue, LockFreePool
CONSTANTS a, b, t1, t2, t3
VARIABLE used

UsedInit == used \in {"queue", "pool"} /\ QueueInit /\ Init

UsedNext == /\ UNCHANGED used
            /\ \/ used = "queue" /\ QueueNext /\ UNCHANGED vars
               \/ used = "pool" /\ Next /\ UNCHANGED queueVars

UsedSpec == /\ UsedInit /\ [][UsedNext]_<<used, queueVars, vars>>
            /\ used = "queue" => QueueFairness
            /\ used = "pool" => Fairness

(* The callers of the queue, while they go on calling, get all items        *)
(* through in spite of stale loads and of the wrap-around.                  *)
AllThroughOnceUsed == used = "queue" => AllThrough
=============================================================================
