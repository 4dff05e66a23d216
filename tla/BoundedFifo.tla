---------------------------- MODULE BoundedFifo ----------------------------
(***************************************************************************)
(* What every bounded queue of message_queue/ promises to its two callers: *)
(* items come out in the order they went in, each once, none invented; at  *)
(* most Capacity of them are inside at a time; after close() nothing goes  *)
(* in any more, while what is inside can still be taken out.               *)
(***************************************************************************)
EXTENDS Naturals, Sequences

CONSTANTS Items, Capacity

VARIABLES queue,      \* the items inside, oldest first
          delivered,  \* the items handed to the consumer so far
          closed      \* close() has taken effect

vars == <<queue, delivered, closed>>

Init == /\ queue = <<>>
        /\ delivered = <<>>
        /\ closed = FALSE

Put(x) == /\ ~closed
          /\ Len(queue) < Capacity
          /\ queue' = Append(queue, x)
          /\ UNCHANGED <<delivered, closed>>

Take == /\ queue # <<>>
        /\ delivered' = Append(delivered, Head(queue))
        /\ queue' = Tail(queue)
        /\ UNCHANGED closed

Close == /\ closed' = TRUE
         /\ UNCHANGED <<queue, delivered>>

Next == \/ \E x \in Items : Put(x)
        \/ Take
        \/ Close

Spec == Init /\ [][Next]_vars
=============================================================================
