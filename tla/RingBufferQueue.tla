--------------------------- MODULE RingBufferQueue ---------------------------
(***************************************************************************)
(* ring_buffer_queue.h: the single-threaded bounded queue, with clear(),   *)
(* which moves the indices and leaves the slots as they are.               *)
(***************************************************************************)
EXTENDS RingIndex, Sequences

CONSTANTS Items, NoItem         \* NoItem: a slot nothing was written to

VARIABLES msg_q_, head_, tail_,
          item,                 \* what the last successful pop() gave
          inside, due           \* history: what a queue would hold and have given

vars == <<msg_q_, head_, tail_, item, inside, due>>

Init == /\ msg_q_ = [s \in Slots |-> NoItem]
        /\ head_ = 0
        /\ tail_ = 0
        /\ item = NoItem
        /\ inside = <<>>
        /\ due = NoItem

(* push() and pop() that return false change nothing. *)
Push(x) ==
    /\ ~IsFull(head_, tail_)
    /\ msg_q_' = [msg_q_ EXCEPT ![tail_] = x]
    /\ tail_' = Advance(tail_)
    /\ inside' = Append(inside, x)
    /\ UNCHANGED <<head_, item, due>>

Pop ==
    /\ ~IsEmpty(head_, tail_)
    /\ item' = msg_q_[head_]
    /\ head_' = Advance(head_)
    /\ inside' = Tail(inside)
    /\ due' = Head(inside)
    /\ UNCHANGED <<msg_q_, tail_>>

(* Fault: clear() forgets one of the indices. *)
ClearTailOnly ==
    /\ tail_' = 0
    /\ inside' = <<>>
    /\ UNCHANGED <<msg_q_, head_, item, due>>

Clear ==
    /\ head_' = 0
    /\ tail_' = 0
    /\ inside' = <<>>
    /\ UNCHANGED <<msg_q_, item, due>>

Next == Pop \/ Clear \/ \E x \in Items : Push(x)

Spec == Init /\ [][Next]_vars

----------------------------------------------------------------------------
(* The slots from head_ to tail_, around the end of the ring, hold what was *)
(* pushed and not popped or cleared since, in order; size(), empty() and    *)
(* full() say how much that is, and the last pop() gave what was oldest.    *)
HoldsWhatIsInside ==
    /\ item = due
    /\ SizeOf(head_, tail_) = Len(inside)
    /\ IsEmpty(head_, tail_) <=> Len(inside) = 0
    /\ IsFull(head_, tail_) <=> Len(inside) = Capacity
    /\ \A i \in 1 .. Len(inside) :
         msg_q_[(head_ + i - 1) % BufferCapacity] = inside[i]
=============================================================================
