----------------------------- MODULE RingIndex -----------------------------
(***************************************************************************)
(* The index arithmetic the four ring-buffer queues share                  *)
(* (ring_buffer_queue.h, spsc_queue.h, spsc_blocking_queue.h and           *)
(* spsc_timeout_queue.h).  The ring has one slot more than its user        *)
(* capacity, so that head = tail means empty and never full; the items are *)
(* in the slots [head, tail).                                              *)
(***************************************************************************)
EXTENDS Naturals

CONSTANT Capacity       \* user_capacity_ / capacity_, what the caller asked for

ASSUME CapacityAssumption == Capacity \in Nat

BufferCapacity == Capacity + 1
Slots          == 0 .. BufferCapacity - 1

(* Faults for the sensitivity checks: an index that is not wrapped, a test  *)
(* for more than Capacity items.                                            *)
AdvanceWithoutWrap(i) == i + 1
NeverFull(h, t)       == (t + BufferCapacity - h) % BufferCapacity > Capacity

Advance(i)    == (i + 1) % BufferCapacity
IsFull(h, t)  == Advance(t) = h
IsEmpty(h, t) == h = t
SizeOf(h, t)  == (t + BufferCapacity - h) % BufferCapacity
=============================================================================
