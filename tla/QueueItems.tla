----------------------------- MODULE QueueItems -----------------------------
(***************************************************************************)
(* What the queues between two threads have in common: the ring and the    *)
(* items that go through it.                                               *)
(***************************************************************************)
EXTENDS RingIndex, Sequences

CONSTANTS Items,        \* the values of T that are pushed
          NoItem,       \* the value-initialised T of a slot that holds none
          MaxItems      \* bound: the pushes that succeed in one behaviour

ASSUME ItemsAssumption == NoItem \notin Items
ASSUME BoundAssumption == MaxItems \in Nat
=============================================================================
