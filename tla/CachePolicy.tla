----------------------------- MODULE CachePolicy -----------------------------
(***************************************************************************)
(* The parameters of the caches of cache/.  A constructor throws on a      *)
(* capacity of 0.                                                          *)
(***************************************************************************)
EXTENDS Naturals, Sequences, SequencesExt, FiniteSets

CONSTANTS Key, Value, capacity_

ASSUME CapacityAssumption == capacity_ \in Nat \ {0}
=============================================================================
