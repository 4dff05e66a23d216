----------------------------- MODULE ArrayInputs -----------------------------
(***************************************************************************)
(* Bounds on the inputs of the algorithms of leetcode/ and algorithm/.     *)
(***************************************************************************)
EXTENDS Integers

CONSTANTS Values, MaxSize,      \* arrays have up to MaxSize elements of Values
          MaxNumber,            \* n, x and target where they are numbers
          Heights, MaxLength    \* the same for the solutions of Greedy

ASSUME InputAssumption ==
    /\ Values \subseteq Nat /\ Heights \subseteq Nat
    /\ MaxSize \in Nat /\ MaxNumber \in Nat /\ MaxLength \in Nat
=============================================================================
