----------------------------- MODULE PoolBlocks -----------------------------
(***************************************************************************)
(* What the fixed-size pools have in common: blocks of one size, each      *)
(* linked to the next free one by its first word, which is the user's as   *)
(* long as the block is in use.                                            *)
(***************************************************************************)
EXTENDS Naturals, Sequences

CONSTANTS BlockCount,          \* block_cnt_
          Payload              \* what a user writes over the link of its block

ASSUME BlockCountAssumption == BlockCount \in Nat
ASSUME PayloadAssumption    == Payload \notin Nat

Blocks  == 1 .. BlockCount
NoBlock == 0                   \* nullptr

(* The constructors push block 1, 2, ... BlockCount onto the list.          *)
InitialHead  == BlockCount
InitialLinks == [b \in Blocks |-> b - 1]
InitialList  == [i \in Blocks |-> BlockCount + 1 - i]
=============================================================================
