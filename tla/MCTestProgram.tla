---------------------------- MODULE MCTestProgram ----------------------------
(***************************************************************************)
(* The test program with two workers that allocate three blocks each in    *)
(* batches of two, and the blocks and sizes MCPools uses as well.          *)
(***************************************************************************)
EXTENDS TestProgram
CONSTANTS t1, t2, t3, m1, p1

Confined == [t \in ThreadIds |-> IF t = t3 THEN {257, 512, 513} ELSE {9}]
Sizes    == [p \in Pools |-> CASE p = p1 -> 9 [] p = 1 -> 3 [] OTHER -> 1]
=============================================================================
