--------------------------- MODULE BlockAllocator ---------------------------
(***************************************************************************)
(* What the fixed-size pools of memory_pool/ promise: a block is handed    *)
(* out to one user at a time, and can be handed out again after it was     *)
(* given back.  A block that is being given back is neither in use nor     *)
(* available until the pool has taken it in.                               *)
(***************************************************************************)
CONSTANT Blocks

VARIABLES available, inUse

vars == <<available, inUse>>

Init == available = Blocks /\ inUse = {}

Allocate == \E b \in available :
    /\ available' = available \ {b}
    /\ inUse' = inUse \cup {b}

GiveBack == \E b \in inUse :
    /\ inUse' = inUse \ {b}
    /\ UNCHANGED available

TakeIn == \E b \in Blocks \ (available \cup inUse) :
    /\ available' = available \cup {b}
    /\ UNCHANGED inUse

Next == Allocate \/ GiveBack \/ TakeIn

Spec == Init /\ [][Next]_vars
=============================================================================
