----------------------------- MODULE SortColors -----------------------------
(***************************************************************************)
(* sort_colors.cpp: two solutions that sort an array of 0, 1 and 2 in one  *)
(* pass.  Solution1 keeps half-open regions, Solution2 closed ones.        *)
(***************************************************************************)
EXTENDS ArrayInputs, FiniteSets

VARIABLES stage, solution, given,       \* given: the array as it was passed
          nums, size, zero, i, two,
          turns                         \* history: the turns of the loop so far

vars == <<stage, solution, given, nums, size, zero, i, two, turns>>

Init == /\ stage = "idle"
        /\ solution = "none"
        /\ given = <<>> /\ nums = <<>>
        /\ size = 0 /\ zero = 0 /\ i = 0 /\ two = 0 /\ turns = 0

Swap(a, x, y) == [a EXCEPT ![x] = a[y], ![y] = a[x]]

(* sortColors() from its first line to its loop: arrays of fewer than two   *)
(* elements are left as they are.                                          *)
Call(which) ==
    /\ stage = "idle"
    /\ solution' = which
    /\ \E n \in 0..MaxSize : \E a \in [0..n - 1 -> 0..2] :
         /\ size' = n /\ given' = a /\ nums' = a
         /\ stage' = IF n < 2 THEN "returned" ELSE "loop"
         /\ IF which = "Solution1" THEN zero' = 0 /\ two' = n
                                   ELSE zero' = -1 /\ two' = n - 1
    /\ i' = 0 /\ UNCHANGED turns

(* A turn of the loop; nextZero and nextTwo are where a 0 or a 2 goes. *)
Turn(nextZero, nextTwo) ==
    /\ \/ /\ nums[i] = 0
          /\ nums' = Swap(nums, nextZero, i)
          /\ zero' = zero + 1 /\ i' = i + 1
          /\ UNCHANGED two
       \/ /\ nums[i] = 1
          /\ i' = i + 1
          /\ UNCHANGED <<nums, zero, two>>
       \/ /\ nums[i] = 2
          /\ nums' = Swap(nums, i, nextTwo)
          /\ two' = two - 1
          /\ UNCHANGED <<zero, i>>
    /\ turns' = turns + 1
    /\ UNCHANGED <<stage, solution, given, size>>

Return == /\ stage' = "returned"
          /\ UNCHANGED <<solution, given, nums, size, zero, i, two, turns>>

Solution1 ==
    \/ Call("Solution1")
    \/ /\ stage = "loop" /\ solution = "Solution1"
       /\ IF i < two THEN Turn(zero, two - 1) ELSE Return

(* Fault: the last slot is taken to be sorted. *)
Solution2Short ==
    \/ Call("Solution2")
    \/ /\ stage = "loop" /\ solution = "Solution2"
       /\ IF i < two THEN Turn(zero + 1, two) ELSE Return

Solution2 ==
    \/ Call("Solution2")
    \/ /\ stage = "loop" /\ solution = "Solution2"
       /\ IF i <= two THEN Turn(zero + 1, two) ELSE Return

Done == /\ stage = "returned" /\ stage' = "idle"
        /\ solution' = "none" /\ given' = <<>> /\ nums' = <<>>
        /\ size' = 0 /\ zero' = 0 /\ i' = 0 /\ two' = 0 /\ turns' = 0

Next == Solution1 \/ Solution2 \/ Done

Spec == Init /\ [][Next]_vars

----------------------------------------------------------------------------
(* The ends of the regions: [0, zeros) holds 0, [zeros, i) holds 1 and     *)
(* [twos, size) holds 2 in either solution.                                *)
zeros == IF solution = "Solution2" THEN zero + 1 ELSE zero
twos  == IF solution = "Solution2" THEN two + 1 ELSE two

Regions ==
    stage = "loop" =>
        /\ 0 <= zeros /\ zeros <= i /\ i <= twos /\ twos <= size
        /\ \A k \in 0..size - 1 : /\ k < zeros => nums[k] = 0
                                  /\ zeros <= k /\ k < i => nums[k] = 1
                                  /\ twos <= k => nums[k] = 2

Sorted == stage = "returned" =>
            \A j, k \in 0..size - 1 : j < k => nums[j] <= nums[k]

(* Nothing is lost or made up. *)
SameColors ==
    \A c \in 0..2 : Cardinality({k \in DOMAIN given : given[k] = c})
                    = Cardinality({k \in DOMAIN nums : nums[k] = c})

(* The comments of the code on its three regions hold in every turn, each  *)
(* turn shortens what is not looked at yet, and the end is the same colors *)
(* in order.                                                               *)
Sorts ==
    /\ Regions' /\ Sorted' /\ SameColors'
    /\ turns' > turns => two' - i' < two - i
=============================================================================
