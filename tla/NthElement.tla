----------------------------- MODULE NthElement -----------------------------
(***************************************************************************)
(* nth_element.cpp: quickselect with Lomuto's partition.  The outer loop   *)
(* is a step a turn, and so is the loop of partition().                    *)
(***************************************************************************)
EXTENDS ArrayInputs, FiniteSets

VARIABLES stage,                \* the loop that runs
          given,                \* history: the array as it was passed
          nums, n, left, right,
          i, j,                 \* partition()
          result

vars == <<stage, given, nums, n, left, right, i, j, result>>

Init == /\ stage = "idle"
        /\ given = <<>> /\ nums = <<>>
        /\ n = 0 /\ left = 0 /\ right = 0 /\ i = 0 /\ j = 0
        /\ result = -1

Swap(a, x, y) == [a EXCEPT ![x] = a[y], ![y] = a[x]]

(* n counts from 1 in the call and from 0 in the code. *)
Call ==
    /\ stage = "idle" /\ stage' = "select"
    /\ \E size \in 0..MaxSize :
         /\ \E a \in [0..size - 1 -> Values] : given' = a /\ nums' = a
         /\ \E m \in 0..size + 1 : n' = m - 1
         /\ right' = size - 1
    /\ left' = 0
    /\ UNCHANGED <<i, j, result>>

findNthElement ==
    /\ stage = "select"
    /\ IF left <= right THEN /\ stage' = "partition"
                             /\ i' = left /\ j' = left
                             /\ UNCHANGED result
                        ELSE /\ stage' = "returned"
                             /\ result' = -1
                             /\ UNCHANGED <<i, j>>
    /\ UNCHANGED <<given, nums, n, left, right>>

(* The pivot is nums[right], which the loop does not move. *)
partition ==
    /\ stage = "partition" /\ j < right
    /\ IF nums[j] < nums[right]
       THEN nums' = Swap(nums, i, j) /\ i' = i + 1
       ELSE UNCHANGED <<nums, i>>
    /\ j' = j + 1
    /\ UNCHANGED <<stage, given, n, left, right, result>>

(* Fault: the pivot stays at the end. *)
NarrowWithoutSwap ==
    /\ stage = "partition" /\ j = right
    /\ \/ i = n /\ stage' = "returned" /\ result' = nums[i] /\ UNCHANGED <<left, right>>
       \/ i < n /\ stage' = "select" /\ left' = i + 1 /\ UNCHANGED <<right, result>>
       \/ i > n /\ stage' = "select" /\ right' = i - 1 /\ UNCHANGED <<left, result>>
    /\ UNCHANGED <<given, nums, n, i, j>>

(* partition() ends and returns i, the place of the pivot. *)
Narrow ==
    /\ stage = "partition" /\ j = right
    /\ nums' = Swap(nums, i, right)
    /\ \/ i = n /\ stage' = "returned" /\ result' = nums'[i] /\ UNCHANGED <<left, right>>
       \/ i < n /\ stage' = "select" /\ left' = i + 1 /\ UNCHANGED <<right, result>>
       \/ i > n /\ stage' = "select" /\ right' = i - 1 /\ UNCHANGED <<left, result>>
    /\ UNCHANGED <<given, n, i, j>>

Done == /\ stage = "returned" /\ stage' = "idle"
        /\ given' = <<>> /\ nums' = <<>> /\ n' = 0 /\ left' = 0 /\ right' = 0
        /\ i' = 0 /\ j' = 0 /\ result' = -1

Next == Call \/ findNthElement \/ partition \/ Narrow \/ Done

Spec == Init /\ [][Next]_vars

----------------------------------------------------------------------------
(* The array is split at both ends of what is still searched: nothing      *)
(* before an end is larger than what comes after it.                       *)
Split ==
    stage # "idle" =>
        \A x, y \in DOMAIN nums :
            (x < left /\ left <= y) \/ (x <= right /\ right < y) => nums[x] <= nums[y]

(* The n-th smallest comes out, or -1 for an n the array does not have. *)
Selected ==
    stage = "returned" =>
        LET Below == {x \in DOMAIN nums : nums[x] < result}
            UpTo  == {x \in DOMAIN nums : nums[x] <= result}
        IN IF n \in DOMAIN nums THEN Cardinality(Below) <= n /\ n < Cardinality(UpTo)
                                ELSE result = -1

(* Nothing is lost or made up. *)
SameElements ==
    \A v \in Values : Cardinality({x \in DOMAIN given : given[x] = v})
                      = Cardinality({x \in DOMAIN nums : nums[x] = v})

(* Every round narrows the part that is searched, which stays where the    *)
(* n-th smallest element is, until that is found; the array keeps the       *)
(* elements it was passed with.                                            *)
Selects ==
    /\ Split' /\ Selected' /\ SameElements'
    /\ stage = "partition" /\ stage' = "select" => right' - left' < right - left
=============================================================================
