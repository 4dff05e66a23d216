------------------------------ MODULE Searches ------------------------------
(***************************************************************************)
(* The searches of leetcode/: five that halve an interval and two with a   *)
(* pointer at each end.  A step is a turn of the loop; the functions share *)
(* the steps and differ in where they start, which side they keep and what *)
(* they answer.  Index i of a C++ vector is nums[i + 1].                   *)
(***************************************************************************)
EXTENDS ArrayInputs, Sequences

VARIABLES stage, problem, nums, target, left, right,
          leftIndex,            \* what the first pass of searchRange found
          answer,               \* the values returned or printed
          turns                 \* history: the turns of the loops so far

vars == <<stage, problem, nums, target, left, right, leftIndex, answer, turns>>

Init == /\ stage = "idle"
        /\ problem = "none"
        /\ nums = <<>>
        /\ target = 0
        /\ left = 0 /\ right = 0
        /\ leftIndex = -1
        /\ answer = <<>>
        /\ turns = 0

----------------------------------------------------------------------------
Arrays == UNION {[1..n -> Values] : n \in 0..MaxSize}
Count(a, v) == {i \in DOMAIN a : a[i] = v}
Sorted(a) == \A i, j \in DOMAIN a : i < j => a[i] <= a[j]
SortedArrays == {a \in Arrays : Sorted(a)}

(* Strictly rising arrays whose front was moved to the back. *)
RotatedArrays ==
    {a \in Arrays : \E k \in DOMAIN a : \A i, j \in 0..Len(a) - 1 :
        i < j => a[((i + k) % Len(a)) + 1] < a[((j + k) % Len(a)) + 1]}

(* Sorted arrays in which one value stands alone and the others are pairs. *)
PairedArrays ==
    {a \in SortedArrays : \E v \in Values :
        /\ \E i \in DOMAIN a : Count(a, v) = {i}
        /\ \A w \in Values \ {v} : Count(a, w) = {} \/ \E i \in DOMAIN a :
              i + 1 \in DOMAIN a /\ Count(a, w) = {i, i + 1}}

(* What a read of nums[i] may give: past the end, anything. *)
Read(i) == IF i + 1 \in DOMAIN nums THEN {nums[i + 1]} ELSE Values

----------------------------------------------------------------------------
Idle == stage = "idle"

(* The locals before the loop. *)
Call(function, a, t, first, last) ==
    /\ stage' = "loop"
    /\ problem' = function
    /\ nums' = a /\ target' = t
    /\ left' = first /\ right' = last
    /\ UNCHANGED <<leftIndex, answer, turns>>

(* What a turn of a loop leaves alone. *)
Turn == turns' = turns + 1 /\ UNCHANGED <<stage, problem, nums, target, leftIndex, answer>>

In(function) == stage = "loop" /\ problem = function

Return(values) ==
    /\ stage' = "returned"
    /\ answer' = values
    /\ UNCHANGED <<problem, nums, target, left, right, leftIndex, turns>>

Middle == left + (right - left) \div 2

(* Fault: the middle stays in the interval. *)
HalveKeepingMiddle(keepsLeft) ==
    /\ left <= right
    /\ IF keepsLeft THEN right' = Middle /\ UNCHANGED left
                    ELSE left' = Middle + 1 /\ UNCHANGED right
    /\ Turn

Halve(keepsLeft) ==
    /\ left <= right
    /\ IF keepsLeft THEN right' = Middle - 1 /\ UNCHANGED left
                    ELSE left' = Middle + 1 /\ UNCHANGED right
    /\ Turn

firstBadVersion ==
    \/ Idle /\ \E n \in 1..MaxNumber : \E bad \in 1..n + 1 :
                 Call("firstBadVersion", <<>>, bad, 1, n)
    \/ /\ In("firstBadVersion")
       /\ \/ Halve(Middle >= target)
          \/ left > right /\ Return(<<left>>)

(* An array of one element is answered at once. *)
findMin ==
    \/ Idle /\ \E a \in RotatedArrays : Call("findMin", a, 0, 0, Len(a) - 1)
    \/ /\ In("findMin")
       /\ \/ /\ Len(nums) > 1
             /\ Halve(nums[Middle + 1] <= nums[Len(nums)])
          \/ /\ left > right \/ Len(nums) = 1
             /\ Return(<<nums[left + 1]>>)

(* For 0 the loop is not entered and right is the answer as it stands. *)
mySqrt ==
    \/ Idle /\ \E x \in 0..MaxNumber : Call("mySqrt", <<>>, x, 1, x)
    \/ /\ In("mySqrt")
       /\ \/ Halve(Middle * Middle > target)
          \/ left > right /\ Return(<<right>>)

(* Two passes of binarySearch: isFirst keeps the left side of an equal     *)
(* element, the second pass its right side.                                *)
searchRange ==
    \/ Idle /\ \E a \in SortedArrays, t \in Values : Call("searchRange", a, t, 0, Len(a) - 1)
    \/ /\ In("searchRange")
       /\ \/ Halve(LET num == nums[Middle + 1] IN
                     num > target \/ (num = target /\ leftIndex = -1))
          \/ /\ left > right /\ leftIndex = -1
             /\ leftIndex' = left
             /\ left' = 0 /\ right' = Len(nums) - 1
             /\ UNCHANGED <<stage, problem, nums, target, answer, turns>>
          \/ /\ left > right /\ leftIndex # -1
             /\ IF /\ leftIndex <= right /\ right < Len(nums)
                   /\ nums[leftIndex + 1] = nums[right + 1]
                THEN Return(<<leftIndex, right>>)
                ELSE Return(<<-1, -1>>)

(* The pair is read from an even index on; past the last element there is  *)
(* nothing of the array.                                                   *)
singleNonDuplicate ==
    \/ Idle /\ \E a \in PairedArrays : Call("singleNonDuplicate", a, 0, 0, Len(a) - 1)
    \/ /\ In("singleNonDuplicate") /\ left <= right
       /\ LET mid == Middle - (Middle % 2)
          IN \E next \in Read(mid + 1) :
               IF nums[mid + 1] = next THEN left' = mid + 2 /\ UNCHANGED right
                                       ELSE right' = mid - 1 /\ UNCHANGED left
       /\ Turn
    \/ /\ In("singleNonDuplicate") /\ left > right
       /\ \E num \in Read(left) : Return(<<num>>)

(* The turns of a loop with a pointer at each end, given their sum. *)
Approach(sum) ==
    IF left < right
    THEN \/ sum = target /\ Return(<<left, right>>)
         \/ /\ sum > target /\ right' = right - 1 /\ UNCHANGED left /\ Turn
         \/ /\ sum < target /\ left' = left + 1 /\ UNCHANGED right /\ Turn
    ELSE Return(<<>>)

(* solve() of twoSum2.cpp prints two indices, or nothing. *)
twoSum ==
    \/ Idle /\ \E a \in SortedArrays, v, w \in Values : Call("twoSum", a, v + w, 0, Len(a) - 1)
    \/ In("twoSum") /\ Approach(nums[left + 1] + nums[right + 1])

(* ceil(sqrt(target)) *)
CeilingOfRoot(t) == CHOOSE r \in 0..t : r * r >= t /\ \A s \in 0..t : s < r => s * s < t

(* solve() of Sum_of_Square_Numbers.cpp prints two numbers, or fails. *)
sumOfSquares ==
    \/ Idle /\ \E t \in 0..MaxNumber : Call("sumOfSquares", <<>>, t, 0, CeilingOfRoot(t))
    \/ In("sumOfSquares") /\ Approach(left * left + right * right)

(* The caller takes the answer and forgets the rest. *)
Done ==
    /\ stage = "returned" /\ stage' = "idle"
    /\ problem' = "none" /\ nums' = <<>> /\ target' = 0
    /\ left' = 0 /\ right' = 0 /\ leftIndex' = -1 /\ answer' = <<>> /\ turns' = 0

Next == \/ firstBadVersion \/ findMin \/ mySqrt \/ searchRange \/ singleNonDuplicate
        \/ twoSum \/ sumOfSquares \/ Done

Spec == Init /\ [][Next]_vars

----------------------------------------------------------------------------
(* What each function promises.  singleNonDuplicate() reads past the end   *)
(* when the single element is the last, and what it reads then is its      *)
(* answer only if it found the same value there twice; whatever else it    *)
(* read, the last element is the answer.  solve() looks for the sum of two *)
(* different squares only.                                                 *)
Promised ==
    CASE problem = "firstBadVersion" -> answer = <<target>>
      [] problem = "findMin" ->
           \E m \in Values : /\ answer = <<m>> /\ Count(nums, m) # {}
                             /\ \A i \in DOMAIN nums : m <= nums[i]
      [] problem = "mySqrt" ->
           /\ answer[1] * answer[1] <= target
           /\ target < (answer[1] + 1) * (answer[1] + 1)
      [] problem = "searchRange" ->
           IF Count(nums, target) = {} THEN answer = <<-1, -1>>
           ELSE Count(nums, target) = answer[1] + 1 .. answer[2] + 1
      [] problem = "singleNonDuplicate" ->
           \E i \in DOMAIN nums : /\ Count(nums, nums[i]) = {i}
                                  /\ \/ left = i - 1 /\ answer = <<nums[i]>>
                                     \/ left = i + 1 /\ i = Len(nums)
      [] problem = "twoSum" ->
           LET Pairs == {p \in (1..Len(nums)) \X (1..Len(nums)) :
                           p[1] < p[2] /\ nums[p[1]] + nums[p[2]] = target}
           IN IF answer = <<>> THEN Pairs = {}
              ELSE <<answer[1] + 1, answer[2] + 1>> \in Pairs
      [] problem = "sumOfSquares" ->
           LET Pairs == {p \in (0..target) \X (0..target) :
                           p[1] < p[2] /\ p[1] * p[1] + p[2] * p[2] = target}
           IN IF answer = <<>> THEN Pairs = {} ELSE answer \in Pairs

(* A search narrows its interval with every turn of the loop, so that it   *)
(* ends, and what it returns at the end is the answer for the whole array. *)
Narrows ==
    /\ turns' > turns => right' - left' < right - left
    /\ stage' = "returned" => Promised'

NarrowsToTheAnswer == [][Narrows]_vars
=============================================================================
