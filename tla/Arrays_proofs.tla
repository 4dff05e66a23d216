--------------------------- MODULE Arrays_proofs ----------------------------
(***************************************************************************)
(* The loops over arrays in MCSerialCode: the partitions of SortColors and *)
(* NthElement, the binary searches and the pairs of pointers, for arrays   *)
(* of every length.                                                        *)
(***************************************************************************)
EXTENDS MCSerialCode, SequenceTheorems, FiniteSetTheorems, WellFoundedInduction, TLAPS

Index == INSTANCE RingIndex_proofs

----------------------------------------------------------------------------
(* SortColors and NthElement: what a swap does to an array. *)
SwapIn(f, x, y) == [f EXCEPT ![x] = f[y], ![y] = f[x]]

PlacesOf(f, n, c) == {z \in 0 .. n - 1 : f[z] = c}

LEMMA SwapKeepsCounts ==
    ASSUME NEW S, NEW n \in Nat, NEW f \in [0 .. n - 1 -> S],
           NEW x \in 0 .. n - 1, NEW y \in 0 .. n - 1, NEW c
    PROVE  Cardinality(PlacesOf(SwapIn(f, x, y), n, c)) = Cardinality(PlacesOf(f, n, c))
<1> DEFINE g == SwapIn(f, x, y)
           A == {z \in 0 .. n - 1 : f[z] = c}
           B == {z \in 0 .. n - 1 : g[z] = c}
           to(z) == IF z = x THEN y ELSE IF z = y THEN x ELSE z
           move == [z \in A |-> to(z)]
<1>1. \A z \in 0 .. n - 1 : g[z] = IF z = y THEN f[x] ELSE IF z = x THEN f[y] ELSE f[z]
  BY DEF SwapIn
<1> HIDE DEF g
<1>2. /\ \A z \in A : to(z) \in B
      /\ \A z \in B : to(z) \in A /\ to(to(z)) = z
      /\ \A z, w \in A : to(z) = to(w) => z = w
  BY <1>1
<1>3. move \in Bijection(A, B)
  <2> HIDE DEF A, B, to
  <2>1. move \in [A -> B] /\ \A z, w \in A : move[z] = move[w] => z = w
    BY <1>2
  <2>2. \A z \in B : \E w \in A : move[w] = z
    BY <1>2
  <2>3. QED  BY <2>1, <2>2 DEF Bijection, Injection, Surjection, IsInjective
<1>4. IsFiniteSet(A)
  <2>1. IsFiniteSet(0 .. n - 1)
    BY FS_Interval
  <2>2. QED  BY <2>1, FS_Subset
<1>5. QED  BY <1>3, <1>4, FS_Bijection DEF ExistsBijection, PlacesOf, g

LEMMA SwapsAre ==
    /\ \A f, x, y : Colors!Swap(f, x, y) = SwapIn(f, x, y)
    /\ \A f, x, y : Nth!Swap(f, x, y) = SwapIn(f, x, y)
BY DEF Colors!Swap, Nth!Swap, SwapIn
(* What SortColors keeps true between the turns of its loop. *)
ColorArray(colors) == colors \in [0 .. target - 1 -> 0 .. 2]

ColorsInv ==
    /\ turns \in Nat
    /\ stage = "idle" => input = nums
    /\ stage # "idle" => /\ target \in Nat /\ ColorArray(input) /\ ColorArray(nums)
                         /\ left \in Int /\ right \in Int /\ i \in Int
                         /\ problem \in {"Solution1", "Solution2"}
    /\ Colors!Regions /\ Colors!Sorted /\ Colors!SameColors

LEMMA ColorsCounted ==
    ASSUME ColorArray(input), ColorArray(nums), target \in Nat
    PROVE  Colors!SameColors <=>
             \A c \in 0 .. 2 : Cardinality(PlacesOf(input, target, c))
                               = Cardinality(PlacesOf(nums, target, c))
<1>1. \A S : Colors!Cardinality(S) = Cardinality(S)
  BY DEF Colors!Cardinality, Cardinality
<1>2. DOMAIN input = 0 .. target - 1 /\ DOMAIN nums = 0 .. target - 1
  BY DEF ColorArray
<1>3. QED  BY <1>1, <1>2 DEF Colors!SameColors, PlacesOf
LEMMA ColorsCountedNext ==
    ColorArray(input)' /\ ColorArray(nums)' /\ target' \in Nat =>
      (Colors!SameColors' <=>
         \A c \in 0 .. 2 : Cardinality(PlacesOf(input', target', c))
                           = Cardinality(PlacesOf(nums', target', c)))
<1>1. \A S : Colors!Cardinality(S) = Cardinality(S)
  BY DEF Colors!Cardinality, Cardinality
<1>2. ColorArray(input)' /\ ColorArray(nums)' => DOMAIN input' = 0 .. target' - 1 /\ DOMAIN nums' = 0 .. target' - 1
  BY DEF ColorArray
<1>3. QED  BY <1>1, <1>2 DEF Colors!SameColors, PlacesOf

(* sortColors() is called ... *)
LEMMA CallColors ==
    ASSUME ColorsInv, NEW which \in {"Solution1", "Solution2"}, Colors!Call(which)
    PROVE  ColorsInv' /\ turns' = turns
<1>1. PICK n \in 0 .. MaxSize : \E f \in [0 .. n - 1 -> 0 .. 2] :
        /\ target' = n /\ input' = f /\ nums' = f
        /\ stage' = IF n < 2 THEN "returned" ELSE "loop"
  BY DEF Colors!Call
<1>2. /\ n \in Nat /\ target' = n /\ input' = nums' /\ turns' = turns /\ i' = 0
      /\ nums' \in [0 .. n - 1 -> 0 .. 2]
      /\ problem' = which /\ stage' = IF n < 2 THEN "returned" ELSE "loop"
  BY <1>1, InputAssumption DEF Colors!Call
<1>3. IF which = "Solution1" THEN left' = 0 /\ right' = n ELSE left' = -1 /\ right' = n - 1
  BY <1>1 DEF Colors!Call
<1>4. Colors!Regions'
  BY <1>2, <1>3 DEF Colors!Regions, Colors!zeros, Colors!twos
<1>5. Colors!Sorted'
  BY <1>2 DEF Colors!Sorted
<1>6. Colors!SameColors'
  BY <1>2 DEF Colors!SameColors, PlacesOf
<1>7. QED  BY <1>2, <1>3, <1>4, <1>5, <1>6 DEF ColorsInv, ColorArray

(* ... and runs a turn of its loop: what is at the front of the unknown     *)
(* part joins the zeros, the ones or the twos.                              *)
LEMMA TurnColors ==
    ASSUME ColorsInv, stage = "loop", NEW z, NEW t,
           z = Colors!zeros, t = Colors!twos - 1, i <= t,
           Colors!Turn(z, t)
    PROVE  ColorsInv' /\ turns' > turns /\ right' - i' < right - i
<1>1. /\ target \in Nat /\ nums \in [0 .. target - 1 -> 0 .. 2] /\ ColorArray(input)
      /\ left \in Int /\ right \in Int /\ i \in Int /\ turns \in Nat
      /\ problem \in {"Solution1", "Solution2"}
  BY DEF ColorsInv, ColorArray
<1>2. /\ z \in Int /\ t \in Int /\ 0 <= z /\ z <= i /\ i <= t /\ t <= target - 1
      /\ \A k \in 0 .. target - 1 : /\ k < z => nums[k] = 0
                                    /\ z <= k /\ k < i => nums[k] = 1
                                    /\ t < k => nums[k] = 2
  BY <1>1 DEF ColorsInv, Colors!Regions, Colors!zeros, Colors!twos
<1>3. /\ turns' = turns + 1 /\ stage' = stage /\ problem' = problem
      /\ input' = input /\ target' = target
  BY DEF Colors!Turn
<1>4. /\ z \in 0 .. target - 1 /\ t \in 0 .. target - 1 /\ i \in 0 .. target - 1
  BY <1>1, <1>2
<1> DEFINE places == 0 .. target - 1
<1>5. \/ /\ nums[i] = 0 /\ nums' = SwapIn(nums, z, i)
         /\ left' = left + 1 /\ i' = i + 1 /\ right' = right
      \/ /\ nums[i] = 1 /\ nums' = nums
         /\ left' = left /\ i' = i + 1 /\ right' = right
      \/ /\ nums[i] = 2 /\ nums' = SwapIn(nums, i, t)
         /\ left' = left /\ i' = i /\ right' = right - 1
  BY SwapsAre DEF Colors!Turn
<1>12. ASSUME NEW x \in places, NEW y \in places
       PROVE  /\ SwapIn(nums, x, y) \in [places -> 0 .. 2]
              /\ \A k \in places : SwapIn(nums, x, y)[k]
                   = IF k = y THEN nums[x] ELSE IF k = x THEN nums[y] ELSE nums[k]
  BY <1>1 DEF SwapIn
<1>6. /\ left' \in Int /\ right' \in Int /\ i' \in Int /\ right' - i' < right - i
      /\ nums' \in [places -> 0 .. 2]
  BY <1>1, <1>4, <1>5, <1>12
<1>7. \A c : Cardinality(PlacesOf(nums', target, c)) = Cardinality(PlacesOf(nums, target, c))
  <2>1. ASSUME NEW c, NEW x \in places, NEW y \in places
        PROVE  Cardinality(PlacesOf(SwapIn(nums, x, y), target, c))
                 = Cardinality(PlacesOf(nums, target, c))
    BY <1>1, SwapKeepsCounts, Zenon
  <2>2. QED  BY <2>1, <1>4, <1>5
<1>8. Colors!SameColors'
  <2>1. \A c \in 0 .. 2 : Cardinality(PlacesOf(input, target, c))
                          = Cardinality(PlacesOf(nums, target, c))
    BY <1>1, ColorsCounted DEF ColorsInv, ColorArray
  <2>2. \A c \in 0 .. 2 : Cardinality(PlacesOf(input', target', c))
                          = Cardinality(PlacesOf(nums', target', c))
    BY <1>3, <1>7, <2>1
  <2>3. ColorArray(input)' /\ ColorArray(nums)' /\ target' \in Nat
    BY <1>1, <1>3, <1>6 DEF ColorArray
  <2>4. QED  BY <2>2, <2>3, ColorsCountedNext
<1>9. Colors!Regions'
  <2> DEFINE ends == IF problem = "Solution2" THEN 1 ELSE 0
  <2>0. ends = IF problem = "Solution2" THEN 1 ELSE 0
    OBVIOUS
  <2> HIDE DEF ends
  <2>1. /\ ends \in 0 .. 1 /\ Colors!zeros = left + ends /\ Colors!twos = right + ends
        /\ Colors!zeros' = left' + ends /\ Colors!twos' = right' + ends
    <3>1. ends \in 0 .. 1
      BY <2>0
    <3>2. Colors!zeros = left + ends /\ Colors!twos = right + ends
      BY <2>0, <1>1 DEF Colors!zeros, Colors!twos
    <3>3. Colors!zeros' = left' + ends /\ Colors!twos' = right' + ends
      <4>1. problem' = problem /\ left' \in Int /\ right' \in Int
        BY <1>3, <1>6
      <4>2. /\ Colors!zeros' = IF problem' = "Solution2" THEN left' + 1 ELSE left'
            /\ Colors!twos' = IF problem' = "Solution2" THEN right' + 1 ELSE right'
        BY DEF Colors!zeros, Colors!twos
      <4>3. left' + 0 = left' /\ right' + 0 = right'
        <5>1. \A n \in Int : n + 0 = n
          OBVIOUS
        <5>2. QED  BY ONLY <5>1, <4>1
      <4>4. QED  BY <2>0, <4>1, <4>2, <4>3
    <3>4. QED  BY <3>1, <3>2, <3>3
  <2>2. z = left + ends /\ t = right + ends - 1
    BY <1>1, <2>1
  <2>3. SUFFICES /\ 0 <= left' + ends /\ left' + ends <= i' /\ i' <= right' + ends
                 /\ right' + ends <= target
                 /\ \A k \in places : /\ k < left' + ends => nums'[k] = 0
                                      /\ left' + ends <= k /\ k < i' => nums'[k] = 1
                                      /\ right' + ends <= k => nums'[k] = 2
    BY <1>3, <2>1 DEF Colors!Regions
  <2>4. CASE nums[i] = 0
    <3>1. \A k \in places : nums'[k] = IF k = i THEN nums[z] ELSE IF k = z THEN 0 ELSE nums[k]
      BY <1>1, <1>4, <1>5, <2>4, <1>12
    <3>2. left' = left + 1 /\ i' = i + 1 /\ right' = right
      BY <1>5, <2>4
    <3>3. QED  BY <3>1, <3>2, <1>1, <1>2, <1>4, <2>1, <2>2, <2>4
  <2>5. CASE nums[i] = 1
    <3>1. nums' = nums /\ left' = left /\ i' = i + 1 /\ right' = right
      BY <1>5, <2>5
    <3>2. QED  BY <3>1, <1>1, <1>2, <1>4, <2>1, <2>2, <2>5
  <2>6. CASE nums[i] = 2
    <3>1. \A k \in places : nums'[k] = IF k = t THEN 2 ELSE IF k = i THEN nums[t] ELSE nums[k]
      BY <1>1, <1>4, <1>5, <2>6, <1>12
    <3>2. left' = left /\ i' = i /\ right' = right - 1
      BY <1>5, <2>6
    <3>3. QED  BY <3>1, <3>2, <1>1, <1>2, <1>4, <2>1, <2>2, <2>6
  <2>7. QED  BY <1>5, <2>4, <2>5, <2>6
<1>10. Colors!Sorted'
  BY <1>3 DEF Colors!Sorted
<1>11. QED
  <2>1. ColorArray(input)' /\ ColorArray(nums)'
    BY <1>1, <1>3, <1>6 DEF ColorArray
  <2>2. turns' \in Nat /\ turns' > turns /\ stage' # "idle"
    BY <1>1, <1>3
  <2> HIDE DEF places
  <2>3. ColorsInv'
    BY <1>1, <1>3, <1>6, <1>8, <1>9, <1>10, <2>1, <2>2 DEF ColorsInv
  <2>4. QED  BY <1>6, <2>2, <2>3

(* At the end the twos begin where the ones end. *)
LEMMA ReturnColors ==
    ASSUME ColorsInv, stage = "loop", ~(i <= Colors!twos - 1), Colors!Return
    PROVE  ColorsInv' /\ turns' = turns
<1>1. /\ stage' = "returned" /\ problem' = problem /\ input' = input /\ nums' = nums
      /\ target' = target /\ left' = left /\ i' = i /\ right' = right /\ turns' = turns
  BY DEF Colors!Return
<1>2. /\ target \in Nat /\ nums \in [0 .. target - 1 -> 0 .. 2]
      /\ left \in Int /\ right \in Int /\ i \in Int
      /\ problem \in {"Solution1", "Solution2"}
  BY DEF ColorsInv, ColorArray
<1>3. /\ i = Colors!twos /\ Colors!zeros <= i
      /\ \A k \in 0 .. target - 1 : /\ k < Colors!zeros => nums[k] = 0
                                    /\ Colors!zeros <= k /\ k < i => nums[k] = 1
                                    /\ i <= k => nums[k] = 2
  BY <1>2 DEF ColorsInv, Colors!Regions, Colors!zeros, Colors!twos
<1>4. \A x, y \in 0 .. target - 1 : x < y => nums[x] <= nums[y]
  <2>1. Colors!zeros \in Int
    BY <1>2 DEF Colors!zeros
  <2>2. QED  BY <1>2, <1>3, <2>1
<1>5. Colors!Regions' /\ Colors!Sorted' /\ Colors!SameColors'
  BY <1>1, <1>4 DEF Colors!Regions, Colors!Sorted, ColorsInv, Colors!SameColors
<1>6. QED  BY <1>1, <1>5 DEF ColorsInv, ColorArray

LEMMA StepOfColors ==
    ASSUME ColorsInv, Colors!Next
    PROVE  ColorsInv' /\ Colors!Sorts
<1>1. SUFFICES ColorsInv' /\ (turns' > turns => right' - i' < right - i)
  BY DEF Colors!Sorts, ColorsInv
<1>2. turns \in Nat
  BY DEF ColorsInv
<1>3. CASE \E which \in {"Solution1", "Solution2"} : Colors!Call(which)
  BY <1>2, <1>3, CallColors
<1>4. ASSUME stage = "loop", problem = "Solution1"
      PROVE  /\ left = Colors!zeros /\ right - 1 = Colors!twos - 1
             /\ i < right <=> i <= Colors!twos - 1
  BY <1>4 DEF ColorsInv, Colors!zeros, Colors!twos
<1>5. ASSUME stage = "loop", problem = "Solution2"
      PROVE  /\ left + 1 = Colors!zeros /\ right = Colors!twos - 1
             /\ i <= right <=> i <= Colors!twos - 1
  BY <1>5 DEF ColorsInv, Colors!zeros, Colors!twos
<1>6. ASSUME stage = "loop",
             \/ problem = "Solution1" /\ i < right /\ Colors!Turn(left, right - 1)
             \/ problem = "Solution2" /\ i <= right /\ Colors!Turn(left + 1, right)
      PROVE  ColorsInv' /\ right' - i' < right - i
  BY <1>6, <1>4, <1>5, TurnColors
<1>7. ASSUME stage = "loop", Colors!Return,
             \/ problem = "Solution1" /\ ~(i < right)
             \/ problem = "Solution2" /\ ~(i <= right)
      PROVE  ColorsInv' /\ turns' = turns
  BY <1>7, <1>4, <1>5, ReturnColors
<1>8. CASE Colors!Done
  BY <1>2, <1>8 DEF Colors!Done, ColorsInv, Colors!Regions, Colors!Sorted, Colors!SameColors
<1>9. QED
  BY <1>2, <1>3, <1>6, <1>7, <1>8 DEF Colors!Next, Colors!Solution1, Colors!Solution2
(* What quickselect keeps true: the n-th smallest is in left .. right, and  *)
(* of that part, what the loop of partition() has looked at is divided.     *)
Divided ==
    /\ left <= i /\ i <= j /\ j <= right
    /\ \A x \in left .. right :
         /\ x < i => nums[x] < nums[right]
         /\ i <= x /\ x < j => nums[x] >= nums[right]

SameCounts(size) ==
    /\ input \in [0 .. size - 1 -> Values] /\ nums \in [0 .. size - 1 -> Values]
    /\ \A c : Cardinality(PlacesOf(input, size, c)) = Cardinality(PlacesOf(nums, size, c))

SelectingFrom(size) ==
    /\ nums \in [0 .. size - 1 -> Values] /\ SameCounts(size)
    /\ target \in -1 .. size
    /\ left \in Nat /\ right \in Int
    /\ left <= right + 1 /\ right <= size - 1
    /\ stage # "returned" /\ target \in 0 .. size - 1 => left <= target /\ target <= right
    /\ stage = "partition" => Divided

NthInv ==
    /\ stage \in {"idle", "select", "partition", "returned"}
    /\ i \in Int /\ j \in Int
    /\ stage = "idle" => input = nums
    /\ stage # "idle" => \E size \in Nat : SelectingFrom(size)
    /\ Nth!Split /\ Nth!Selected

(* The counts are those of SameElements. *)
LEMMA ElementsCounted == NthInv' => Nth!SameElements'
<1>1. \A S : Nth!Cardinality(S) = Cardinality(S)
  BY DEF Nth!Cardinality, Cardinality
<1>2. ASSUME NEW size \in Nat, SameCounts(size)' PROVE Nth!SameElements'
  <2>1. DOMAIN input' = 0 .. size - 1 /\ DOMAIN nums' = 0 .. size - 1
    BY <1>2 DEF SameCounts
  <2>2. \A c : Cardinality({z \in 0 .. size - 1 : input'[z] = c})
               = Cardinality({z \in 0 .. size - 1 : nums'[z] = c})
    BY <1>2 DEF SameCounts, PlacesOf
  <2>3. QED  BY <1>1, <2>1, <2>2 DEF Nth!SameElements
<1>3. input' = nums' => Nth!SameElements'
  BY DEF Nth!SameElements
<1>4. QED  BY <1>2, <1>3 DEF NthInv, SelectingFrom

(* A swap keeps them. *)
LEMMA SwapKeepsSameCounts ==
    ASSUME NEW size \in Nat, SameCounts(size), UNCHANGED input,
           NEW x \in 0 .. size - 1, NEW y \in 0 .. size - 1, nums' = SwapIn(nums, x, y)
    PROVE  SameCounts(size)'
<1>1. nums \in [0 .. size - 1 -> Values] /\ input' \in [0 .. size - 1 -> Values]
  BY DEF SameCounts
<1>2. nums' \in [0 .. size - 1 -> Values]
  BY <1>1 DEF SwapIn
<1>3. ASSUME NEW c
      PROVE  Cardinality(PlacesOf(input', size, c)) = Cardinality(PlacesOf(nums', size, c))
  <2>1. Cardinality(PlacesOf(SwapIn(nums, x, y), size, c)) = Cardinality(PlacesOf(nums, size, c))
    BY <1>1, SwapKeepsCounts, Zenon
  <2>2. Cardinality(PlacesOf(input, size, c)) = Cardinality(PlacesOf(nums, size, c))
    BY DEF SameCounts
  <2>3. QED  BY <2>1, <2>2
<1>4. QED  BY <1>1, <1>2, <1>3 DEF SameCounts

LEMMA CallNth == ASSUME NthInv, Nth!Call PROVE NthInv'
<1>1. PICK size \in 0 .. MaxSize :
        /\ \E f \in [0 .. size - 1 -> Values] : input' = f /\ nums' = f
        /\ \E m \in 0 .. size + 1 : target' = m - 1
        /\ right' = size - 1
  BY DEF Nth!Call
<1>2. /\ size \in Nat /\ nums' \in [0 .. size - 1 -> Values] /\ target' \in -1 .. size
      /\ right' = size - 1 /\ left' = 0 /\ stage' = "select"
      /\ i' = i /\ j' = j /\ input' = nums'
  BY <1>1, InputAssumption DEF Nth!Call
<1>3. SelectingFrom(size)'
  BY <1>2 DEF SelectingFrom, SameCounts
<1>4. Nth!Split' /\ Nth!Selected'
  <2>1. \A x, y \in DOMAIN nums' : ~(x < left' /\ left' <= y) /\ ~(x <= right' /\ right' < y)
    BY <1>2
  <2>2. QED  BY <1>2, <2>1 DEF Nth!Split, Nth!Selected
<1>5. QED  BY <1>2, <1>3, <1>4 DEF NthInv

LEMMA RoundOfNth == ASSUME NthInv, Nth!findNthElement PROVE NthInv'
<1>1. PICK size \in Nat : SelectingFrom(size)
  BY DEF NthInv, Nth!findNthElement
<1>2. /\ stage = "select" /\ nums' = nums /\ input' = input /\ target' = target /\ left' = left /\ right' = right
      /\ \/ left <= right /\ stage' = "partition" /\ i' = left /\ j' = left
         \/ ~(left <= right) /\ stage' = "returned" /\ found' = -1 /\ i' = i /\ j' = j
  BY DEF Nth!findNthElement
<1>3. left \in Int /\ right \in Int /\ target \in Int /\ DOMAIN nums = 0 .. size - 1
  BY <1>1 DEF SelectingFrom, NthInv
<1>4. SelectingFrom(size)'
  <2>1. stage' = "partition" => Divided'
    BY <1>2, <1>3 DEF Divided
  <2>2. SameCounts(size)'
    BY <1>1, <1>2 DEF SelectingFrom, SameCounts
  <2>3. QED  BY <1>1, <1>2, <1>3, <2>1, <2>2 DEF SelectingFrom
<1>5. Nth!Split'
  BY <1>2 DEF NthInv, Nth!Split
<1>6. Nth!Selected'
  <2>1. stage' = "returned" => target \notin DOMAIN nums /\ found' = -1
    BY <1>1, <1>2, <1>3 DEF SelectingFrom
  <2>2. QED  BY <1>2, <2>1 DEF Nth!Selected
<1>7. QED  BY <1>2, <1>3, <1>4, <1>5, <1>6 DEF NthInv

(* Elements of the part that is searched change places, which keeps the     *)
(* array split at both ends.                                                *)
LEMMA SplitStays ==
    ASSUME NEW size \in Nat, SelectingFrom(size), Nth!Split, stage # "idle",
           NEW x \in left .. right, NEW y \in left .. right
    PROVE  LET f == SwapIn(nums, x, y) IN
           /\ f \in [0 .. size - 1 -> Values]
           /\ \A z \in 0 .. size - 1 :
                f[z] = IF z = y THEN nums[x] ELSE IF z = x THEN nums[y] ELSE nums[z]
           /\ \A v, w \in 0 .. size - 1 :
                (v < left /\ left <= w) \/ (v <= right /\ right < w) => f[v] <= f[w]
<1> DEFINE f == SwapIn(nums, x, y)
<1>1. /\ nums \in [0 .. size - 1 -> Values] /\ left \in Nat /\ right \in Int
      /\ right <= size - 1
  BY DEF SelectingFrom
<1>2. x \in 0 .. size - 1 /\ y \in 0 .. size - 1
  BY <1>1
<1>3. /\ f \in [0 .. size - 1 -> Values]
      /\ \A z \in 0 .. size - 1 :
           f[z] = IF z = y THEN nums[x] ELSE IF z = x THEN nums[y] ELSE nums[z]
  BY <1>1, <1>2 DEF SwapIn
<1>4. \A v, w \in 0 .. size - 1 :
        (v < left /\ left <= w) \/ (v <= right /\ right < w) => nums[v] <= nums[w]
  BY <1>1 DEF Nth!Split
<1> HIDE DEF f
<1>5. ASSUME NEW v \in 0 .. size - 1, NEW w \in 0 .. size - 1,
             (v < left /\ left <= w) \/ (v <= right /\ right < w)
      PROVE  f[v] <= f[w]
  <2> DEFINE from(z) == IF z = y THEN x ELSE IF z = x THEN y ELSE z
  <2>1. \A z \in 0 .. size - 1 : from(z) \in 0 .. size - 1 /\ f[z] = nums[from(z)]
    BY <1>2, <1>3
  <2>2. (from(v) < left /\ left <= from(w)) \/ (from(v) <= right /\ right < from(w))
    BY <1>1, <1>5
  <2> HIDE DEF from
  <2>3. QED  BY <1>4, <2>1, <2>2
<1>6. QED  BY <1>3, <1>5 DEF f

LEMMA TurnOfNth == ASSUME NthInv, Nth!partition PROVE NthInv'
<1>1. PICK size \in Nat : SelectingFrom(size)
  BY DEF NthInv, Nth!partition
<1>2. /\ stage = "partition" /\ j < right
      /\ stage' = stage /\ target' = target /\ left' = left /\ right' = right
      /\ j' = j + 1 /\ input' = input
  BY DEF Nth!partition
<1>3. /\ nums \in [0 .. size - 1 -> Values] /\ left \in Nat /\ right \in Int
      /\ i \in Int /\ j \in Int /\ right <= size - 1
      /\ left <= i /\ i <= j /\ j < right
      /\ \A x \in left .. right : /\ x < i => nums[x] < nums[right]
                                  /\ i <= x /\ x < j => nums[x] >= nums[right]
      /\ \A x \in 0 .. size - 1 : nums[x] \in Nat
  BY <1>1, <1>2, InputAssumption DEF SelectingFrom, Divided, NthInv
<1>4. i \in left .. right /\ j \in left .. right /\ left .. right \subseteq 0 .. size - 1
  BY <1>3
<1>5. CASE nums[j] < nums[right]
  <2> DEFINE f == SwapIn(nums, i, j)
  <2>1. nums' = f /\ i' = i + 1
    BY <1>5, SwapsAre DEF Nth!partition
  <2>2. /\ f \in [0 .. size - 1 -> Values]
        /\ \A z \in 0 .. size - 1 :
             f[z] = IF z = j THEN nums[i] ELSE IF z = i THEN nums[j] ELSE nums[z]
        /\ \A v, w \in 0 .. size - 1 :
             (v < left /\ left <= w) \/ (v <= right /\ right < w) => f[v] <= f[w]
    BY <1>1, <1>2, <1>4, SplitStays DEF NthInv
  <2> HIDE DEF f
  <2>3. Divided'
    <3>1. f[right] = nums[right]
      BY <1>3, <1>4, <2>2
    <3>2. ASSUME NEW x \in left .. right
          PROVE  /\ x < i + 1 => f[x] < f[right]
                 /\ i + 1 <= x /\ x < j + 1 => f[x] >= f[right]
      BY <3>1, <1>3, <1>4, <1>5, <2>2
    <3>3. QED  BY <3>2, <1>2, <1>3, <2>1 DEF Divided
  <2>4. SelectingFrom(size)'
    <3>1. SameCounts(size)'
      BY <1>1, <1>2, <1>4, <2>1, SwapKeepsSameCounts DEF f, SelectingFrom
    <3>2. QED  BY <3>1, <1>1, <1>2, <1>3, <2>1, <2>2, <2>3 DEF SelectingFrom
  <2>5. Nth!Split' /\ Nth!Selected'
    BY <1>2, <2>1, <2>2 DEF Nth!Split, Nth!Selected
  <2>6. QED  BY <1>2, <1>3, <2>1, <2>4, <2>5 DEF NthInv
<1>6. CASE ~(nums[j] < nums[right])
  <2>1. nums' = nums /\ i' = i
    BY <1>6 DEF Nth!partition
  <2>2. Divided'
    <3>1. j \in 0 .. size - 1 /\ right \in 0 .. size - 1
      BY <1>3, <1>4
    <3>2. nums[j] >= nums[right]
      BY <1>3, <1>6, <3>1
    <3>3. QED  BY <1>2, <1>3, <2>1, <3>2 DEF Divided
  <2>3. SelectingFrom(size)'
    <3>1. SameCounts(size)'
      BY <1>1, <1>2, <2>1 DEF SelectingFrom, SameCounts
    <3>2. QED  BY <3>1, <1>1, <1>2, <1>3, <2>1, <2>2 DEF SelectingFrom
  <2>4. Nth!Split' /\ Nth!Selected'
    BY <1>2, <2>1 DEF Nth!Split, Nth!Selected, NthInv
  <2>5. QED  BY <1>2, <1>3, <2>1, <2>3, <2>4 DEF NthInv
<1>7. QED  BY <1>5, <1>6

(* The pivot of an array split around it is the element of its place.       *)
LEMMA PivotInPlace ==
    ASSUME NEW size \in Nat, NEW f \in [0 .. size - 1 -> Values], NEW n \in 0 .. size - 1,
           \A x \in 0 .. size - 1 : /\ x < n => f[x] <= f[n]
                                    /\ n < x => f[x] >= f[n]
    PROVE  /\ Cardinality({x \in 0 .. size - 1 : f[x] < f[n]}) <= n
           /\ n < Cardinality({x \in 0 .. size - 1 : f[x] <= f[n]})
<1> DEFINE B == {x \in 0 .. size - 1 : f[x] < f[n]}
           U == {x \in 0 .. size - 1 : f[x] <= f[n]}
<1>1. \A x \in 0 .. size - 1 : f[x] \in Nat
  BY InputAssumption
<1>2. B \subseteq 0 .. n - 1 /\ 0 .. n \subseteq U /\ U \subseteq 0 .. size - 1
  BY <1>1
<1> HIDE DEF B, U
<1>3. /\ IsFiniteSet(0 .. n - 1) /\ IsFiniteSet(0 .. n) /\ IsFiniteSet(0 .. size - 1)
      /\ Cardinality(0 .. n - 1) = n /\ Cardinality(0 .. n) = n + 1
  <2>1. 0 \in Int /\ n \in Int /\ n - 1 \in Int /\ size - 1 \in Int /\ ~(0 > n)
    OBVIOUS
  <2>2. IsFiniteSet(0 .. n - 1) /\ IsFiniteSet(0 .. n) /\ IsFiniteSet(0 .. size - 1)
    BY <2>1, FS_Interval
  <2>3. Cardinality(0 .. n) = n - 0 + 1
    BY <2>1, FS_Interval
  <2>4. Cardinality(0 .. n - 1) = IF 0 > n - 1 THEN 0 ELSE (n - 1) - 0 + 1
    BY <2>1, FS_Interval
  <2>5. QED  BY <2>1, <2>2, <2>3, <2>4
<1>4. IsFiniteSet(U)
  BY <1>2, <1>3, FS_Subset
<1>5. /\ Cardinality(B) <= Cardinality(0 .. n - 1)
      /\ Cardinality(0 .. n) <= Cardinality(U) /\ Cardinality(U) \in Nat
  BY <1>2, <1>3, <1>4, FS_Subset, FS_CardinalityType
<1>6. QED  BY <1>3, <1>5 DEF B, U

LEMMA NarrowNth ==
    ASSUME NthInv, Nth!Narrow
    PROVE  NthInv' /\ (stage' = "select" => right' - left' < right - left)
<1>1. PICK size \in Nat : SelectingFrom(size)
  BY DEF NthInv, Nth!Narrow
<1> DEFINE f == SwapIn(nums, i, right)
<1>2. /\ stage = "partition" /\ j = right
      /\ nums' = f /\ target' = target /\ i' = i /\ j' = j /\ input' = input
      /\ \/ i = target /\ stage' = "returned" /\ found' = nums'[i] /\ left' = left /\ right' = right
         \/ i < target /\ stage' = "select" /\ left' = i + 1 /\ right' = right
         \/ i > target /\ stage' = "select" /\ right' = i - 1 /\ left' = left
  BY SwapsAre DEF Nth!Narrow
<1>3. /\ nums \in [0 .. size - 1 -> Values] /\ left \in Nat /\ right \in Int
      /\ target \in -1 .. size
      /\ i \in Int /\ j \in Int /\ right <= size - 1
      /\ left <= i /\ i <= right
      /\ \A x \in left .. right : /\ x < i => nums[x] < nums[right]
                                  /\ i <= x /\ x < right => nums[x] >= nums[right]
      /\ \A x \in 0 .. size - 1 : nums[x] \in Nat
      /\ target \in 0 .. size - 1 => left <= target /\ target <= right
  BY <1>1, <1>2, InputAssumption DEF SelectingFrom, Divided, NthInv
<1>4. /\ i \in left .. right /\ right \in left .. right /\ left .. right \subseteq 0 .. size - 1
      /\ right \in 0 .. size - 1 /\ i \in 0 .. size - 1
  BY <1>3
<1>5. /\ f \in [0 .. size - 1 -> Values]
      /\ \A z \in 0 .. size - 1 :
           f[z] = IF z = right THEN nums[i] ELSE IF z = i THEN nums[right] ELSE nums[z]
      /\ \A v, w \in 0 .. size - 1 :
           (v < left /\ left <= w) \/ (v <= right /\ right < w) => f[v] <= f[w]
  BY <1>1, <1>2, <1>4, SplitStays DEF NthInv
<1> HIDE DEF f
<1>6. \A x \in 0 .. size - 1 : f[x] \in Nat
  BY <1>3, <1>4, <1>5
<1>7. \A x \in left .. right : /\ x < i => f[x] <= f[i]
                               /\ i < x => f[x] >= f[i]
  <2>1. f[i] = nums[right]
    BY <1>3, <1>4, <1>5
  <2>2. TAKE x \in left .. right
  <2>3. x \in 0 .. size - 1 /\ nums[x] \in Nat /\ nums[i] \in Nat /\ nums[right] \in Nat
    BY <1>3, <1>4
  <2>4. CASE x = right
    <3>1. f[x] = nums[i] /\ (i < right => nums[i] >= nums[right])
      BY <1>3, <1>4, <1>5, <2>4
    <3>2. QED  BY <3>1, <2>1, <2>3, <2>4, <1>3
  <2>5. CASE x # right
    <3>1. x # i => f[x] = nums[x]
      BY <1>5, <2>3, <2>5
    <3>2. QED  BY <3>1, <2>1, <2>3, <2>5, <1>3
  <2>6. QED  BY <2>4, <2>5
<1>8. \A x \in 0 .. size - 1 : /\ x < i => f[x] <= f[i]
                               /\ i < x => f[x] >= f[i]
  <2>1. TAKE x \in 0 .. size - 1
  <2>2. x < left => f[x] <= f[i]
    BY <1>3, <1>4, <1>5
  <2>3. right < x => f[i] <= f[x]
    BY <1>3, <1>4, <1>5
  <2>4. QED  BY <2>2, <2>3, <1>3, <1>4, <1>6, <1>7
<1>9. \A x, y \in 0 .. size - 1 :
        (x < left' /\ left' <= y) \/ (x <= right' /\ right' < y) => f[x] <= f[y]
  <2>1. SUFFICES ASSUME NEW x \in 0 .. size - 1, NEW y \in 0 .. size - 1,
                        (x < left' /\ left' <= y) \/ (x <= right' /\ right' < y)
                 PROVE  f[x] <= f[y]
    OBVIOUS
  <2>2. CASE (x < left /\ left <= y) \/ (x <= right /\ right < y)
    BY <2>2, <1>5
  <2>3. CASE x < i + 1 /\ i + 1 <= y
    <3>1. (x = i \/ f[x] <= f[i]) /\ f[i] <= f[y]
      BY <2>3, <1>3, <1>6, <1>8
    <3>2. QED  BY <3>1, <1>4, <1>6
  <2>4. CASE x <= i - 1 /\ i - 1 < y
    <3>1. f[x] <= f[i] /\ (y = i \/ f[i] <= f[y])
      BY <2>4, <1>3, <1>6, <1>8
    <3>2. QED  BY <3>1, <1>4, <1>6
  <2>5. QED  BY <2>1, <2>2, <2>3, <2>4, <1>2
<1>10. Nth!Split'
  BY <1>2, <1>5, <1>9 DEF Nth!Split
<1>11. Nth!Selected'
  <2>1. CASE i = target
    <3>1. \A S : Nth!Cardinality(S) = Cardinality(S)
      BY DEF Nth!Cardinality, Cardinality
    <3>2. /\ Cardinality({x \in 0 .. size - 1 : f[x] < f[i]}) <= i
          /\ i < Cardinality({x \in 0 .. size - 1 : f[x] <= f[i]})
      BY <1>4, <1>5, <1>8, PivotInPlace
    <3>3. DOMAIN nums' = 0 .. size - 1 /\ found' = f[i] /\ target' = i /\ nums' = f
      BY <1>2, <1>3, <1>5, <2>1
    <3>4. QED  BY <3>1, <3>2, <3>3, <1>4 DEF Nth!Selected
  <2>2. CASE i # target
    BY <2>2, <1>2 DEF Nth!Selected
  <2>3. QED  BY <2>1, <2>2
<1>12. SelectingFrom(size)'
  <2>1. SameCounts(size)'
    BY <1>1, <1>2, <1>4, SwapKeepsSameCounts DEF f, SelectingFrom
  <2>2. /\ target' \in -1 .. size /\ left' \in Nat /\ right' \in Int
        /\ left' <= right' + 1 /\ right' <= size - 1
        /\ stage' # "returned" /\ target' \in 0 .. size - 1
             => left' <= target' /\ target' <= right'
    BY <1>2, <1>3, <1>4
  <2>3. nums' \in [0 .. size - 1 -> Values] /\ stage' # "partition"
    BY <1>2, <1>5
  <2>4. QED  BY <2>1, <2>2, <2>3 DEF SelectingFrom
<1>13. QED  BY <1>2, <1>3, <1>10, <1>11, <1>12 DEF NthInv

LEMMA StepOfNth == ASSUME NthInv, Nth!Next PROVE NthInv' /\ Nth!Selects
<1>1. /\ NthInv'
      /\ stage = "partition" /\ stage' = "select" => right' - left' < right - left
  <2>1. CASE Nth!Call
    BY <2>1, CallNth DEF Nth!Call
  <2>2. CASE Nth!findNthElement
    BY <2>2, RoundOfNth DEF Nth!findNthElement
  <2>3. CASE Nth!partition
    BY <2>3, TurnOfNth DEF Nth!partition
  <2>4. CASE Nth!Narrow
    BY <2>4, NarrowNth
  <2>5. CASE Nth!Done
    BY <2>5 DEF Nth!Done, NthInv, Nth!Split, Nth!Selected
  <2>6. QED  BY <2>1, <2>2, <2>3, <2>4, <2>5 DEF Nth!Next
<1>2. Nth!SameElements'
  BY <1>1, ElementsCounted
<1>3. QED  BY <1>1, <1>2 DEF NthInv, Nth!Selects

(* What is true of the partition in use. *)
PartitionInv == /\ used = "SortColors" => ColorsInv
                /\ used = "NthElement" => NthInv

LEMMA InitPartition == Init => PartitionInv
<1> SUFFICES ASSUME Init PROVE PartitionInv
  OBVIOUS
<1>1. /\ stage = "idle" /\ input = <<>> /\ nums = <<>> /\ turns = 0 /\ i = 0 /\ j = 0
  BY DEF Init, Colors!Init, Nth!Init
<1>2. ColorsInv
  BY <1>1 DEF ColorsInv, Colors!Regions, Colors!Sorted, Colors!SameColors
<1>3. NthInv
  BY <1>1 DEF NthInv, Nth!Split, Nth!Selected
<1>4. QED  BY <1>2, <1>3 DEF PartitionInv

LEMMA NextPartition ==
    ASSUME PartitionInv, Next
    PROVE  /\ PartitionInv'
           /\ used = "SortColors" => Colors!Sorts
           /\ used = "NthElement" => Nth!Selects
<1>1. used' = used
  BY ONLY Next DEF Next
<1>2. used = "SortColors" => Colors!Next
  BY DEF Next, Algorithm, OnArrays
<1>3. used = "NthElement" => Nth!Next
  BY DEF Next, Algorithm, OnArrays
<1>4. QED  BY ONLY PartitionInv, <1>1, <1>2, <1>3, StepOfColors, StepOfNth DEF PartitionInv

LEMMA StillPartition == PartitionInv /\ UNCHANGED vars => PartitionInv'
<1> SUFFICES ASSUME PartitionInv, UNCHANGED vars PROVE PartitionInv'
  OBVIOUS
<1>1. UNCHANGED <<used, stage, problem, input, nums, target, left, right, i, j, found, turns>>
  BY DEF vars, algVars, arrayVars
<1>2. ColorsInv => ColorsInv'
  BY <1>1 DEF ColorsInv, ColorArray, Colors!Regions, Colors!Sorted, Colors!SameColors,
              Colors!zeros, Colors!twos
<1>3. NthInv => NthInv'
  <2>1. \A size \in Nat : SelectingFrom(size) => SelectingFrom(size)'
    BY <1>1 DEF SelectingFrom, SameCounts, Divided
  <2>2. QED  BY <1>1, <2>1 DEF NthInv, Nth!Split, Nth!Selected
<1>4. QED  BY <1>1, <1>2, <1>3 DEF PartitionInv

(* sortColors() of either solution keeps the regions of its comments in     *)
(* every turn and ends with the same colors in order; quickselect keeps the *)
(* array split at both ends of the part it still searches, and ends with    *)
(* the n-th smallest of the same elements: for arrays of every length.      *)
THEOREM PartitionsSortAndSelect == Spec => PartitionsHold
<1>1. Init => PartitionInv
  BY InitPartition
<1>2. PartitionInv /\ [Next]_vars => PartitionInv'
  BY NextPartition, StillPartition
<1>3. PartitionInv /\ [Next]_vars => [/\ used = "SortColors" => Colors!Sorts
                                      /\ used = "NthElement" => Nth!Selects]_vars
  BY NextPartition
<1>4. QED  BY <1>1, <1>2, <1>3, PTL DEF Spec, PartitionsHold

----------------------------------------------------------------------------
(* Searches: where the answer still can be, in every turn of a loop. *)
FirstBadWithin == 1 <= left /\ left <= target /\ target <= right + 1

RootWithin ==
    /\ 1 <= left /\ 0 <= right /\ left <= right + 1
    /\ (left - 1) * (left - 1) <= target /\ target < (right + 1) * (right + 1)

(* The least element of a rotated array f is at p, counted from 0; it and   *)
(* those behind it are not above the last.                                  *)
RisesFrom(f, p) ==
    \A x \in 1 .. Len(f) : /\ f[p + 1] <= f[x]
                           /\ f[x] <= f[Len(f)] <=> p + 1 <= x

MinWithin ==
    /\ 0 <= left /\ right <= Len(nums) - 1
    /\ \E p \in 0 .. Len(nums) - 1 : RisesFrom(nums, p) /\ left <= p /\ p <= right + 1

Ascending == \A x, y \in 1 .. Len(nums) : x < y => nums[x] <= nums[y]

RangeWithin ==
    /\ Ascending
    /\ 0 <= left /\ left <= right + 1 /\ right <= Len(nums) - 1
    /\ found = -1 =>
         \A x \in 1 .. Len(nums) : /\ x <= left => nums[x] < target
                                   /\ right + 1 < x => nums[x] >= target
    /\ found # -1 =>
         /\ found \in 0 .. Len(nums)
         /\ \A x \in 1 .. Len(nums) : /\ x <= found => nums[x] < target
                                      /\ found < x => nums[x] >= target
                                      /\ x <= left => nums[x] <= target
                                      /\ right + 1 < x => nums[x] > target

(* The element at s, counted from 0, stands alone: the pairs before it      *)
(* start at even places, those behind it at odd ones.  It stays in reach    *)
(* unless it is the last and the place behind the end compares equal.       *)
StandsAlone(f, s) ==
    /\ s % 2 = 0 /\ Len(f) % 2 = 1
    /\ Search!Count(f, f[s + 1]) = {s + 1}
    /\ \A x \in 0 .. Len(f) - 2 : x % 2 = 0 => (f[x + 1] = f[x + 2] <=> x < s)

SingleWithin ==
    /\ 0 <= left /\ left % 2 = 0 /\ right <= Len(nums) - 1
    /\ \E s \in 0 .. Len(nums) - 1 :
         /\ StandsAlone(nums, s)
         /\ \/ left <= s /\ s <= right + 1
            \/ s = Len(nums) - 1 /\ left = s + 2 /\ right = s

(* The pairs with the sum twoSum() and sumOfSquares() look for. *)
SumWithin ==
    /\ Ascending /\ 0 <= left /\ right <= Len(nums) - 1
    /\ \A x, y \in 1 .. Len(nums) :
         x < y /\ nums[x] + nums[y] = target => left + 1 <= x /\ y <= right + 1

SquaresWithin ==
    /\ 0 <= left /\ right <= target
    /\ \A x, y \in 0 .. target :
         x < y /\ x * x + y * y = target => left <= x /\ y <= right

SearchInv ==
    /\ turns \in Nat /\ left \in Int /\ right \in Int /\ found \in Int
    /\ stage = "idle" => found = -1
    /\ stage = "loop" =>
         /\ nums \in Seq(Values) /\ target \in Nat
         /\ problem = "firstBadVersion"    => FirstBadWithin
         /\ problem = "findMin"            => MinWithin
         /\ problem = "mySqrt"             => RootWithin
         /\ problem = "searchRange"        => RangeWithin
         /\ problem = "singleNonDuplicate" => SingleWithin
         /\ problem = "twoSum"             => SumWithin
         /\ problem = "sumOfSquares"       => SquaresWithin

LEMMA MiddleIsWithin ==
    ASSUME left \in Int, right \in Int, left <= right
    PROVE  Search!Middle \in Int /\ left <= Search!Middle /\ Search!Middle <= right
<1>1. ASSUME NEW d \in Nat PROVE d \div 2 \in Nat /\ d \div 2 <= d
  OBVIOUS
<1>2. right - left \in Nat
  OBVIOUS
<1>3. QED  BY <1>1, <1>2 DEF Search!Middle

LEMMA Elements ==
    ASSUME nums \in Seq(Values)
    PROVE  /\ Len(nums) \in Nat /\ DOMAIN nums = 1 .. Len(nums)
           /\ \A x \in 1 .. Len(nums) : nums[x] \in Values /\ nums[x] \in Nat
<1>1. \A x \in 1 .. Len(nums) : nums[x] \in Values
  BY ElementOfSeq
<1>2. QED  BY <1>1, LenProperties, InputAssumption

LEMMA ArraysAre ==
    ASSUME NEW f \in Search!Arrays
    PROVE  /\ f \in Seq(Values) /\ Len(f) \in Nat /\ DOMAIN f = 1 .. Len(f)
           /\ \A x \in 1 .. Len(f) : f[x] \in Values /\ f[x] \in Nat
<1>1. PICK n \in Nat : f \in [1 .. n -> Values]
  BY InputAssumption DEF Search!Arrays
<1>2. f \in Seq(Values)
  BY <1>1, SeqDef
<1>3. Len(f) = n /\ DOMAIN f = 1 .. n
  BY <1>1, <1>2, LenProperties
<1>4. QED  BY <1>1, <1>2, <1>3, InputAssumption

(* A search that is called finds an invariant of its own to establish. *)
LEMMA Called ==
    ASSUME SearchInv, stage = "idle", NEW function, NEW f \in Seq(Values), NEW t \in Nat,
           NEW first \in Int, NEW last \in Int,
           Search!Call(function, f, t, first, last)
    PROVE  /\ stage' = "loop" /\ problem' = function /\ nums' = f /\ target' = t
           /\ left' = first /\ right' = last /\ found' = -1
           /\ turns' = turns /\ turns' \in Nat /\ Search!Narrows
BY DEF Search!Call, SearchInv, Search!Narrows

(* What a turn of a loop that halves the interval does to it. *)
LEMMA Halved ==
    ASSUME SearchInv, stage = "loop", left <= right, Search!Turn,
           \/ right' = Search!Middle - 1 /\ left' = left
           \/ left' = Search!Middle + 1 /\ right' = right
    PROVE  /\ Search!Middle \in Int /\ left <= Search!Middle /\ Search!Middle <= right
           /\ left \in Int /\ right \in Int /\ left' \in Int /\ right' \in Int
           /\ turns' \in Nat /\ stage' = stage /\ problem' = problem /\ found' = found
           /\ nums' = nums /\ target' = target /\ found' \in Int
           /\ nums' \in Seq(Values) /\ target' \in Nat
           /\ Search!Narrows
<1> DEFINE m == Search!Middle
<1>1. /\ left \in Int /\ right \in Int /\ turns \in Nat /\ found \in Int
      /\ nums \in Seq(Values) /\ target \in Nat
      /\ stage' = stage /\ problem' = problem /\ turns' = turns + 1
      /\ nums' = nums /\ target' = target /\ found' = found
  BY DEF SearchInv, Search!Turn
<1>2. m \in Int /\ left <= m /\ m <= right
  BY <1>1, MiddleIsWithin
<1> HIDE DEF m
<1>3. left' \in Int /\ right' \in Int /\ right' - left' < right - left
  BY <1>1, <1>2 DEF m
<1>4. Search!Narrows
  <2>1. stage' # "returned"
    BY <1>1
  <2>2. QED  BY <2>1, <1>3 DEF Search!Narrows
<1>5. QED  BY <1>1, <1>2, <1>3, <1>4 DEF m

LEMMA Returned ==
    ASSUME SearchInv, NEW STATE values, Search!Return(values), Search!Promised'
    PROVE  SearchInv' /\ Search!Narrows
BY DEF SearchInv, Search!Return, Search!Narrows

----------------------------------------------------------------------------
(* What each search promises, from Promised. *)
Promises ==
    /\ problem = "firstBadVersion" /\ answer = <<target>> => Search!Promised
    /\ problem = "findMin" /\ (\E m \in Values :
           /\ answer = <<m>> /\ Search!Count(nums, m) # {}
           /\ \A x \in DOMAIN nums : m <= nums[x]) => Search!Promised
    /\ problem = "mySqrt" /\ answer[1] * answer[1] <= target
         /\ target < (answer[1] + 1) * (answer[1] + 1) => Search!Promised
    /\ problem = "searchRange"
         /\ (IF Search!Count(nums, target) = {} THEN answer = <<-1, -1>>
             ELSE Search!Count(nums, target) = answer[1] + 1 .. answer[2] + 1)
         => Search!Promised
    /\ problem = "singleNonDuplicate"
         /\ (\E x \in DOMAIN nums :
               /\ Search!Count(nums, nums[x]) = {x}
               /\ \/ left = x - 1 /\ answer = <<nums[x]>>
                  \/ left = x + 1 /\ x = Len(nums))
         => Search!Promised
LEMMA PromisesAre == Promises
BY DEF Promises, Search!Promised
LEMMA PromisesNext == Promises'
BY PromisesAre, PTL

LEMMA StepOfFirstBad ==
    ASSUME SearchInv, Search!firstBadVersion
    PROVE  SearchInv' /\ Search!Narrows
<1>1. ASSUME stage = "idle", NEW n \in 1 .. MaxNumber, NEW bad \in 1 .. n + 1,
             Search!Call("firstBadVersion", <<>>, bad, 1, n)
      PROVE  SearchInv' /\ Search!Narrows
  <2>1. bad \in Nat /\ n \in Int /\ 1 \in Int /\ <<>> \in Seq(Values)
    BY InputAssumption
  <2>2. /\ stage' = "loop" /\ problem' = "firstBadVersion" /\ nums' = <<>> /\ target' = bad
        /\ left' = 1 /\ right' = n /\ found' = -1 /\ turns' \in Nat /\ Search!Narrows
    BY <1>1, <2>1, Called
  <2>3. FirstBadWithin'
    BY <2>1, <2>2 DEF FirstBadWithin
  <2>4. QED  BY <2>1, <2>2, <2>3 DEF SearchInv
<1>2. ASSUME Search!In("firstBadVersion"), Search!Halve(Search!Middle >= target)
      PROVE  SearchInv' /\ Search!Narrows
  <2> DEFINE m == Search!Middle
  <2>1. /\ stage = "loop" /\ problem = "firstBadVersion" /\ FirstBadWithin /\ target \in Nat
    BY <1>2 DEF SearchInv, Search!In
  <2>2. /\ left <= right /\ Search!Turn
        /\ IF m >= target THEN right' = m - 1 /\ left' = left
                          ELSE left' = m + 1 /\ right' = right
    BY <1>2 DEF Search!Halve
  <2>3. /\ m \in Int /\ left <= m /\ left \in Int /\ right \in Int /\ left' \in Int /\ right' \in Int
        /\ turns' \in Nat /\ stage' = stage /\ problem' = problem
        /\ nums' = nums /\ target' = target /\ found' = found /\ found' \in Int
        /\ nums' \in Seq(Values) /\ Search!Narrows
    BY <2>1, <2>2, Halved
  <2> HIDE DEF m
  <2>4. (m - 1) + 1 = m
    BY <2>3
  <2>5. FirstBadWithin'
    <3>1. /\ 1 <= left /\ left <= target /\ target <= right + 1
          /\ ~(m >= target) => m + 1 <= target
      BY <2>1, <2>3 DEF FirstBadWithin
    <3>2. CASE m >= target
      <4>1. right' + 1 = m /\ left' = left
        BY <3>2, <2>2, <2>4
      <4>2. QED  BY <3>1, <3>2, <4>1, <2>1, <2>3 DEF FirstBadWithin
    <3>3. CASE ~(m >= target)
      <4>1. left' = m + 1 /\ right' + 1 = right + 1
        BY <3>3, <2>2
      <4>2. 1 <= m + 1 /\ m + 1 <= target /\ target <= right + 1
        BY <3>1, <3>3, <2>1, <2>3
      <4>3. QED  BY <4>1, <4>2, <2>3 DEF FirstBadWithin
    <3>4. QED  BY <3>2, <3>3
  <2>6. QED  BY <2>1, <2>3, <2>5 DEF SearchInv
<1>3. ASSUME Search!In("firstBadVersion"), left > right, Search!Return(<<left>>)
      PROVE  SearchInv' /\ Search!Narrows
  <2>1. left = target
    BY <1>3 DEF SearchInv, Search!In, FirstBadWithin
  <2>2. problem' = "firstBadVersion" /\ answer' = <<target'>>
    BY <1>3, <2>1 DEF Search!Return, Search!In
  <2>3. Search!Promised'
    BY <2>2, PromisesNext DEF Promises
  <2>4. QED  BY <1>3, <2>3, Returned
<1>4. QED  BY <1>1, <1>2, <1>3 DEF Search!firstBadVersion, Search!Idle

LEMMA StepOfSqrt ==
    ASSUME SearchInv, Search!mySqrt
    PROVE  SearchInv' /\ Search!Narrows
<1>1. ASSUME stage = "idle", NEW x \in 0 .. MaxNumber,
             Search!Call("mySqrt", <<>>, x, 1, x)
      PROVE  SearchInv' /\ Search!Narrows
  <2>1. x \in Nat /\ x \in Int /\ 1 \in Int /\ <<>> \in Seq(Values)
    BY InputAssumption
  <2>2. /\ stage' = "loop" /\ problem' = "mySqrt" /\ nums' = <<>> /\ target' = x
        /\ left' = 1 /\ right' = x /\ found' = -1 /\ turns' \in Nat /\ Search!Narrows
    BY <1>1, <2>1, Called
  <2>3. RootWithin'
    <3>1. x < (x + 1) * (x + 1) /\ (1 - 1) * (1 - 1) <= x
      BY <2>1
    <3>2. QED  BY <2>1, <2>2, <3>1 DEF RootWithin
  <2>4. QED  BY <2>1, <2>2, <2>3 DEF SearchInv
<1>2. ASSUME Search!In("mySqrt"), Search!Halve(Search!Middle * Search!Middle > target)
      PROVE  SearchInv' /\ Search!Narrows
  <2> DEFINE m == Search!Middle
  <2>1. /\ stage = "loop" /\ problem = "mySqrt" /\ RootWithin /\ target \in Nat
    BY <1>2 DEF SearchInv, Search!In
  <2>2. /\ left <= right /\ Search!Turn
        /\ IF m * m > target THEN right' = m - 1 /\ left' = left
                             ELSE left' = m + 1 /\ right' = right
    BY <1>2 DEF Search!Halve
  <2>3. /\ m \in Int /\ left <= m /\ m <= right
        /\ left \in Int /\ right \in Int /\ left' \in Int /\ right' \in Int
        /\ turns' \in Nat /\ stage' = stage /\ problem' = problem
        /\ nums' = nums /\ target' = target /\ found' = found /\ found' \in Int
        /\ nums' \in Seq(Values) /\ Search!Narrows
    BY <2>1, <2>2, Halved
  <2> HIDE DEF m
  <2>4. (m - 1) + 1 = m /\ (m + 1) - 1 = m
    BY <2>3
  <2>5. RootWithin'
    <3>1. CASE m * m > target
      <4>1. right' = m - 1 /\ left' = left /\ right' + 1 = m
        BY <2>2, <2>4, <3>1
      <4>2. target < (right' + 1) * (right' + 1)
        BY <3>1, <4>1, <2>1, <2>3
      <4>3. QED  BY <4>1, <4>2, <2>1, <2>2, <2>3 DEF RootWithin
    <3>2. CASE ~(m * m > target)
      <4>1. left' = m + 1 /\ right' = right /\ left' - 1 = m
        BY <2>2, <2>4, <3>2
      <4>2. (left' - 1) * (left' - 1) <= target
        BY <3>2, <4>1, <2>1, <2>3
      <4>3. QED  BY <4>1, <4>2, <2>1, <2>2, <2>3 DEF RootWithin
    <3>3. QED  BY <3>1, <3>2
  <2>6. QED  BY <2>1, <2>3, <2>5 DEF SearchInv
<1>3. ASSUME Search!In("mySqrt"), left > right, Search!Return(<<right>>)
      PROVE  SearchInv' /\ Search!Narrows
  <2>1. /\ right \in Int /\ left = right + 1 /\ RootWithin
    BY <1>3 DEF SearchInv, Search!In, RootWithin
  <2>2. right * right <= target /\ target < (right + 1) * (right + 1)
    <3>1. left - 1 = right
      BY <2>1
    <3>2. QED  BY <2>1, <3>1 DEF RootWithin
  <2>3. problem' = "mySqrt" /\ answer'[1] = right /\ target' = target
    BY <1>3 DEF Search!Return, Search!In
  <2>4. Search!Promised'
    BY <2>2, <2>3, PromisesNext DEF Promises
  <2>5. QED  BY <1>3, <2>4, Returned
<1>4. QED  BY <1>1, <1>2, <1>3 DEF Search!mySqrt, Search!Idle

----------------------------------------------------------------------------
(* twoSum() and sumOfSquares(). *)
Approached(sum) ==
    IF left < right
    THEN \/ sum = target /\ Search!Return(<<left, right>>)
         \/ sum > target /\ right' = right - 1 /\ left' = left /\ Search!Turn
         \/ sum < target /\ left' = left + 1 /\ right' = right /\ Search!Turn
    ELSE Search!Return(<<>>)

LEMMA Moved ==
    ASSUME SearchInv, stage = "loop", Search!Turn,
           \/ right' = right - 1 /\ left' = left
           \/ left' = left + 1 /\ right' = right
    PROVE  /\ left' \in Int /\ right' \in Int /\ turns' \in Nat
           /\ stage' = stage /\ problem' = problem /\ found' \in Int
           /\ nums' = nums /\ target' = target /\ nums' \in Seq(Values) /\ target' \in Nat
           /\ Search!Narrows
<1>1. /\ left \in Int /\ right \in Int /\ turns \in Nat /\ found \in Int
      /\ nums \in Seq(Values) /\ target \in Nat
      /\ stage' = stage /\ problem' = problem /\ turns' = turns + 1
      /\ nums' = nums /\ target' = target /\ found' = found
  BY DEF SearchInv, Search!Turn
<1>2. left' \in Int /\ right' \in Int /\ right' - left' < right - left
  BY <1>1
<1>3. Search!Narrows
  <2>1. stage' # "returned"
    BY <1>1
  <2>2. QED  BY <2>1, <1>2 DEF Search!Narrows
<1>4. QED  BY <1>1, <1>2, <1>3

PairsPromised ==
    /\ problem = "twoSum"
         /\ \/ answer = <<>> /\ \A x, y \in 1 .. Len(nums) : x < y => nums[x] + nums[y] # target
            \/ /\ answer # <<>>
               /\ answer[1] + 1 \in 1 .. Len(nums) /\ answer[2] + 1 \in 1 .. Len(nums)
               /\ answer[1] + 1 < answer[2] + 1
               /\ nums[answer[1] + 1] + nums[answer[2] + 1] = target
         => Search!Promised
    /\ problem = "sumOfSquares"
         /\ \/ answer = <<>> /\ \A x, y \in 0 .. target : x < y => x * x + y * y # target
            \/ \E x, y \in 0 .. target :
                  answer = <<x, y>> /\ x < y /\ x * x + y * y = target
         => Search!Promised
LEMMA PairsPromisedIs == PairsPromised
<1>1. ASSUME problem = "twoSum", answer = <<>>,
             \A x, y \in 1 .. Len(nums) : x < y => nums[x] + nums[y] # target
      PROVE  Search!Promised
  BY <1>1 DEF Search!Promised
<1>2. ASSUME problem = "twoSum", answer # <<>>,
             answer[1] + 1 \in 1 .. Len(nums), answer[2] + 1 \in 1 .. Len(nums),
             answer[1] + 1 < answer[2] + 1,
             nums[answer[1] + 1] + nums[answer[2] + 1] = target
      PROVE  Search!Promised
  BY <1>2 DEF Search!Promised
<1>3. ASSUME problem = "sumOfSquares", answer = <<>>,
             \A x, y \in 0 .. target : x < y => x * x + y * y # target
      PROVE  Search!Promised
  BY <1>3 DEF Search!Promised
<1>4. ASSUME problem = "sumOfSquares", NEW x \in 0 .. target, NEW y \in 0 .. target,
             answer = <<x, y>>, x < y, x * x + y * y = target
      PROVE  Search!Promised
  BY <1>4 DEF Search!Promised
<1>5. QED  BY <1>1, <1>2, <1>3, <1>4 DEF PairsPromised
LEMMA PairsPromisedNext == PairsPromised'
BY PairsPromisedIs, PTL

LEMMA StepOfTwoSum ==
    ASSUME SearchInv, Search!twoSum
    PROVE  SearchInv' /\ Search!Narrows
<1>1. ASSUME stage = "idle", NEW f \in Search!SortedArrays, NEW v \in Values, NEW w \in Values,
             Search!Call("twoSum", f, v + w, 0, Len(f) - 1)
      PROVE  SearchInv' /\ Search!Narrows
  <2>1. /\ f \in Search!Arrays /\ f \in Seq(Values) /\ Len(f) \in Nat
        /\ DOMAIN f = 1 .. Len(f) /\ Search!Sorted(f)
    BY ArraysAre DEF Search!SortedArrays
  <2>2. v + w \in Nat /\ 0 \in Int /\ Len(f) - 1 \in Int
    BY <2>1, InputAssumption
  <2>3. /\ stage' = "loop" /\ problem' = "twoSum" /\ nums' = f /\ target' = v + w
        /\ left' = 0 /\ right' = Len(f) - 1 /\ found' = -1 /\ turns' \in Nat
        /\ Search!Narrows
    BY <1>1, <2>1, <2>2, Called
  <2>4. Ascending'
    BY <2>1, <2>3 DEF Ascending, Search!Sorted
  <2>5. SumWithin'
    <3>1. \A x \in 1 .. Len(f) : 0 + 1 <= x /\ x <= (Len(f) - 1) + 1
      BY <2>1
    <3>2. QED  BY <2>3, <2>4, <3>1 DEF SumWithin
  <2>6. QED  BY <2>1, <2>2, <2>3, <2>5 DEF SearchInv
<1>2. ASSUME Search!In("twoSum"), Approached(nums[left + 1] + nums[right + 1])
      PROVE  SearchInv' /\ Search!Narrows
  <2> DEFINE L == Len(nums)
  <2>1. /\ stage = "loop" /\ problem = "twoSum" /\ SumWithin /\ target \in Nat
        /\ left \in Int /\ right \in Int /\ nums \in Seq(Values)
    BY <1>2 DEF SearchInv, Search!In
  <2>2. L \in Nat /\ \A x \in 1 .. L : nums[x] \in Nat
    BY <2>1, Elements
  <2>3. /\ 0 <= left /\ right <= L - 1
        /\ \A x, y \in 1 .. L : x < y => nums[x] <= nums[y]
        /\ \A x, y \in 1 .. L : x < y /\ nums[x] + nums[y] = target =>
             left + 1 <= x /\ y <= right + 1
    BY <2>1 DEF SumWithin, Ascending
  <2> HIDE DEF L
  <2>4. ASSUME left < right
        PROVE  left + 1 \in 1 .. L /\ right + 1 \in 1 .. L /\ left + 1 < right + 1
    BY <2>4, <2>1, <2>2, <2>3
  <2>5. ASSUME left < right, nums[left + 1] + nums[right + 1] = target,
               Search!Return(<<left, right>>)
        PROVE  SearchInv' /\ Search!Narrows
    <3>1. /\ problem' = "twoSum" /\ answer' = <<left, right>> /\ nums' = nums /\ target' = target
      BY <2>1, <2>5 DEF Search!Return
    <3>2. answer' # <<>> /\ answer'[1] = left /\ answer'[2] = right
      BY <3>1
    <3>3. Search!Promised'
      BY <3>1, <3>2, <2>4, <2>5, PairsPromisedNext DEF PairsPromised, L
    <3>4. QED  BY <2>5, <3>3, Returned
  <2>6. ASSUME ~(left < right), Search!Return(<<>>)
        PROVE  SearchInv' /\ Search!Narrows
    <3>1. problem' = "twoSum" /\ answer' = <<>> /\ nums' = nums /\ target' = target
      BY <2>1, <2>6 DEF Search!Return
    <3>2. \A x, y \in 1 .. L : x < y => nums[x] + nums[y] # target
      BY <2>1, <2>2, <2>3, <2>6
    <3>3. Search!Promised'
      BY <3>1, <3>2, PairsPromisedNext DEF PairsPromised, L
    <3>4. QED  BY <2>6, <3>3, Returned
  <2>7. ASSUME left < right, nums[left + 1] + nums[right + 1] > target, Search!Turn,
               right' = right - 1, left' = left
        PROVE  SearchInv' /\ Search!Narrows
    <3>1. /\ left' \in Int /\ right' \in Int /\ turns' \in Nat
          /\ stage' = stage /\ problem' = problem /\ found' \in Int
          /\ nums' = nums /\ target' = target /\ nums' \in Seq(Values) /\ target' \in Nat
          /\ Search!Narrows
      BY <2>1, <2>7, Moved
    <3>2. ASSUME NEW x \in 1 .. L, NEW y \in 1 .. L, x < y, nums[x] + nums[y] = target
          PROVE  left + 1 <= x /\ y <= (right - 1) + 1
      <4>1. left + 1 <= x /\ y <= right + 1
        BY <3>2, <2>3
      <4>2. nums[left + 1] <= nums[x]
        BY <4>1, <2>1, <2>2, <2>3, <2>4, <2>7
      <4>3. y # right + 1
        BY <4>2, <3>2, <2>2, <2>4, <2>7
      <4>4. QED  BY <4>1, <4>3, <2>1
    <3>3. SumWithin'
      BY <3>1, <3>2, <2>1, <2>3, <2>7 DEF SumWithin, Ascending, L
    <3>4. QED  BY <2>1, <3>1, <3>3 DEF SearchInv
  <2>8. ASSUME left < right, nums[left + 1] + nums[right + 1] < target, Search!Turn,
               left' = left + 1, right' = right
        PROVE  SearchInv' /\ Search!Narrows
    <3>1. /\ left' \in Int /\ right' \in Int /\ turns' \in Nat
          /\ stage' = stage /\ problem' = problem /\ found' \in Int
          /\ nums' = nums /\ target' = target /\ nums' \in Seq(Values) /\ target' \in Nat
          /\ Search!Narrows
      BY <2>1, <2>8, Moved
    <3>2. ASSUME NEW x \in 1 .. L, NEW y \in 1 .. L, x < y, nums[x] + nums[y] = target
          PROVE  (left + 1) + 1 <= x /\ y <= right + 1
      <4>1. left + 1 <= x /\ y <= right + 1
        BY <3>2, <2>3
      <4>2. nums[y] <= nums[right + 1]
        BY <4>1, <2>1, <2>2, <2>3, <2>4, <2>8
      <4>3. x # left + 1
        BY <4>2, <3>2, <2>2, <2>4, <2>8
      <4>4. QED  BY <4>1, <4>3, <2>1
    <3>3. SumWithin'
      BY <3>1, <3>2, <2>1, <2>3, <2>8 DEF SumWithin, Ascending, L
    <3>4. QED  BY <2>1, <3>1, <3>3 DEF SearchInv
  <2>9. QED  BY <1>2, <2>5, <2>6, <2>7, <2>8 DEF Approached
<1>3. QED
  BY <1>1, <1>2 DEF Search!twoSum, Search!Idle, Search!Approach, Approached

(* A set of numbers has a least one. *)
LEMMA LeastOf ==
    ASSUME NEW T, T \subseteq Nat, T # {}
    PROVE  \E n \in T : \A m \in T : ~(m < n)
<1> DEFINE R == {ss \in Nat \X Nat : ss[1] < ss[2]}
<1>1. IsWellFoundedOn(R, Nat)
  BY NatLessThanWellFounded, Zenon DEF OpToRel
<1> HIDE DEF R
<1>2. \E n \in T : \A m \in T : ~(<<m, n>> \in R)
  BY <1>1, WFMin
<1>3. QED  BY <1>2 DEF R

LEMMA SquaresGrow ==
    ASSUME NEW x \in Nat, NEW y \in Nat
    PROVE  /\ x * x \in Nat
           /\ x <= y => x * x <= y * y
           /\ x < y => x * x < y * y
<1>1. ASSUME x <= y PROVE x * x <= x * y /\ x * y <= y * y
  BY <1>1
<1>2. ASSUME x < y PROVE x * y < y * y
  <2>1. x * y + y <= y * y
    <3>1. x * y + y = (x + 1) * y
      OBVIOUS
    <3>2. (x + 1) * y <= y * y
      BY <1>2
    <3>3. QED  BY <3>1, <3>2
  <2>2. QED  BY <2>1, <1>2
<1>3. x * x \in Nat /\ x * y \in Nat /\ y * y \in Nat
  OBVIOUS
<1>4. QED  BY <1>1, <1>2, <1>3

LEMMA RootFound ==
    ASSUME NEW t \in Nat
    PROVE  /\ Search!CeilingOfRoot(t) \in 0 .. t
           /\ t <= Search!CeilingOfRoot(t) * Search!CeilingOfRoot(t)
<1> DEFINE T == {r \in 0 .. t : r * r >= t}
<1>1. T \subseteq Nat /\ t * t >= t /\ t \in 0 .. t
  OBVIOUS
<1>2. PICK n \in T : \A m \in T : ~(m < n)
  BY <1>1, LeastOf
<1>3. \A s \in 0 .. t : s < n => s * s < t
  BY <1>2
<1>4. \E r \in 0 .. t : r * r >= t /\ \A s \in 0 .. t : s < r => s * s < t
  BY <1>2, <1>3
<1>5. LET r == Search!CeilingOfRoot(t)
      IN  r \in 0 .. t /\ r * r >= t
  BY <1>4 DEF Search!CeilingOfRoot
<1>6. QED  BY <1>5

LEMMA StepOfSquares ==
    ASSUME SearchInv, Search!sumOfSquares
    PROVE  SearchInv' /\ Search!Narrows
<1>1. ASSUME stage = "idle", NEW t \in 0 .. MaxNumber,
             Search!Call("sumOfSquares", <<>>, t, 0, Search!CeilingOfRoot(t))
      PROVE  SearchInv' /\ Search!Narrows
  <2> DEFINE r == Search!CeilingOfRoot(t)
  <2>1. t \in Nat /\ <<>> \in Seq(Values) /\ 0 \in Int
    BY InputAssumption
  <2>2. r \in 0 .. t /\ t <= r * r /\ r \in Nat /\ r \in Int
    BY <2>1, RootFound
  <2>3. Search!Call("sumOfSquares", <<>>, t, 0, r)
    BY <1>1
  <2> HIDE DEF r
  <2>4. /\ stage' = "loop" /\ problem' = "sumOfSquares" /\ nums' = <<>> /\ target' = t
        /\ left' = 0 /\ right' = r /\ found' = -1 /\ turns' \in Nat /\ Search!Narrows
    BY <1>1, <2>1, <2>2, <2>3, Called
  <2>5. ASSUME NEW x \in 0 .. t, NEW y \in 0 .. t, x * x + y * y = t
        PROVE  0 <= x /\ y <= r
    <3>1. x * x \in Nat /\ y * y \in Nat /\ r * r \in Nat
      BY <2>2, SquaresGrow
    <3>2. y * y <= r * r
      BY <3>1, <2>1, <2>2, <2>5
    <3>3. ~(r < y)
      BY <3>1, <3>2, <2>2, SquaresGrow
    <3>4. QED  BY <3>3, <2>2
  <2>6. SquaresWithin'
    BY <2>1, <2>2, <2>4, <2>5 DEF SquaresWithin
  <2>7. QED  BY <2>1, <2>2, <2>4, <2>6 DEF SearchInv
<1>2. ASSUME Search!In("sumOfSquares"), Approached(left * left + right * right)
      PROVE  SearchInv' /\ Search!Narrows
  <2>1. /\ stage = "loop" /\ problem = "sumOfSquares" /\ target \in Nat
        /\ left \in Int /\ right \in Int /\ 0 <= left /\ right <= target
        /\ \A x, y \in 0 .. target :
             x < y /\ x * x + y * y = target => left <= x /\ y <= right
    BY <1>2 DEF SearchInv, Search!In, SquaresWithin
  <2>2. ASSUME left < right
        PROVE  left \in 0 .. target /\ right \in 0 .. target
    BY <2>2, <2>1
  <2>3. ASSUME left < right, left * left + right * right = target,
               Search!Return(<<left, right>>)
        PROVE  SearchInv' /\ Search!Narrows
    <3>1. problem' = "sumOfSquares" /\ answer' = <<left, right>> /\ target' = target
      BY <2>1, <2>3 DEF Search!Return
    <3>2. \E x, y \in 0 .. target' :
            answer' = <<x, y>> /\ x < y /\ x * x + y * y = target'
      BY <3>1, <2>2, <2>3
    <3>3. Search!Promised'
      BY <3>1, <3>2, PairsPromisedNext DEF PairsPromised
    <3>4. QED  BY <2>3, <3>3, Returned
  <2>4. ASSUME ~(left < right), Search!Return(<<>>)
        PROVE  SearchInv' /\ Search!Narrows
    <3>1. problem' = "sumOfSquares" /\ answer' = <<>> /\ target' = target
      BY <2>1, <2>4 DEF Search!Return
    <3>2. \A x, y \in 0 .. target : x < y => x * x + y * y # target
      BY <2>1, <2>4
    <3>3. Search!Promised'
      BY <3>1, <3>2, PairsPromisedNext DEF PairsPromised
    <3>4. QED  BY <2>4, <3>3, Returned
  <2>5. ASSUME left < right, left * left + right * right > target, Search!Turn,
               right' = right - 1, left' = left
        PROVE  SearchInv' /\ Search!Narrows
    <3>1. /\ left' \in Int /\ right' \in Int /\ turns' \in Nat
          /\ stage' = stage /\ problem' = problem /\ found' \in Int
          /\ target' = target /\ nums' \in Seq(Values) /\ target' \in Nat
          /\ Search!Narrows
      BY <2>1, <2>5, Moved
    <3>2. ASSUME NEW x \in 0 .. target, NEW y \in 0 .. target, x < y, x * x + y * y = target
          PROVE  left <= x /\ y <= right - 1
      <4>1. left <= x /\ y <= right
        BY <3>2, <2>1
      <4>2. left * left <= x * x
        BY <4>1, <2>2, <2>5, SquaresGrow
      <4>3. /\ x * x \in Nat /\ y * y \in Nat /\ left * left \in Nat /\ right * right \in Nat
        BY <2>2, <2>5, SquaresGrow
      <4>4. y # right
        BY <4>2, <4>3, <3>2, <2>1, <2>5
      <4>5. QED  BY <4>1, <4>4, <2>1
    <3>3. right - 1 <= target
      BY <2>1
    <3>4. SquaresWithin'
      BY <3>1, <3>2, <3>3, <2>1, <2>5 DEF SquaresWithin
    <3>5. QED  BY <2>1, <3>1, <3>4 DEF SearchInv
  <2>6. ASSUME left < right, left * left + right * right < target, Search!Turn,
               left' = left + 1, right' = right
        PROVE  SearchInv' /\ Search!Narrows
    <3>1. /\ left' \in Int /\ right' \in Int /\ turns' \in Nat
          /\ stage' = stage /\ problem' = problem /\ found' \in Int
          /\ target' = target /\ nums' \in Seq(Values) /\ target' \in Nat
          /\ Search!Narrows
      BY <2>1, <2>6, Moved
    <3>2. ASSUME NEW x \in 0 .. target, NEW y \in 0 .. target, x < y, x * x + y * y = target
          PROVE  left + 1 <= x /\ y <= right
      <4>1. left <= x /\ y <= right
        BY <3>2, <2>1
      <4>2. y * y <= right * right
        BY <4>1, <2>2, <2>6, SquaresGrow
      <4>3. /\ x * x \in Nat /\ y * y \in Nat /\ left * left \in Nat /\ right * right \in Nat
        BY <2>2, <2>6, SquaresGrow
      <4>4. x # left
        BY <4>2, <4>3, <3>2, <2>1, <2>6
      <4>5. QED  BY <4>1, <4>4, <2>1
    <3>3. 0 <= left + 1
      BY <2>1
    <3>4. SquaresWithin'
      BY <3>1, <3>2, <3>3, <2>1, <2>6 DEF SquaresWithin
    <3>5. QED  BY <2>1, <3>1, <3>4 DEF SearchInv
  <2>7. QED  BY <1>2, <2>3, <2>4, <2>5, <2>6 DEF Approached
<1>3. QED
  BY <1>1, <1>2 DEF Search!sumOfSquares, Search!Idle, Search!Approach, Approached

----------------------------------------------------------------------------
(* findMin(): an array that was sorted and then rotated. *)
LEMMA Rotated ==
    ASSUME NEW f \in Search!RotatedArrays
    PROVE  /\ f \in Search!Arrays
           /\ \E p \in 0 .. Len(f) - 1 : RisesFrom(f, p)
<1> DEFINE L == Len(f)
<1>1. f \in Search!Arrays /\ L \in Nat /\ DOMAIN f = 1 .. L /\ \A x \in 1 .. L : f[x] \in Nat
  BY ArraysAre DEF Search!RotatedArrays
<1>2. PICK k \in 1 .. L : \A x, y \in 0 .. L - 1 :
        x < y => f[((x + k) % L) + 1] < f[((y + k) % L) + 1]
  BY <1>1 DEF Search!RotatedArrays
<1> HIDE DEF L
<1> DEFINE p == IF k = L THEN 0 ELSE k
           turn(x) == IF x > p THEN x - 1 - p ELSE x - 1 + L - p
<1>3. p \in 0 .. L - 1 /\ L \in Nat \ {0}
  BY <1>1, <1>2
<1>4. ASSUME NEW x \in 1 .. L
      PROVE  /\ turn(x) \in 0 .. L - 1
             /\ f[((turn(x) + k) % L) + 1] = f[x]
  <2>1. turn(x) \in 0 .. L - 1
    BY <1>1, <1>3
  <2>2. x - 1 \in 0 .. L - 1 /\ turn(x) + k \in Int
    BY <1>1, <1>2, <2>1
  <2>3. (turn(x) + k) % L = x - 1
    <3>1. turn(x) + k = x - 1 \/ turn(x) + k = L + (x - 1)
      BY <1>1, <1>2, <1>3
    <3>2. L * 0 + (x - 1) = x - 1 /\ L * 1 + (x - 1) = L + (x - 1)
      BY <1>3, <2>2
    <3> DEFINE n == turn(x) + k
               r == x - 1
    <3>3. n \in Int /\ r \in 0 .. L - 1 /\ (n = L * 0 + r \/ n = L * 1 + r)
      BY <3>1, <3>2, <2>2
    <3> HIDE DEF n, r
    <3>4. n % L = r
      BY <3>3, <1>3, Index!ModUnique, SerialAssumption
    <3>5. QED  BY <3>4 DEF n, r
  <2>4. QED  BY <2>1, <2>3, <2>2
<1>5. \A x, y \in 1 .. L : turn(x) < turn(y) => f[x] < f[y]
  <2> HIDE DEF turn
  <2>1. SUFFICES ASSUME NEW x \in 1 .. L, NEW y \in 1 .. L, turn(x) < turn(y)
                 PROVE  f[x] < f[y]
    OBVIOUS
  <2>2. f[((turn(x) + k) % L) + 1] < f[((turn(y) + k) % L) + 1]
    BY <2>1, <1>2, <1>4
  <2>3. QED  BY <2>2, <1>4
<1>6. /\ \A x \in 1 .. L : x # p + 1 => turn(p + 1) < turn(x)
      /\ \A x \in 1 .. L : x # L /\ p + 1 <= x => turn(x) < turn(L)
      /\ \A x \in 1 .. L : ~(p + 1 <= x) => turn(L) < turn(x)
      /\ p + 1 \in 1 .. L /\ L \in 1 .. L
  BY <1>1, <1>3
<1> HIDE DEF p, turn
<1>7. \A x \in 1 .. L : /\ f[p + 1] <= f[x]
                        /\ f[x] <= f[L] <=> p + 1 <= x
  <2>1. TAKE x \in 1 .. L
  <2>2. f[p + 1] \in Nat /\ f[x] \in Nat /\ f[L] \in Nat
    BY <1>1, <1>6
  <2>3. f[p + 1] <= f[x]
    BY <1>5, <1>6, <2>2
  <2>4. p + 1 <= x => f[x] <= f[L]
    BY <1>5, <1>6, <2>2
  <2>5. ~(p + 1 <= x) => ~(f[x] <= f[L])
    BY <1>5, <1>6, <2>2
  <2>6. QED  BY <2>3, <2>4, <2>5
<1>8. QED  BY <1>1, <1>3, <1>7 DEF RisesFrom, L

LEMMA StepOfMin ==
    ASSUME SearchInv, Search!findMin
    PROVE  SearchInv' /\ Search!Narrows
<1>1. ASSUME stage = "idle", NEW f \in Search!RotatedArrays,
             Search!Call("findMin", f, 0, 0, Len(f) - 1)
      PROVE  SearchInv' /\ Search!Narrows
  <2>1. PICK p \in 0 .. Len(f) - 1 : RisesFrom(f, p)
    BY Rotated
  <2>2. f \in Seq(Values) /\ Len(f) \in Nat
    BY Rotated, ArraysAre
  <2>3. 0 \in Nat /\ 0 \in Int /\ Len(f) - 1 \in Int /\ 0 <= p /\ p <= (Len(f) - 1) + 1
    BY <2>2
  <2>4. /\ stage' = "loop" /\ problem' = "findMin" /\ nums' = f /\ target' = 0
        /\ left' = 0 /\ right' = Len(f) - 1 /\ found' = -1 /\ turns' \in Nat
        /\ Search!Narrows
    BY <1>1, <2>2, <2>3, Called
  <2>5. MinWithin'
    <3>1. \E q \in 0 .. Len(nums') - 1 : RisesFrom(nums', q) /\ left' <= q /\ q <= right' + 1
      BY <2>1, <2>3, <2>4
    <3>2. 0 <= left' /\ right' <= Len(nums') - 1
      BY <2>3, <2>4
    <3>3. QED  BY <3>1, <3>2 DEF MinWithin
  <2>6. QED  BY <2>2, <2>3, <2>4, <2>5 DEF SearchInv
<1>2. ASSUME Search!In("findMin"), Search!Halve(nums[Search!Middle + 1] <= nums[Len(nums)])
      PROVE  SearchInv' /\ Search!Narrows
  <2> DEFINE m == Search!Middle
  <2>1. /\ stage = "loop" /\ problem = "findMin" /\ MinWithin /\ nums \in Seq(Values)
    BY <1>2 DEF SearchInv, Search!In
  <2>2. /\ left <= right /\ Search!Turn
        /\ IF nums[m + 1] <= nums[Len(nums)] THEN right' = m - 1 /\ left' = left
                                             ELSE left' = m + 1 /\ right' = right
    BY <1>2 DEF Search!Halve
  <2>3. /\ m \in Int /\ left <= m /\ m <= right
        /\ left \in Int /\ right \in Int /\ left' \in Int /\ right' \in Int
        /\ turns' \in Nat /\ stage' = stage /\ problem' = problem
        /\ nums' = nums /\ target' \in Nat /\ found' = found /\ found' \in Int
        /\ Search!Narrows
    BY <2>1, <2>2, Halved
  <2> HIDE DEF m
  <2>4. PICK p \in 0 .. Len(nums) - 1 : RisesFrom(nums, p) /\ left <= p /\ p <= right + 1
    BY <2>1 DEF MinWithin
  <2>5. Len(nums) \in Nat /\ 0 <= left /\ right <= Len(nums) - 1
    BY <2>1, Elements DEF MinWithin
  <2>6. nums[m + 1] <= nums[Len(nums)] <=> p <= m
    <3>1. m + 1 \in 1 .. Len(nums)
      BY <2>3, <2>5
    <3>2. nums[m + 1] <= nums[Len(nums)] <=> p + 1 <= m + 1
      BY <3>1, <2>4 DEF RisesFrom
    <3>3. QED  BY <3>2, <2>3
  <2>7. CASE p <= m
    <3>1. right' = m - 1 /\ left' = left /\ (m - 1) + 1 = m /\ m - 1 <= Len(nums) - 1
      BY <2>2, <2>3, <2>5, <2>6, <2>7
    <3>2. left' <= p /\ p <= right' + 1 /\ 0 <= left' /\ right' <= Len(nums) - 1
      BY <3>1, <2>4, <2>5, <2>7
    <3>3. MinWithin'
      BY <3>2, <2>3, <2>4 DEF MinWithin
    <3>4. QED  BY <3>3, <2>1, <2>3 DEF SearchInv
  <2>8. CASE ~(p <= m)
    <3>1. /\ left' = m + 1 /\ right' = right
          /\ m + 1 <= p /\ 0 <= m + 1
      BY <2>2, <2>3, <2>5, <2>6, <2>8
    <3>2. left' <= p /\ p <= right' + 1 /\ 0 <= left' /\ right' <= Len(nums) - 1
      BY <3>1, <2>4, <2>5
    <3>3. MinWithin'
      BY <3>2, <2>3, <2>4 DEF MinWithin
    <3>4. QED  BY <3>3, <2>1, <2>3 DEF SearchInv
  <2>9. QED  BY <2>7, <2>8
<1>3. ASSUME Search!In("findMin"), left > right \/ Len(nums) = 1,
             Search!Return(<<nums[left + 1]>>)
      PROVE  SearchInv' /\ Search!Narrows
  <2>1. /\ problem = "findMin" /\ MinWithin /\ nums \in Seq(Values)
        /\ left \in Int /\ right \in Int
    BY <1>3 DEF SearchInv, Search!In
  <2>2. /\ Len(nums) \in Nat /\ DOMAIN nums = 1 .. Len(nums)
        /\ \A x \in 1 .. Len(nums) : nums[x] \in Values
    BY <2>1, Elements
  <2>3. PICK p \in 0 .. Len(nums) - 1 : RisesFrom(nums, p) /\ left <= p /\ p <= right + 1
    BY <2>1 DEF MinWithin
  <2>4. left = p /\ left + 1 \in DOMAIN nums
    BY <1>3, <2>1, <2>2, <2>3 DEF MinWithin
  <2> DEFINE v == nums[left + 1]
  <2>5. v \in Values /\ \A x \in DOMAIN nums : v <= nums[x]
    BY <2>2, <2>3, <2>4 DEF RisesFrom
  <2>6. Search!Count(nums, v) # {}
    BY <2>4 DEF Search!Count
  <2>7. problem' = "findMin" /\ answer' = <<v>> /\ nums' = nums
    BY <1>3, <2>1 DEF Search!Return
  <2> HIDE DEF v
  <2>8. Search!Promised'
    <3>1. \E w \in Values : /\ answer' = <<w>> /\ Search!Count(nums', w) # {}
                            /\ \A x \in DOMAIN nums' : w <= nums'[x]
      BY <2>5, <2>6, <2>7
    <3>2. QED  BY <3>1, <2>7, PromisesNext DEF Promises, Search!Count
  <2>9. QED  BY <1>3, <2>8, Returned
<1>4. QED  BY <1>1, <1>2, <1>3 DEF Search!findMin, Search!Idle

----------------------------------------------------------------------------
(* searchRange(): the first pass finds where the elements below the target  *)
(* end, the second where those above it begin.                              *)
LEMMA StepOfRange ==
    ASSUME SearchInv, Search!searchRange
    PROVE  SearchInv' /\ Search!Narrows
<1> DEFINE L == Len(nums)
<1>1. ASSUME stage = "idle", NEW f \in Search!SortedArrays, NEW t \in Values,
             Search!Call("searchRange", f, t, 0, Len(f) - 1)
      PROVE  SearchInv' /\ Search!Narrows
  <2>1. /\ f \in Search!Arrays /\ f \in Seq(Values) /\ Len(f) \in Nat
        /\ DOMAIN f = 1 .. Len(f) /\ Search!Sorted(f)
    BY ArraysAre DEF Search!SortedArrays
  <2>2. t \in Nat /\ 0 \in Int /\ Len(f) - 1 \in Int
    BY <2>1, InputAssumption
  <2>3. /\ stage' = "loop" /\ problem' = "searchRange" /\ nums' = f /\ target' = t
        /\ left' = 0 /\ right' = Len(f) - 1 /\ found' = -1 /\ turns' \in Nat
        /\ Search!Narrows
    BY <1>1, <2>1, <2>2, Called
  <2>4. Ascending'
    BY <2>1, <2>3 DEF Ascending, Search!Sorted
  <2>5. RangeWithin'
    <3>1. /\ \A x \in 1 .. Len(f) : ~(x <= 0) /\ ~((Len(f) - 1) + 1 < x)
          /\ 0 <= (Len(f) - 1) + 1 /\ Len(f) - 1 <= Len(f) - 1
      BY <2>1
    <3>2. QED  BY <2>3, <2>4, <3>1 DEF RangeWithin
  <2>6. QED  BY <2>1, <2>2, <2>3, <2>5 DEF SearchInv
<1>2. ASSUME stage = "loop", problem = "searchRange"
      PROVE  /\ nums \in Seq(Values) /\ target \in Nat /\ RangeWithin
             /\ left \in Int /\ right \in Int /\ found \in Int
             /\ L \in Nat /\ DOMAIN nums = 1 .. L
             /\ \A x \in 1 .. L : nums[x] \in Nat
             /\ 0 <= left /\ left <= right + 1 /\ right <= L - 1
  BY <1>2, Elements DEF SearchInv, RangeWithin
<1>3. ASSUME Search!In("searchRange"),
             Search!Halve(LET num == nums[Search!Middle + 1] IN
                            num > target \/ (num = target /\ found = -1))
      PROVE  SearchInv' /\ Search!Narrows
  <2> DEFINE m == Search!Middle
  <2>1. stage = "loop" /\ problem = "searchRange"
    BY <1>3 DEF Search!In
  <2>2. /\ left <= right /\ Search!Turn
        /\ IF nums[m + 1] > target \/ (nums[m + 1] = target /\ found = -1)
           THEN right' = m - 1 /\ left' = left ELSE left' = m + 1 /\ right' = right
    BY <1>3 DEF Search!Halve
  <2>3. /\ m \in Int /\ left <= m /\ m <= right
        /\ left' \in Int /\ right' \in Int
        /\ turns' \in Nat /\ stage' = stage /\ problem' = problem
        /\ nums' = nums /\ target' = target /\ found' = found /\ Search!Narrows
    BY <2>1, <2>2, Halved
  <2> HIDE DEF m
  <2>4. /\ nums \in Seq(Values) /\ target \in Nat /\ found \in Int
        /\ left \in Int /\ right \in Int /\ L \in Nat
        /\ \A x \in 1 .. L : nums[x] \in Nat
        /\ 0 <= left /\ right <= L - 1
        /\ m + 1 \in 1 .. L
    BY <1>2, <2>1, <2>3
  <2>5. \A x, y \in 1 .. L : x < y => nums[x] <= nums[y]
    BY <1>2, <2>1 DEF RangeWithin, Ascending
  <2>6. CASE nums[m + 1] > target \/ (nums[m + 1] = target /\ found = -1)
    <3>1. right' = m - 1 /\ left' = left /\ (m - 1) + 1 = m
      BY <2>2, <2>3, <2>6
    <3>2. \A x \in 1 .. L : m < x => nums[m + 1] <= nums[x]
      BY <2>3, <2>4, <2>5
    <3>3. /\ found = -1 => \A x \in 1 .. L : m < x => nums[x] >= target
          /\ found # -1 => \A x \in 1 .. L : m < x => nums[x] > target
      BY <2>4, <2>6, <3>2
    <3>4. left <= m /\ m - 1 <= L - 1
      BY <2>3, <2>4
    <3>5. right' + 1 = m /\ RangeWithin
      BY <3>1, <1>2, <2>1
    <3>6. RangeWithin'
      BY <3>1, <3>3, <3>4, <3>5, <2>3 DEF RangeWithin, Ascending
    <3>7. QED  BY <3>6, <2>1, <2>3, <2>4 DEF SearchInv
  <2>7. CASE ~(nums[m + 1] > target \/ (nums[m + 1] = target /\ found = -1))
    <3>1. left' = m + 1 /\ right' = right
      BY <2>2, <2>7
    <3>2. \A x \in 1 .. L : x <= m + 1 => nums[x] <= nums[m + 1]
      BY <2>3, <2>4, <2>5
    <3>3. /\ found = -1 => \A x \in 1 .. L : x <= m + 1 => nums[x] < target
          /\ found # -1 => \A x \in 1 .. L : x <= m + 1 => nums[x] <= target
      BY <2>4, <2>7, <3>2
    <3>4. 0 <= m + 1 /\ m + 1 <= right + 1 /\ RangeWithin
      BY <1>2, <2>1, <2>3, <2>4
    <3>5. RangeWithin'
      BY <3>1, <3>3, <3>4, <2>3 DEF RangeWithin, Ascending
    <3>6. QED  BY <3>5, <2>1, <2>3, <2>4 DEF SearchInv
  <2>8. QED  BY <2>6, <2>7
<1>4. ASSUME Search!In("searchRange"), left > right, found = -1, found' = left,
             left' = 0, right' = L - 1,
             UNCHANGED <<stage, problem, nums, target, answer, turns>>
      PROVE  SearchInv' /\ Search!Narrows
  <2>1. stage = "loop" /\ problem = "searchRange" /\ turns \in Nat
    BY <1>4 DEF Search!In, SearchInv
  <2>2. left = right + 1 /\ left \in 0 .. L /\ left # -1 /\ L - 1 \in Int /\ L \in Nat
    BY <1>2, <1>4, <2>1
  <2>3. /\ Ascending
        /\ \A x \in 1 .. L : /\ x <= left => nums[x] < target
                             /\ left < x => nums[x] >= target
    BY <1>2, <1>4, <2>1, <2>2 DEF RangeWithin
  <2>4. \A x \in 1 .. L : ~(x <= 0) /\ ~((L - 1) + 1 < x)
    BY <2>2
  <2>5. 0 <= (L - 1) + 1 /\ L - 1 <= L - 1
    BY <2>2
  <2>6. RangeWithin'
    BY <1>4, <2>2, <2>3, <2>4, <2>5 DEF RangeWithin, Ascending
  <2>7. Search!Narrows
    BY <1>4, <2>1 DEF Search!Narrows
  <2>8. QED  BY <1>2, <1>4, <2>1, <2>2, <2>6, <2>7 DEF SearchInv
<1>5. ASSUME Search!In("searchRange"), left > right, found # -1,
             IF /\ found <= right /\ right < L
                /\ nums[found + 1] = nums[right + 1]
             THEN Search!Return(<<found, right>>) ELSE Search!Return(<<-1, -1>>)
      PROVE  SearchInv' /\ Search!Narrows
  <2> DEFINE C == Search!Count(nums, target)
  <2>1. stage = "loop" /\ problem = "searchRange"
    BY <1>5 DEF Search!In
  <2>2. /\ found \in 0 .. L /\ right \in Int /\ right <= L - 1 /\ target \in Nat
        /\ L \in Nat /\ DOMAIN nums = 1 .. L /\ \A x \in 1 .. L : nums[x] \in Nat
        /\ \A x \in 1 .. L : /\ x <= found => nums[x] < target
                             /\ found < x => nums[x] >= target
                             /\ x <= right + 1 => nums[x] <= target
                             /\ right + 1 < x => nums[x] > target
    BY <1>2, <1>5, <2>1 DEF RangeWithin
  <2>3. \A x \in 1 .. L : nums[x] = target <=> found + 1 <= x /\ x <= right + 1
    BY <2>2
  <2>4. C = {x \in 1 .. L : found + 1 <= x /\ x <= right + 1}
    BY <2>2, <2>3 DEF Search!Count
  <2> HIDE DEF C
  <2>5. CASE found <= right
    <3>1. found + 1 \in 1 .. L /\ right + 1 \in 1 .. L
      BY <2>2, <2>5
    <3>2. nums[found + 1] = nums[right + 1] /\ right < L
      BY <2>2, <2>3, <2>5, <3>1
    <3>3. Search!Return(<<found, right>>)
      BY <1>5, <2>5, <3>2
    <3>4. C = found + 1 .. right + 1 /\ C # {}
      BY <2>2, <2>4, <2>5
    <3>5. /\ problem' = "searchRange" /\ nums' = nums /\ target' = target
          /\ answer'[1] = found /\ answer'[2] = right
      BY <3>3, <2>1 DEF Search!Return
    <3>6. Search!Promised'
      BY <3>4, <3>5, PromisesNext DEF Promises, C, Search!Count
    <3>7. QED  BY <3>3, <3>6, Returned
  <2>6. CASE ~(found <= right)
    <3>1. Search!Return(<<-1, -1>>)
      BY <1>5, <2>6
    <3>2. C = {}
      BY <2>2, <2>4, <2>6
    <3>3. problem' = "searchRange" /\ nums' = nums /\ target' = target /\ answer' = <<-1, -1>>
      BY <3>1, <2>1 DEF Search!Return
    <3>4. Search!Promised'
      BY <3>2, <3>3, PromisesNext DEF Promises, C, Search!Count
    <3>5. QED  BY <3>1, <3>4, Returned
  <2>7. QED  BY <2>5, <2>6
<1>6. QED
  BY <1>1, <1>3, <1>4, <1>5 DEF Search!searchRange, Search!Idle

----------------------------------------------------------------------------
(* singleNonDuplicate(): in a sorted array of pairs and one element alone,  *)
(* an element is the first of a pair, the second of one, or alone.          *)
LEMMA Halves ==
    /\ \A n \in Int : n % 2 \in {0, 1}
    /\ \A n \in Int : (n + 1) % 2 = 0 <=> n % 2 = 1
    /\ \A n \in Int : (n + 2) % 2 = n % 2
    /\ \A n, m \in Int : n % 2 = 0 /\ m % 2 = 0 /\ n < m => n + 2 <= m
    /\ \A n \in Int : (n - (n % 2)) % 2 = 0
<1>1. /\ \A n \in Int : n % 2 \in {0, 1}
      /\ \A n \in Int : (n + 1) % 2 = 0 <=> n % 2 = 1
      /\ \A n \in Int : (n + 2) % 2 = n % 2
  OBVIOUS
<1>2. \A n, m \in Int : n % 2 = 0 /\ m % 2 = 0 /\ n < m => n + 2 <= m
  OBVIOUS
<1>3. \A n \in Int : (n - (n % 2)) % 2 = 0
  OBVIOUS
<1>4. QED  BY <1>1, <1>2, <1>3

LEMMA Paired ==
    ASSUME NEW f \in Search!PairedArrays
    PROVE  /\ f \in Search!Arrays
           /\ \E s \in 0 .. Len(f) - 1 : StandsAlone(f, s)
<1> DEFINE L == Len(f)
           first(x)  == x + 1 \in 1 .. L /\ f[x + 1] = f[x]
           second(x) == x - 1 \in 1 .. L /\ f[x - 1] = f[x]
<1>1. f \in Search!Arrays /\ L \in Nat /\ DOMAIN f = 1 .. L /\ \A x \in 1 .. L : f[x] \in Values
  BY ArraysAre DEF Search!PairedArrays, Search!SortedArrays
<1>2. PICK v \in Values :
        /\ \E k \in 1 .. L : Search!Count(f, v) = {k}
        /\ \A w \in Values \ {v} : Search!Count(f, w) = {} \/ \E k \in 1 .. L :
              k + 1 \in 1 .. L /\ Search!Count(f, w) = {k, k + 1}
  BY <1>1 DEF Search!PairedArrays
<1>3. PICK k \in 1 .. L : Search!Count(f, v) = {k}
  BY <1>2
<1> HIDE DEF L
<1>4. \A x, w : x \in Search!Count(f, w) <=> x \in 1 .. L /\ f[x] = w
  BY <1>1 DEF Search!Count
<1>5. f[k] = v /\ \A x \in 1 .. L : x # k => f[x] # v
  BY <1>3, <1>4
<1>6. ASSUME NEW x \in 1 .. L, x # k
      PROVE  first(x) <=> ~second(x)
  <2>1. f[x] \in Values \ {v}
    BY <1>1, <1>5, <1>6
  <2>2. PICK y \in 1 .. L : y + 1 \in 1 .. L /\ Search!Count(f, f[x]) = {y, y + 1}
    BY <1>2, <1>4, <2>1
  <2>3. \A z \in 1 .. L : f[z] = f[x] <=> z = y \/ z = y + 1
    BY <1>4, <2>2
  <2>4. x = y \/ x = y + 1
    BY <2>3
  <2>5. QED  BY <1>1, <2>2, <2>3, <2>4
<1>7. ~first(k) /\ ~second(k)
  BY <1>1, <1>5
<1>8. \A x \in 1 .. L : x + 1 \in 1 .. L => (first(x) <=> second(x + 1))
  BY <1>1
<1>9. ~second(1) /\ ~first(L)
  BY <1>1
<1> HIDE DEF first, second
<1>10. \A x \in 1 .. k - 1 : first(x) <=> x % 2 = 1
  <2> DEFINE T == {x \in 1 .. k - 1 : ~(first(x) <=> x % 2 = 1)}
  <2>1. SUFFICES ASSUME T # {} PROVE FALSE
    OBVIOUS
  <2>2. T \subseteq Nat
    BY <1>1
  <2>3. PICK n \in T : \A m \in T : ~(m < n)
    BY <2>1, <2>2, LeastOf
  <2>4. n \in 1 .. k - 1 /\ n \in 1 .. L /\ n # k /\ ~(first(n) <=> n % 2 = 1)
    BY <1>1
  <2>5. CASE n = 1
    BY <2>4, <2>5, <1>6, <1>9
  <2>6. CASE n # 1
    <3> DEFINE m == n - 1
    <3>1. m \in 1 .. k - 1 /\ m \in 1 .. L /\ m + 1 = n /\ m < n
      BY <1>1, <2>4, <2>6
    <3> HIDE DEF m
    <3>2. first(m) <=> m % 2 = 1
      BY <3>1, <2>3
    <3>3. first(m) <=> ~first(n)
      BY <3>1, <2>4, <1>6, <1>8
    <3>4. (n % 2 = 0 <=> m % 2 = 1) /\ n % 2 \in {0, 1}
      BY <3>1, <2>4, Halves
    <3>5. QED  BY <3>2, <3>3, <3>4, <2>4
  <2>7. QED  BY <2>5, <2>6
<1>11. k % 2 = 1
  <2>1. CASE k = 1
    BY <2>1
  <2>2. CASE k # 1
    <3> DEFINE m == k - 1
    <3>1. m \in 1 .. k - 1 /\ m \in 1 .. L /\ m + 1 = k /\ m \in Int /\ k \in Int
      BY <1>1, <2>2
    <3> HIDE DEF m
    <3>2. ~first(m)
      BY <3>1, <1>7, <1>8
    <3>3. m % 2 # 1
      BY <3>1, <3>2, <1>10
    <3>4. QED  BY <3>1, <3>3, Halves
  <2>3. QED  BY <2>1, <2>2
<1>12. \A x \in k + 1 .. L : first(x) <=> x % 2 = 0
  <2> DEFINE T == {x \in k + 1 .. L : ~(first(x) <=> x % 2 = 0)}
  <2>1. SUFFICES ASSUME T # {} PROVE FALSE
    OBVIOUS
  <2>2. T \subseteq Nat
    BY <1>1
  <2>3. PICK n \in T : \A m \in T : ~(m < n)
    BY <2>1, <2>2, LeastOf
  <2>4. n \in k + 1 .. L /\ n \in 1 .. L /\ n # k /\ ~(first(n) <=> n % 2 = 0)
    BY <1>1
  <2> DEFINE m == n - 1
  <2>5. m \in k .. L /\ m \in 1 .. L /\ m + 1 = n /\ m < n /\ m \in Int /\ n \in Int
    BY <1>1, <2>4
  <2> HIDE DEF m
  <2>6. (n % 2 = 0 <=> m % 2 = 1) /\ n % 2 \in {0, 1} /\ m % 2 \in {0, 1}
    BY <2>5, Halves
  <2>7. first(m) <=> ~first(n)
    BY <2>4, <2>5, <1>6, <1>8
  <2>8. first(m) <=> m % 2 = 0
    <3>1. CASE m = k
      BY <3>1, <1>7, <1>11
    <3>2. CASE m # k
      BY <3>2, <2>3, <2>5
    <3>3. QED  BY <3>1, <3>2
  <2>9. QED  BY <2>4, <2>6, <2>7, <2>8
<1>13. L % 2 = 1
  <2>1. CASE k = L
    BY <2>1, <1>11
  <2>2. CASE k # L
    <3>1. L \in k + 1 .. L
      BY <1>1, <2>2
    <3>2. L % 2 # 0
      BY <3>1, <1>9, <1>12
    <3>3. QED  BY <3>2, <1>1, Halves
  <2>3. QED  BY <2>1, <2>2
<1> DEFINE s == k - 1
<1>14. s \in 0 .. L - 1 /\ s + 1 = k /\ s \in Int
  BY <1>1
<1>15. s % 2 = 0
  <2>1. s % 2 # 1
    BY <1>14, <1>11, Halves
  <2>2. QED  BY <2>1, <1>14, Halves
<1> HIDE DEF s
<1>16. ASSUME NEW x \in 0 .. L - 2, x % 2 = 0
       PROVE  f[x + 1] = f[x + 2] <=> x < s
  <2> DEFINE y == x + 1
  <2>1. y \in 1 .. L /\ y + 1 \in 1 .. L /\ y + 1 = x + 2 /\ y = x + 1
    BY <1>1
  <2>2. y % 2 = 1
    <3>1. y % 2 # 0 /\ y \in Int
      BY <1>16, Halves
    <3>2. QED  BY <3>1, Halves
  <2> HIDE DEF y
  <2>3. first(y) <=> f[x + 1] = f[x + 2]
    BY <2>1 DEF first
  <2>4. first(y) <=> x < s
    <3>1. CASE x < s
      <4>1. y \in 1 .. k - 1
        BY <3>1, <2>1, <1>1, <1>14
      <4>2. QED  BY <4>1, <3>1, <1>10, <2>2
    <3>2. CASE x = s
      BY <3>2, <1>7, <1>14, <2>1
    <3>3. CASE x > s
      <4>1. y \in k + 1 .. L
        BY <3>3, <2>1, <1>1, <1>14
      <4>2. QED  BY <4>1, <3>3, <1>12, <2>2, <1>14
    <3>4. QED  BY <3>1, <3>2, <3>3, <1>14
  <2>5. QED  BY <2>3, <2>4
<1>17. Search!Count(f, f[s + 1]) = {s + 1}
  BY <1>3, <1>5, <1>14
<1>18. StandsAlone(f, s)
  BY <1>13, <1>15, <1>16, <1>17 DEF StandsAlone, L
<1>19. QED  BY <1>1, <1>14, <1>18 DEF L

LEMMA StepOfSingle ==
    ASSUME SearchInv, Search!singleNonDuplicate
    PROVE  SearchInv' /\ Search!Narrows
<1> DEFINE L == Len(nums)
<1>1. ASSUME stage = "idle", NEW f \in Search!PairedArrays,
             Search!Call("singleNonDuplicate", f, 0, 0, Len(f) - 1)
      PROVE  SearchInv' /\ Search!Narrows
  <2>1. PICK s \in 0 .. Len(f) - 1 : StandsAlone(f, s)
    BY Paired
  <2>2. f \in Seq(Values) /\ Len(f) \in Nat
    BY Paired, ArraysAre
  <2>3. 0 \in Nat /\ 0 \in Int /\ Len(f) - 1 \in Int /\ 0 <= s /\ s <= (Len(f) - 1) + 1
    BY <2>2
  <2>4. /\ stage' = "loop" /\ problem' = "singleNonDuplicate" /\ nums' = f /\ target' = 0
        /\ left' = 0 /\ right' = Len(f) - 1 /\ found' = -1 /\ turns' \in Nat
        /\ Search!Narrows
    BY <1>1, <2>2, <2>3, Called
  <2>5. SingleWithin'
    <3>1. \E q \in 0 .. Len(nums') - 1 :
            /\ StandsAlone(nums', q)
            /\ \/ left' <= q /\ q <= right' + 1
               \/ q = Len(nums') - 1 /\ left' = q + 2 /\ right' = q
      BY <2>1, <2>3, <2>4
    <3>2. 0 <= left' /\ right' <= Len(nums') - 1 /\ left' % 2 = 0
      BY <2>3, <2>4
    <3>3. QED  BY <3>1, <3>2 DEF SingleWithin, StandsAlone
  <2>6. QED  BY <2>2, <2>3, <2>4, <2>5 DEF SearchInv
<1>2. ASSUME stage = "loop", problem = "singleNonDuplicate"
      PROVE  /\ nums \in Seq(Values) /\ target \in Nat /\ SingleWithin
             /\ left \in Int /\ right \in Int /\ found \in Int /\ turns \in Nat
             /\ L \in Nat /\ DOMAIN nums = 1 .. L
             /\ 0 <= left /\ left % 2 = 0 /\ right <= L - 1
  BY <1>2, Elements, Zenon DEF SearchInv, SingleWithin
<1>3. ASSUME Search!In("singleNonDuplicate"), left <= right,
             LET mid == Search!Middle - (Search!Middle % 2)
             IN  \E num \in Search!Read(mid + 1) :
                   IF nums[mid + 1] = num THEN left' = mid + 2 /\ right' = right
                                          ELSE right' = mid - 1 /\ left' = left,
             Search!Turn
      PROVE  SearchInv' /\ Search!Narrows
  <2> DEFINE M == Search!Middle
             mid == M - (M % 2)
  <2>1. stage = "loop" /\ problem = "singleNonDuplicate"
    BY <1>3 DEF Search!In
  <2>2. /\ M \in Int /\ left <= M /\ M <= right /\ (M = right => left = right)
    <3>1. right - left \in Nat
      BY <1>2, <1>3, <2>1
    <3>2. \A d \in Nat : d \div 2 = d => d = 0
      OBVIOUS
    <3>3. M = right => left = right
      <4> DEFINE d == right - left
                 h == d \div 2
      <4>1. M = left + h
        BY DEF Search!Middle
      <4>2. d \in Nat /\ h \in Int /\ right = left + d /\ left \in Int /\ (h = d => d = 0)
        <5>1. d \in Nat
          BY <3>1
        <5>2. left \in Int /\ right \in Int /\ right = left + (right - left)
          BY <1>2, <2>1
        <5> HIDE DEF d
        <5>3. h \in Int /\ (h = d => d = 0)
          BY <5>1, <3>2
        <5>4. QED  BY <5>1, <5>2, <5>3 DEF d
      <4> HIDE DEF h, d, M
      <4>3. QED  BY <4>1, <4>2
    <3>4. QED  BY <3>3, <1>2, <1>3, <2>1, MiddleIsWithin
  <2> HIDE DEF M
  <2>3. /\ mid \in Int /\ left <= mid /\ mid <= M /\ M <= mid + 1 /\ mid % 2 = 0
    <3>1. M % 2 \in {0, 1} /\ mid % 2 = 0
      BY <2>2, Halves
    <3>2. mid \in Int /\ mid <= M /\ M <= mid + 1
      BY <2>2, <3>1
    <3>3. left <= mid
      BY <3>1, <2>2, <1>2, <2>1
    <3>4. QED  BY <3>1, <3>2, <3>3
  <2>4. PICK num \in Search!Read(mid + 1) :
          IF nums[mid + 1] = num THEN left' = mid + 2 /\ right' = right
                                 ELSE right' = mid - 1 /\ left' = left
    BY <1>3 DEF M
  <2> HIDE DEF mid
  <2>5. PICK s \in 0 .. L - 1 : StandsAlone(nums, s) /\ left <= s /\ s <= right + 1
    <3>1. PICK s \in 0 .. L - 1 :
            /\ StandsAlone(nums, s)
            /\ \/ left <= s /\ s <= right + 1
               \/ s = L - 1 /\ left = s + 2 /\ right = s
      BY <1>2, <2>1, Zenon DEF SingleWithin
    <3>2. s \in Int /\ ~(left = s + 2 /\ right = s)
      BY <1>3
    <3>3. QED  BY <3>1, <3>2, Zenon
  <2>6. s % 2 = 0 /\ s \in Int /\ mid \in 0 .. L - 1 /\ s <= L - 1 /\ L \in Nat
    <3>1. s % 2 = 0
      BY <2>5 DEF StandsAlone
    <3>2. left \in Int /\ right \in Int /\ L \in Nat /\ 0 <= left /\ right <= L - 1
      BY <1>2, <2>1
    <3> HIDE DEF L
    <3>3. mid \in 0 .. L - 1
      BY <3>2, <2>2, <2>3
    <3>4. s \in Int /\ s <= L - 1
      BY <2>5, <3>2
    <3>5. QED  BY <3>1, <3>2, <3>3, <3>4
  <2>7. mid = L - 1 => s = L - 1 /\ right = s
    <3>1. left \in Int /\ right \in Int /\ right <= L - 1
      BY <1>2, <2>1
    <3> HIDE DEF L
    <3>2. SUFFICES ASSUME mid = L - 1 PROVE s = L - 1 /\ right = s
      OBVIOUS
    <3>3. M = right /\ right = L - 1
      BY <3>1, <3>2, <2>2, <2>3, <2>6
    <3>4. QED  BY <3>1, <3>3, <2>2, <2>5, <2>6
  <2>8. mid # L - 1 => mid \in 0 .. L - 2 /\ (nums[mid + 1] = num <=> mid < s)
    <3>1. SUFFICES ASSUME mid # L - 1
                   PROVE  mid \in 0 .. L - 2 /\ (nums[mid + 1] = num <=> mid < s)
      OBVIOUS
    <3>2. mid \in 0 .. L - 2 /\ mid + 1 \in Int /\ (mid + 1) + 1 = mid + 2
      BY <3>1, <2>6
    <3>3. mid + 2 \in DOMAIN nums
      BY <3>2, <2>1, <2>6, <1>2
    <3>4. num = nums[mid + 2]
      BY <3>2, <3>3, <2>4 DEF Search!Read
    <3>5. QED  BY <3>2, <3>4, <2>3, <2>5 DEF StandsAlone
  <2>9. /\ nums[mid + 1] = num => mid + 2 <= s \/ (mid = s /\ s = L - 1 /\ right = s)
        /\ nums[mid + 1] # num => s <= mid
    <3>1. CASE mid = L - 1
      BY <3>1, <2>6, <2>7
    <3>2. CASE mid # L - 1
      <4>1. mid < s => mid + 2 <= s
        BY <2>3, <2>6, Halves
      <4>2. QED  BY <3>2, <4>1, <2>6, <2>8
    <3>3. QED  BY <3>1, <3>2
  <2>10. /\ turns' = turns + 1 /\ stage' = stage /\ problem' = problem
         /\ nums' = nums /\ target' = target /\ found' = found
    BY <1>3 DEF Search!Turn
  <2>11. (mid + 2) % 2 = 0 /\ (mid - 1) + 1 = mid
    BY <2>3, Halves
  <2>12. CASE nums[mid + 1] = num
    <3>1. left' = mid + 2 /\ right' = right
      BY <2>4, <2>12
    <3>2. 0 <= mid + 2 /\ left' \in Int /\ right' \in Int /\ right - (mid + 2) < right - left
      <4>1. left \in Int /\ right \in Int /\ 0 <= left
        BY <1>2, <2>1
      <4>2. QED  BY <4>1, <3>1, <2>3
    <3>3. SingleWithin'
      <4>1. \/ left' <= s /\ s <= right' + 1
            \/ s = L - 1 /\ left' = s + 2 /\ right' = s
        BY <3>1, <2>5, <2>9, <2>12
      <4>a. \E q \in 0 .. Len(nums') - 1 :
              /\ StandsAlone(nums', q)
              /\ \/ left' <= q /\ q <= right' + 1
                 \/ q = Len(nums') - 1 /\ left' = q + 2 /\ right' = q
        BY <4>1, <2>5, <2>10, Zenon
      <4>2. 0 <= left' /\ left' % 2 = 0 /\ right' <= Len(nums') - 1
        BY <3>1, <3>2, <2>1, <2>10, <2>11, <1>2
      <4>3. QED  BY <4>a, <4>2 DEF SingleWithin, StandsAlone
    <3>4. Search!Narrows
      BY <3>1, <3>2, <2>1, <2>10 DEF Search!Narrows
    <3>5. QED  BY <3>2, <3>3, <3>4, <2>1, <2>10, <1>2 DEF SearchInv
  <2>13. CASE nums[mid + 1] # num
    <3>1. right' = mid - 1 /\ left' = left
      BY <2>4, <2>13
    <3>2. /\ mid - 1 <= L - 1 /\ left' \in Int /\ right' \in Int
          /\ (mid - 1) - left < right - left
      <4>1. left \in Int /\ right \in Int
        BY <1>2, <2>1
      <4>2. QED  BY <4>1, <3>1, <2>2, <2>3, <2>6
    <3>3. left' <= s /\ s <= right' + 1
      BY <3>1, <2>5, <2>9, <2>11, <2>13
    <3>4. SingleWithin'
      <4>1. \E q \in 0 .. Len(nums') - 1 :
              /\ StandsAlone(nums', q)
              /\ \/ left' <= q /\ q <= right' + 1
                 \/ q = Len(nums') - 1 /\ left' = q + 2 /\ right' = q
        BY <3>3, <2>5, <2>10, Zenon
      <4>2. 0 <= left' /\ left' % 2 = 0 /\ right' <= Len(nums') - 1
        BY <3>1, <3>2, <2>1, <2>10, <1>2
      <4>3. QED  BY <4>1, <4>2 DEF SingleWithin, StandsAlone
    <3>5. Search!Narrows
      BY <3>1, <3>2, <2>1, <2>10 DEF Search!Narrows
    <3>6. QED  BY <3>2, <3>4, <3>5, <2>1, <2>10, <1>2 DEF SearchInv
  <2>14. QED  BY <2>12, <2>13
<1>4. ASSUME Search!In("singleNonDuplicate"), left > right,
             NEW num \in Search!Read(left), Search!Return(<<num>>)
      PROVE  SearchInv' /\ Search!Narrows
  <2>1. stage = "loop" /\ problem = "singleNonDuplicate"
    BY <1>4 DEF Search!In
  <2>2. PICK s \in 0 .. L - 1 :
          /\ StandsAlone(nums, s)
          /\ \/ left <= s /\ s <= right + 1
             \/ s = L - 1 /\ left = s + 2 /\ right = s
    BY <1>2, <2>1, Zenon DEF SingleWithin
  <2>3. /\ problem' = "singleNonDuplicate" /\ nums' = nums /\ answer' = <<num>>
        /\ left' = left
    BY <1>4, <2>1 DEF Search!Return
  <2>4. Search!Promised'
    <3>1. /\ left \in Int /\ right \in Int /\ L \in Nat /\ DOMAIN nums = 1 .. L
          /\ 0 <= left /\ right < left
      BY <1>2, <1>4, <2>1
    <3>2. s + 1 \in DOMAIN nums /\ Search!Count(nums, nums[s + 1]) = {s + 1}
          /\ (s + 1) - 1 = s /\ (s + 1) + 1 = s + 2
      <4>1. Search!Count(nums, nums[s + 1]) = {s + 1}
        BY <2>2 DEF StandsAlone
      <4> HIDE DEF L
      <4>2. QED  BY <4>1, <2>2, <3>1
    <3>3. \/ left = s /\ num = nums[s + 1]
          \/ left = s + 2 /\ s + 1 = L
      <4>a. s \in Int /\ L \in Nat  BY <3>1
      <4>1. CASE left <= s /\ s <= right + 1
        <5>1. left = s
          <6> HIDE DEF L
          <6>1. QED  BY ONLY <4>1, <4>a, <3>1
        <5>2. QED  BY <5>1, <3>2, <1>4 DEF Search!Read
      <4>2. CASE s = L - 1 /\ left = s + 2 /\ right = s
        <5> HIDE DEF L
        <5>1. s + 1 = L  BY ONLY <4>2, <4>a
        <5>2. QED  BY <4>2, <5>1
      <4>3. QED  BY <4>1, <4>2, <2>2
    <3>4. /\ s + 1 \in DOMAIN nums' /\ Search!Count(nums', nums'[s + 1]) = {s + 1}
          /\ \/ left' = (s + 1) - 1 /\ answer' = <<nums'[s + 1]>>
             \/ left' = (s + 1) + 1 /\ s + 1 = Len(nums')
      <4>1. Search!Count(nums', nums'[s + 1]) = {s + 1}
        BY <3>2, <2>3 DEF Search!Count
      <4>2. s + 1 \in DOMAIN nums' /\ Len(nums') = L
        BY <3>2, <2>3
      <4>3. \/ left' = (s + 1) - 1 /\ answer' = <<nums'[s + 1]>>
            \/ left' = (s + 1) + 1 /\ s + 1 = Len(nums')
        <5>1. nums'[s + 1] = nums[s + 1]  BY <2>3
        <5>2. CASE left = s /\ num = nums[s + 1]
          BY <5>1, <5>2, <3>2, <2>3, Zenon
        <5>3. CASE left = s + 2 /\ s + 1 = L
          BY <5>3, <4>2, <3>2, <2>3, Zenon
        <5>4. QED  BY <5>2, <5>3, <3>3
      <4>4. QED  BY <4>1, <4>2, <4>3
    <3>5. \E x \in DOMAIN nums' :
            /\ Search!Count(nums', nums'[x]) = {x}
            /\ \/ left' = x - 1 /\ answer' = <<nums'[x]>>
               \/ left' = x + 1 /\ x = Len(nums')
      BY <3>4, Zenon
    <3>6. QED  BY <3>5, <2>3, PromisesNext DEF Promises, Search!Count
  <2>5. QED  BY <1>4, <2>4, Returned
<1>5. QED
  BY <1>1, <1>3, <1>4 DEF Search!singleNonDuplicate, Search!Idle

----------------------------------------------------------------------------
LEMMA StepOfSearch == ASSUME SearchInv, Search!Next PROVE SearchInv' /\ Search!Narrows
<1>1. CASE Search!Done
  BY <1>1 DEF Search!Done, SearchInv, Search!Narrows
<1>2. QED
  BY <1>1, StepOfFirstBad, StepOfMin, StepOfSqrt, StepOfRange, StepOfSingle, StepOfTwoSum,
     StepOfSquares DEF Search!Next

SearchesInv == used = "Searches" => SearchInv

LEMMA NextSearches ==
    ASSUME SearchesInv, Next
    PROVE  SearchesInv' /\ (used = "Searches" => Search!Narrows)
<1>1. used' = used
  BY ONLY Next DEF Next
<1>2. used = "Searches" => Search!Next
  BY DEF Next, Algorithm, OnArrays
<1>3. QED  BY ONLY SearchesInv, <1>1, <1>2, StepOfSearch DEF SearchesInv

LEMMA StillSearches == SearchesInv /\ UNCHANGED vars => SearchesInv'
<1> SUFFICES ASSUME SearchesInv, UNCHANGED vars PROVE SearchesInv'
  OBVIOUS
<1>1. UNCHANGED <<used, stage, problem, nums, target, left, right, found, turns>>
  BY DEF vars, algVars, arrayVars
<1>2. /\ FirstBadWithin => FirstBadWithin'
      /\ RootWithin => RootWithin'
      /\ SquaresWithin => SquaresWithin'
  BY <1>1 DEF FirstBadWithin, RootWithin, SquaresWithin
<1>3. /\ MinWithin => MinWithin'
      /\ SingleWithin => SingleWithin'
  BY <1>1 DEF MinWithin, SingleWithin
<1>4. /\ RangeWithin => RangeWithin'
      /\ SumWithin => SumWithin'
  BY <1>1 DEF RangeWithin, SumWithin, Ascending
<1>5. QED  BY <1>1, <1>2, <1>3, <1>4 DEF SearchesInv, SearchInv

(* The searches of leetcode/, for arrays of every length and numbers of     *)
(* every size: a turn of a loop always leaves less to search, so that it    *)
(* ends, the answer never falls out of the interval, and what is returned   *)
(* is the answer for the whole array.                                       *)
THEOREM SearchesFind == Spec => NarrowsToTheAnswer
<1>1. Init => SearchesInv
  <2>1. ASSUME Search!Init PROVE SearchInv
    BY <2>1 DEF Search!Init, SearchInv
  <2>2. QED  BY <2>1 DEF Init, SearchesInv
<1>2. SearchesInv /\ [Next]_vars => SearchesInv'
  BY NextSearches, StillSearches
<1>3. SearchesInv /\ [Next]_vars => [used = "Searches" => Search!Narrows]_vars
  BY NextSearches
<1>4. QED  BY <1>1, <1>2, <1>3, PTL DEF Spec, NarrowsToTheAnswer
=============================================================================
