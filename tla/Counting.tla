------------------------------ MODULE Counting ------------------------------
(***************************************************************************)
(* The solutions of leetcode/ and algorithm/ that count elements in a hash *)
(* map, sort them or keep them in a heap, and the one that computes the    *)
(* values of an expression.  As in Greedy a function is one step from the  *)
(* call to the answer.  The order of a hash map, of elements a heap holds  *)
(* for equal and of what std::nth_element leaves is any that may be.       *)
(***************************************************************************)
EXTENDS Greedy

Frequency(s, v) == Cardinality({i \in DOMAIN s : s[i] = v})
Distinct(s)     == SetToSeq(ToSet(s))

(* kth_largest_element_in_an_array.cpp: a heap of the k largest so far, ... *)
KthByMinHeap(nums, k) ==
    LET Element(q, num) == LET pushed == SortSeq(Append(q, num), <)
                           IN IF Len(pushed) > k THEN Tail(pushed) ELSE pushed
    IN Head(FoldLeft(Element, <<>>, nums))

(* ... sorting, ... *)
KthBySort(nums, k) == SortSeq(nums, >)[k]

(* ... or sorting only as far as k splits the array. *)
KthByNthElement(nums, k) ==
    {s[k] : s \in {t \in SortedBy(nums, LAMBDA x, y : FALSE) :
        /\ \A i \in 1 .. k - 1 : t[i] >= t[k]
        /\ \A i \in k + 1 .. Len(t) : t[i] <= t[k]}}

(* The heaps that may be left, and the orders they may be emptied in. *)
topKFrequent(nums, k) ==
    LET Push(heaps, num) ==
            LET pushed == {h \cup {num} : h \in heaps}
                Tops(h) == {v \in h : \A w \in h : Frequency(nums, v) <= Frequency(nums, w)}
            IN UNION {IF Cardinality(h) > k THEN {h \ {v} : v \in Tops(h)} ELSE {h} : h \in pushed}
        heaps == UNION {FoldLeft(Push, {{}}, order) :
                        order \in SortedBy(Distinct(nums), LAMBDA v, w : FALSE)}
    IN UNION {SortedBy(SetToSeq(h), LAMBDA v, w : Frequency(nums, v) < Frequency(nums, w)) : h \in heaps}

WrittenOut(order, s) == FlattenSeq([i \in DOMAIN order |->
                                      [n \in 1 .. Frequency(s, order[i]) |-> order[i]]])

FrequencySort(s) ==
    {WrittenOut(order, s) :
        order \in SortedBy(Distinct(s), LAMBDA v, w : Frequency(s, v) > Frequency(s, w))}

(* The queue compares pairs, the character before the frequency. *)
FrequencySortByQueue(s) == WrittenOut(SortSeq(Distinct(s), <), s)

(* From a number not visited yet, to its right and to its left. *)
longestConsecutive(nums) ==
    LET Present == ToSet(nums)
        Upward(v)   == CHOOSE w \in Present : w >= v /\ v .. w \subseteq Present /\ w + 1 \notin Present
        Downward(v) == CHOOSE w \in Present : w <= v /\ w .. v \subseteq Present /\ w - 1 \notin Present
        Element(s, num) ==
            IF num \in s.visited THEN s
            ELSE LET streak == Downward(num) .. Upward(num)
                 IN [visited |-> s.visited \cup streak,
                     longest |-> Larger(s.longest, Cardinality(streak))]
    IN FoldLeft(Element, [visited |-> {}, longest |-> 0], nums).longest

Compute(op, x, y) == CASE op = "+" -> x + y [] op = "-" -> x - y [] op = "*" -> x * y

(* The text is numbers[1] ops[1] numbers[2] ops[2] ...: at each operator in *)
(* turn the ways of what is left of it with the ways of what is right.      *)
diffWaysToCompute(numbers, ops) ==
    LET All(op, left, right) == FlattenSeq([l \in DOMAIN left |->
                                  [r \in DOMAIN right |-> Compute(op, left[l], right[r])]])
        ways[part \in (DOMAIN numbers) \X (DOMAIN numbers)] ==
            IF part[1] >= part[2] THEN <<numbers[part[1]]>>
            ELSE FlattenSeq([n \in 1 .. part[2] - part[1] |->
                   LET i == part[1] + n - 1
                   IN All(ops[i], ways[<<part[1], i>>], ways[<<i + 1, part[2]>>])])
    IN ways[<<1, Len(numbers)>>]

----------------------------------------------------------------------------
KthLargest == \E nums \in Prices : \E k \in DOMAIN nums :
    \E kth \in {KthByMinHeap(nums, k), KthBySort(nums, k)} \cup KthByNthElement(nums, k) :
        Call("kth largest", <<nums, k>>, kth)
TopK == \E nums \in Prices : \E k \in 1 .. 3 :
    \E top \in topKFrequent(nums, k) : Call("top k", <<nums, k>>, top)
ByFrequency == \E s \in Prices : \E sorted \in FrequencySort(s) : Call("by frequency", s, sorted)
ByQueue == \E s \in Prices : Call("by queue", s, FrequencySortByQueue(s))
Consecutive == \E nums \in BoundedSeq(1 .. MaxLength + 1, MaxLength) :
    Call("consecutive", nums, longestConsecutive(nums))
Ways == \E n \in 1 .. 4 : \E numbers \in [1 .. n -> Heights], ops \in [1 .. n - 1 -> {"+", "-", "*"}] :
    Call("ways", <<numbers, ops>>, diffWaysToCompute(numbers, ops))

CountingNext == \/ /\ problem = "none"
                   /\ \/ KthLargest \/ TopK \/ ByFrequency \/ ByQueue \/ Consecutive \/ Ways
                \/ Done

CountingSpec == Init /\ [][CountingNext]_vars

----------------------------------------------------------------------------
(* Every value equals what stands before or after it, or comes first. *)
Grouped(s) == \A i, j \in DOMAIN s : i < j /\ s[i] = s[j] => \A n \in i .. j : s[n] = s[i]

(* The results of applying the operators in any order. *)
ResultsInAnyOrder(numbers, ops) ==
    LET Applied(e, i) ==
            [numbers |-> [n \in 1 .. Len(e.numbers) - 1 |->
                            CASE n < i -> e.numbers[n] [] n > i -> e.numbers[n + 1]
                              [] n = i -> Compute(e.ops[i], e.numbers[i], e.numbers[i + 1])],
             ops |-> RemoveAt(e.ops, i)]
        Step(es, round) == UNION {{Applied(e, i) : i \in DOMAIN e.ops} : e \in es}
    IN {e.numbers[1] : e \in FoldLeftDomain(Step, {[numbers |-> numbers, ops |-> ops]}, ops)}

Catalan == <<1, 1, 2, 5>>

FallingFrequency(s, sorted) == \A i, j \in DOMAIN sorted :
    i < j => Frequency(s, sorted[i]) >= Frequency(s, sorted[j])

(* "Use a priority queue, sorted by the frequency of the characters from    *)
(* high to low" (sort_characters_by_frequency.cpp, the second               *)
(* frequencySort()).                                                        *)
QueueSortsByFrequency == problem = "by queue" => FallingFrequency(input, answer)

(* Each function, whatever the order of its hash map and of equal elements, *)
(* returns what its problem asks for; of the queue of frequencySort(), only *)
(* that the characters are those of the text, equal ones together: what it  *)
(* is said to do besides, QueueSortsByFrequency, it does not.               *)
CountingIsRight ==
    CASE problem = "kth largest" ->
           LET nums == input[1] IN
           /\ Cardinality({i \in DOMAIN nums : nums[i] > answer}) < input[2]
           /\ Cardinality({i \in DOMAIN nums : nums[i] >= answer}) >= input[2]
      [] problem = "top k" ->
           /\ IsInjective(answer) /\ ToSet(answer) \subseteq ToSet(input[1])
           /\ Len(answer) = Smaller(input[2], Cardinality(ToSet(input[1])))
           /\ \A v \in ToSet(input[1]) \ ToSet(answer) : \A w \in ToSet(answer) :
                Frequency(input[1], v) <= Frequency(input[1], w)
      [] problem \in {"by frequency", "by queue"} ->
           /\ ToBag(answer) = ToBag(input) /\ Grouped(answer)
           /\ problem = "by frequency" => FallingFrequency(input, answer)
      [] problem = "consecutive" ->
           answer = Max({0} \cup {n \in 1 .. Len(input) : \E v \in ToSet(input) :
                                    v .. v + n - 1 \subseteq ToSet(input)})
      [] problem = "ways" ->
           /\ ToSet(answer) = ResultsInAnyOrder(input[1], input[2])
           /\ Len(answer) = Catalan[Len(input[1])]
      [] OTHER -> TRUE
=============================================================================
