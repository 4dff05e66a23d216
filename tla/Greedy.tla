------------------------------- MODULE Greedy -------------------------------
(***************************************************************************)
(* The greedy and one-pass solutions of leetcode/.  A function is a fold   *)
(* over its loop and one step from the call to the answer; the problems it *)
(* is meant to solve are those of Optima.  What a function leaves behind   *)
(* in the vectors it is given (sorted, repaired, planted) is left out.     *)
(***************************************************************************)
EXTENDS ArrayInputs, Optima, TLC

VARIABLES problem, input, answer

vars == <<problem, input, answer>>

INT_MAX == 2147483647

Larger(x, y) == IF x < y THEN y ELSE x
Smaller(x, y) == IF x < y THEN x ELSE y

(* What std::sort may leave: elements that compare equal in any order. *)
SortedBy(s, less(_, _)) ==
    {t \in {[i \in DOMAIN s |-> s[p[i]]] : p \in Permutations(DOMAIN s)} :
        \A i, j \in DOMAIN t : i < j => ~less(t[j], t[i])}

----------------------------------------------------------------------------
(* cookie_iter walks over the cookies, child_iter behind the children that *)
(* are satisfied.                                                          *)
find_content_children(children_needs, cookies_sizes) ==
    LET needs == SortSeq(children_needs, <)
        Try(satisfied_kids, cookie) ==
            IF satisfied_kids < Len(needs) /\ cookie >= needs[satisfied_kids + 1]
            THEN satisfied_kids + 1 ELSE satisfied_kids
    IN FoldLeft(Try, 0, SortSeq(cookies_sizes, <))

maxProfit(prices) ==
    LET Day(s, price) ==
            LET low == Smaller(s.min_price, price)
            IN [min_price |-> low, max_profit |-> Larger(s.max_profit, price - low)]
    IN FoldLeft(Day, [min_price |-> INT_MAX, max_profit |-> 0], prices).max_profit

maxProfitII(prices) ==
    FoldLeftDomain(LAMBDA max_profit, i :
                     max_profit + IF i > 1 /\ prices[i] > prices[i - 1]
                                  THEN prices[i] - prices[i - 1] ELSE 0,
                   0, prices)

canPlaceFlowers(flowerbed, n) ==
    LET Plot(s, i) ==
            IF /\ s.n > 0 /\ s.bed[i] = 0
               /\ i = 1 \/ s.bed[i - 1] = 0
               /\ i = Len(s.bed) \/ s.bed[i + 1] = 0
            THEN [bed |-> [s.bed EXCEPT ![i] = 1], n |-> s.n - 1] ELSE s
    IN FoldLeftDomain(Plot, [bed |-> flowerbed, n |-> n], flowerbed).n <= 0

(* Fault: the sum goes on from elements that only lower it. *)
maxSubArrayDragging(nums) ==
    LET Element(s, num) ==
            LET sum == s.current_sum + num
            IN [current_sum |-> sum, max_sum |-> Larger(s.max_sum, sum)]
    IN FoldLeft(Element, [current_sum |-> nums[1], max_sum |-> nums[1]], Tail(nums)).max_sum

maxSubArray(nums) ==
    LET Element(s, num) ==
            LET sum == Larger(num, s.current_sum + num)
            IN [current_sum |-> sum, max_sum |-> Larger(s.max_sum, sum)]
    IN FoldLeft(Element, [current_sum |-> nums[1], max_sum |-> nums[1]], Tail(nums)).max_sum

(* Of two elements that fall, the first is lowered if that does no harm. *)
checkPossibility(nums) ==
    LET Repaired(a, i) == IF i = 2 \/ a[i - 2] <= a[i] THEN [a EXCEPT ![i - 1] = a[i]]
                                                       ELSE [a EXCEPT ![i] = a[i - 1]]
        Element(s, i) ==
            IF ~s.ok \/ i = 1 \/ s.nums[i] >= s.nums[i - 1] THEN s
            ELSE IF s.modified THEN [s EXCEPT !.ok = FALSE]
            ELSE [nums |-> Repaired(s.nums, i), modified |-> TRUE, ok |-> TRUE]
    IN FoldLeftDomain(Element, [nums |-> nums, modified |-> FALSE, ok |-> TRUE], nums).ok

compareByEnd(a, b) == a[2] < b[2]

(* The loops over the intervals, in the order of their ends: how often one  *)
(* starts where the next count begins.                                     *)
CountFrom(intervals, starts(_, _)) ==
    LET Interval(s, interval) == IF starts(interval[1], s.end)
                                 THEN [count |-> s.count + 1, end |-> interval[2]] ELSE s
    IN FoldLeft(Interval, [count |-> 1, end |-> intervals[1][2]], Tail(intervals)).count

findMinArrowShots(points) == IF points = <<>> THEN 0 ELSE CountFrom(points, >)

removeOverlappingIntervals(intervals) ==
    IF intervals = <<>> THEN 0 ELSE Len(intervals) - CountFrom(intervals, >=)

partitionLabels(s) ==
    LET last_index(c) == Max({i \in DOMAIN s : s[i] = c})
        Letter(p, i) ==
            LET end == Larger(p.end, last_index(s[i]))
            IN IF i = end
               THEN [end |-> end, start |-> i + 1, lengths |-> Append(p.lengths, i - p.start + 1)]
               ELSE [p EXCEPT !.end = end]
    IN FoldLeftDomain(Letter, [end |-> 1, start |-> 1, lengths |-> <<>>], s).lengths

compare(a, b) == IF a.height = b.height THEN a.k < b.k ELSE a.height > b.height

reconstructQueue(people) ==
    FoldLeft(LAMBDA queue, person : InsertAt(queue, person.k + 1, person),
             <<>>, SortSeq(people, compare))

findLongestWord(s, dictionary) ==
    LET Matched(word) == FoldLeft(LAMBDA j, c : IF j < Len(word) /\ c = word[j + 1]
                                                THEN j + 1 ELSE j, 0, s)
        Word(longest, word) ==
            IF /\ Matched(word) = Len(word)
               /\ \/ Len(word) > Len(longest)
                  \/ Len(word) = Len(longest) /\ Before(word, longest)
            THEN word ELSE longest
    IN FoldLeft(Word, <<>>, dictionary)

----------------------------------------------------------------------------
Init == problem = "none" /\ input = <<>> /\ answer = <<>>

(* input: the vectors given, in the order the function sorts them. *)
Call(function, given, result) ==
    /\ problem' = function
    /\ input' = given
    /\ answer' = result

Prices  == BoundedSeq(Heights, MaxLength)
Numbers == BoundedSeq({g - h : g, h \in Heights}, MaxLength)
Pairs   == {p \in (Heights \cup {0}) \X Heights : p[1] <= p[2]}
Queues  == {[i \in DOMAIN s |-> [height |-> s[i],
                                 k |-> Cardinality({j \in 1..i - 1 : s[j] >= s[i]})]] :
              s \in Prices}

Cookies == \E needs, sizes \in {s \in Prices : Len(s) <= 3} :
             Call("cookies", <<needs, sizes>>, find_content_children(needs, sizes))
Stock   == \E prices \in Prices : Call("stock", prices, maxProfit(prices))
StockII == \E prices \in Prices : Call("stock II", prices, maxProfitII(prices))
Flowers == \E bed \in BoundedSeq({0, 1}, MaxLength + 1), n \in 0..3 :
             Call("flowers", <<bed, n>>, canPlaceFlowers(bed, n))
Subarray == \E nums \in Numbers \ {<<>>} : Call("subarray", nums, maxSubArray(nums))
Rising  == \E nums \in Prices : Call("non-decreasing", nums, checkPossibility(nums))
Balloons == \E s \in BoundedSeq(Pairs, 3) : \E points \in SortedBy(s, compareByEnd) :
              Call("balloons", points, findMinArrowShots(points))
Intervals == \E s \in BoundedSeq(Pairs, MaxLength) :
               \E sorted \in SortedBy(s, compareByEnd) :
                 Call("intervals", sorted, removeOverlappingIntervals(sorted))
Labels   == \E s \in Prices : Call("labels", s, partitionLabels(s))
Queue    == \E q \in Queues : \E people \in SortedBy(q, LAMBDA a, b : FALSE) :
              Call("queue", people, reconstructQueue(people))
Words    == \E s \in BoundedSeq({1, 2}, 3), d \in BoundedSeq(BoundedSeq({1, 2}, 2), 2) :
              Call("words", <<s, d>>, findLongestWord(s, d))

Done == problem # "none" /\ problem' = "none" /\ input' = <<>> /\ answer' = <<>>

Next == \/ /\ problem = "none"
           /\ \/ Cookies \/ Stock \/ StockII \/ Flowers \/ Subarray \/ Rising
              \/ Balloons \/ Intervals \/ Labels \/ Queue \/ Words
        \/ Done

Spec == Init /\ [][Next]_vars

----------------------------------------------------------------------------
(* A cut after every place that allows one, and after no other. *)
CutsAreMade(s, lengths) ==
    LET End(n) == MapThenSumSet(LAMBDA i : lengths[i], 1..n)
    IN /\ \A i \in DOMAIN lengths : lengths[i] > 0
       /\ {End(n) : n \in DOMAIN lengths} = Cuts(s)

(* Behind an empty interval no other one with the same end may come: the    *)
(* loop over the intervals takes the empty one first and the other no more. *)
(* std::sort, which is asked for the order of the ends only, may leave it.  *)
EmptyOnesLast(sorted) == \A i, j \in DOMAIN sorted :
    i < j /\ sorted[i][1] = sorted[i][2] /\ sorted[j][2] = sorted[i][2]
        => sorted[j][1] = sorted[j][2]

(* The choices made one at a time, and never taken back, lead to what a     *)
(* search through all choices would have found: whatever order std::sort    *)
(* leaves equal elements in, but for empty intervals, of which the count of *)
(* intervals to remove may come out too large and never too small.          *)
GreedyIsOptimal ==
    CASE problem = "none"      -> TRUE
      [] problem = "cookies"   -> answer = MostContent(input[1], input[2])
      [] problem = "stock"     -> answer = BestTrade(input)
      [] problem = "stock II"  -> answer = BestTrades(input)
      [] problem = "flowers"   -> answer <=> Fits(input[1], input[2])
      [] problem = "subarray"  -> answer = LargestSum(input)
      [] problem = "non-decreasing" -> answer <=> OneChangeAtMost(input)
      [] problem = "balloons"  -> answer = FewestArrows(input)
      [] problem = "intervals" -> /\ answer >= FewestRemoved(input)
                                  /\ EmptyOnesLast(input) => answer = FewestRemoved(input)
      [] problem = "labels"    -> CutsAreMade(input, answer)
      [] problem = "queue"     -> InPlace(answer) /\ ToBag(answer) = ToBag(input)
      [] problem = "words"     -> answer = LongestWord(input[1], input[2])
=============================================================================
