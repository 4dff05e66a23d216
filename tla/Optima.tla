------------------------------- MODULE Optima -------------------------------
(***************************************************************************)
(* The problems the greedy solutions of leetcode/ solve, each as a search  *)
(* through everything that could be done.                                  *)
(***************************************************************************)
EXTENDS Integers, Sequences, SequencesExt, FiniteSetsExt, Functions

Nondecreasing(a) == \A i, j \in DOMAIN a : i < j => a[i] <= a[j]

(* The largest number of children who each get a cookie of their own that  *)
(* is large enough.                                                        *)
MostContent(needs, sizes) ==
    Max({Cardinality(C) : C \in {D \in SUBSET DOMAIN needs :
            \E gets \in Injection(D, DOMAIN sizes) :
                \A child \in D : sizes[gets[child]] >= needs[child]}})

(* The best of buying on a day and selling on that day or later. *)
BestTrade(prices) ==
    Max({0} \cup {prices[d[2]] - prices[d[1]] :
            d \in {e \in (DOMAIN prices) \X (DOMAIN prices) : e[1] <= e[2]}})

(* The best choice of the nights over which the stock is held. *)
BestTrades(prices) ==
    LET Gain(nights) == MapThenSumSet(LAMBDA d : prices[d + 1] - prices[d], nights)
    IN Max({Gain(nights) : nights \in SUBSET (1 .. Len(prices) - 1)})

(* n flowers fit into empty plots with no two neighbours. *)
Fits(bed, n) ==
    \E new \in kSubset(n, {i \in DOMAIN bed : bed[i] = 0}) :
        \A i \in new : \A k \in {i - 1, i + 1} \cap DOMAIN bed :
            bed[k] = 0 /\ k \notin new

(* The largest sum of neighbouring elements, at least one. *)
LargestSum(a) ==
    Max({MapThenSumSet(LAMBDA i : a[i], r[1] .. r[2]) :
            r \in {s \in (DOMAIN a) \X (DOMAIN a) : s[1] <= s[2]}})

(* One element may be set to anything; another one of the array will do. *)
OneChangeAtMost(a) ==
    Len(a) < 2 \/ \E i, k \in DOMAIN a : Nondecreasing([a EXCEPT ![i] = a[k]])

(* The fewest points that leave no interval without one. *)
FewestArrows(balloons) ==
    LET Points == UNION {balloons[b][1] .. balloons[b][2] : b \in DOMAIN balloons}
    IN Min({Cardinality(shots) : shots \in {S \in SUBSET Points :
            \A b \in DOMAIN balloons :
                \E x \in S : balloons[b][1] <= x /\ x <= balloons[b][2]}})

(* The fewest intervals to remove for the others to touch at most. *)
FewestRemoved(intervals) ==
    Len(intervals) - Max({Cardinality(kept) : kept \in {K \in SUBSET DOMAIN intervals :
            \A a, b \in K : a = b \/ intervals[a][2] <= intervals[b][1]
                                  \/ intervals[b][2] <= intervals[a][1]}})

(* The places after which no letter comes again: all of them are cuts. *)
Cuts(s) == {i \in DOMAIN s : \A a \in 1..i, b \in i + 1..Len(s) : s[a] # s[b]}

(* Where each person sees k others of at least the same height in front. *)
InPlace(queue) ==
    \A p \in DOMAIN queue :
        Cardinality({q \in 1..p - 1 : queue[q].height >= queue[p].height}) = queue[p].k

Before(v, w) == \E i \in DOMAIN v : v[i] < w[i] /\ \A j \in 1..i - 1 : v[j] = w[j]

(* The words left after deleting letters of s, and the first of the longest *)
(* of them; the empty word if there is none.                                *)
LongestWord(s, dictionary) ==
    LET Left  == {w \in ToSet(dictionary) : \E at \in [DOMAIN w -> DOMAIN s] :
                    \A i, j \in DOMAIN w : s[at[i]] = w[i] /\ (i < j => at[i] < at[j])}
        Longest == {w \in Left \cup {<<>>} : \A v \in Left : Len(v) <= Len(w)}
    IN CHOOSE w \in Longest : \A v \in Longest : ~Before(v, w)
=============================================================================
