----------------------------- MODULE Traversals -----------------------------
(***************************************************************************)
(* The solutions of leetcode/ that walk through a graph: two depth-first   *)
(* over the cells of a grid, one breadth-first over sums of squares.  A    *)
(* step is one call of dfs(), or one turn of the loop over the queue.      *)
(* pending is the stack of calls still to be made, or the queue.           *)
(***************************************************************************)
EXTENDS ArrayInputs, SequencesExt, FiniteSetsExt

VARIABLES problem,
          input,                \* the height or land of each cell, or n
          starts,               \* the calls the loops of the function still make
          pending, seen,
          level,                \* the nodes of the queue left in this level
          answer

vars == <<problem, input, starts, pending, seen, level, answer>>

Init == /\ problem = "none" /\ input = <<>> /\ starts = <<>> /\ pending = <<>>
        /\ seen = {} /\ level = 0 /\ answer = <<>>

Call(function, given, first, queue, result) ==
    /\ problem = "none" /\ problem' = function
    /\ input' = given /\ starts' = first /\ pending' = queue /\ answer' = result
    /\ UNCHANGED <<seen, level>>

Grids(n, m, values) == [(1 .. n) \X (1 .. m) -> values]
Rows(grid) == Max({c[1] : c \in DOMAIN grid})
Cols(grid) == Max({c[2] : c \in DOMAIN grid})

(* Fault: one of the four directions is forgotten. *)
AroundButLeft(c) ==
    SelectSeq(<<<<c[1] - 1, c[2]>>, <<c[1] + 1, c[2]>>, <<c[1], c[2] + 1>>>>,
              LAMBDA d : d \in DOMAIN input)

(* The neighbours of a cell: up, down, left, right. *)
Around(c) ==
    SelectSeq(<<<<c[1] - 1, c[2]>>, <<c[1] + 1, c[2]>>, <<c[1], c[2] - 1>>, <<c[1], c[2] + 1>>>>,
              LAMBDA d : d \in DOMAIN input)

----------------------------------------------------------------------------
(* seen: the cells marked '0'.  Calls for what was no land from the start,  *)
(* or is outside the grid, return at once and are no steps.                 *)
numIslands ==
    \E grid \in Grids(3, 3, {0, 1}) \cup Grids(1, 4, {0, 1}) :
        LET m == Cols(grid)
            cell(k) == <<1 + (k - 1) \div m, 1 + ((k - 1) % m)>>
        IN Call("islands", grid, [k \in 1 .. Rows(grid) * m |-> cell(k)], <<>>, 0)

IslandsStart == /\ problem = "islands" /\ pending = <<>> /\ starts # <<>>
                /\ LET c == Head(starts) IN
                   IF input[c] = 1 /\ c \notin seen
                   THEN answer' = answer + 1 /\ pending' = <<c>>
                   ELSE UNCHANGED <<answer, pending>>
                /\ starts' = Tail(starts)
                /\ UNCHANGED <<problem, input, seen, level>>

IslandsVisit ==
    /\ problem = "islands" /\ pending # <<>>
    /\ LET c == Head(pending)
           land == SelectSeq(Around(c), LAMBDA d : input[d] = 1)
       IN pending' = IF c \in seen THEN Tail(pending) ELSE land \o Tail(pending)
    /\ seen' = seen \cup {Head(pending)}
    /\ UNCHANGED <<problem, input, starts, level, answer>>

----------------------------------------------------------------------------
(* seen: <<"P", cell>> and <<"A", cell>>.  The object is a new one: ans is  *)
(* not cleared for a second call.                                          *)
pacificAtlantic ==
    \E M \in Grids(2, 3, Heights) \cup Grids(3, 3, {1, 2}) :
        LET n == Rows(M)
            m == Cols(M)
        IN Call("oceans", M,
                FlattenSeq([i \in 1 .. n |-> <<<<"P", <<i, 1>>>>, <<"A", <<i, m>>>>>>])
                \o FlattenSeq([j \in 1 .. m |-> <<<<"P", <<1, j>>>>, <<"A", <<n, j>>>>>>]),
                <<>>, <<>>)

OceansStart == /\ problem = "oceans" /\ pending = <<>> /\ starts # <<>>
               /\ pending' = <<Head(starts)>>
               /\ starts' = Tail(starts)
               /\ UNCHANGED <<problem, input, seen, level, answer>>

OceansVisit ==
    /\ problem = "oceans" /\ pending # <<>>
    /\ LET visited == Head(pending)[1]
           c == Head(pending)[2]
           higher == SelectSeq(Around(c), LAMBDA d : input[d] >= input[c])
       IN IF Head(pending) \in seen
          THEN pending' = Tail(pending) /\ UNCHANGED <<seen, answer>>
          ELSE /\ seen' = seen \cup {Head(pending)}
               /\ answer' = IF {<<"P", c>>, <<"A", c>>} \subseteq seen'
                            THEN Append(answer, c) ELSE answer
               /\ pending' = [i \in DOMAIN higher |-> <<visited, higher[i]>>] \o Tail(pending)
    /\ UNCHANGED <<problem, input, starts, level>>

----------------------------------------------------------------------------
(* answer: path_len. *)
numSquares == \E n \in 1 .. MaxNumber : Call("squares", n, <<>>, <<0>>, 0)

SquaresTurn ==
    /\ problem = "squares" /\ starts = <<>> /\ pending # <<>>
    /\ LET sums  == {Head(pending) + num * num : num \in 1 .. input}
           fresh == SelectSeq([num \in 1 .. input |-> Head(pending) + num * num],
                              LAMBDA sum : sum < input /\ sum \notin seen)
       IN IF input \in sums
          THEN pending' = <<>> /\ UNCHANGED seen
          ELSE /\ pending' = Tail(pending) \o fresh
               /\ seen' = seen \cup ToSet(fresh)
    /\ IF level = 0 THEN answer' = answer + 1 /\ level' = Len(pending) - 1
                    ELSE level' = level - 1 /\ UNCHANGED answer
    /\ UNCHANGED <<problem, input, starts>>

Returned == problem # "none" /\ starts = <<>> /\ pending = <<>>
Done == /\ Returned
        /\ problem' = "none" /\ input' = <<>> /\ starts' = <<>> /\ pending' = <<>>
        /\ seen' = {} /\ level' = 0 /\ answer' = <<>>

Next == \/ numIslands \/ IslandsStart \/ IslandsVisit
        \/ pacificAtlantic \/ OceansStart \/ OceansVisit
        \/ numSquares \/ SquaresTurn
        \/ Done

----------------------------------------------------------------------------
Adjacent(c, d) == (c[1] - d[1]) * (c[1] - d[1]) + (c[2] - d[2]) * (c[2] - d[2]) = 1

(* What is reached from a set of cells by steps to cells that follow. *)
Closure(cells, follows(_, _)) ==
    LET Wider(C) == C \cup {d \in DOMAIN input : \E c \in C : Adjacent(c, d) /\ follows(c, d)}
    IN FoldLeftDomain(LAMBDA C, round : Wider(C), cells, [n \in 1 .. Cardinality(DOMAIN input) |-> n])

Island(c) == Closure({c}, LAMBDA d, e : input[e] = 1)
FlowsTo(c) == Closure({c}, LAMBDA d, e : input[e] <= input[d])

FewestSquares(n) ==
    LET Sums(k) == {MapThenSumSet(LAMBDA i : r[i] * r[i], 1 .. k) : r \in [1 .. k -> {i \in 1 .. n : i * i <= n}]}
    IN CHOOSE k \in 1 .. 4 : n \in Sums(k) /\ \A l \in 1 .. k - 1 : n \notin Sums(l)

(* When a traversal has come to its end, each island has been counted once; *)
(* the cells from which water flows, never uphill, to both coasts have been *)
(* found, each once; and the first sum that was n had the fewest squares.   *)
TraversalsFindAll == Returned =>
    CASE problem = "islands" ->
           answer = Cardinality({Island(c) : c \in {d \in DOMAIN input : input[d] = 1}})
      [] problem = "oceans" ->
           /\ IsInjective(answer)
           /\ ToSet(answer) = {c \in DOMAIN input :
                /\ \E d \in FlowsTo(c) : d[1] = 1 \/ d[2] = 1
                /\ \E d \in FlowsTo(c) : d[1] = Rows(input) \/ d[2] = Cols(input)}
      [] problem = "squares" -> answer = FewestSquares(input)
=============================================================================
