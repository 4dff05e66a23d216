------------------------------- MODULE Windows -------------------------------
(***************************************************************************)
(* minCoverSubString.cpp: the shortest piece of s with all characters of   *)
(* t, by a window that grows to the right until it covers t and then       *)
(* shrinks from the left.  t is not empty: no window would stop shrinking. *)
(***************************************************************************)
EXTENDS ArrayInputs, FiniteSets, SequencesExt

VARIABLES stage, input,         \* input: <<s, t>>
          left, right, window, valid, start, len, answer

vars == <<stage, input, left, right, window, valid, start, len, answer>>

s == input[1]
t == input[2]
INT_MAX == 2147483647

Init == /\ stage = "idle" /\ input = <<>> /\ answer = <<>>
        /\ left = 0 /\ right = 0 /\ window = <<>> /\ valid = 0
        /\ start = 0 /\ len = INT_MAX

minWindow == /\ stage = "idle" /\ stage' = "loop"
             /\ \E chars \in (SUBSET Heights) \ {{}}, text \in BoundedSeq(Heights, MaxSize) :
                  input' = <<text, chars>> /\ window' = [c \in chars |-> 0]
             /\ UNCHANGED <<left, right, valid, start, len, answer>>

(* s[right] enters the window. *)
Grow == /\ stage = "loop" /\ valid # Cardinality(t) /\ right < Len(s)
        /\ LET c == s[right + 1] IN
           /\ window' = IF c \in t THEN [window EXCEPT ![c] = @ + 1] ELSE window
           /\ valid' = IF c \in t /\ window'[c] = 1 THEN valid + 1 ELSE valid
        /\ right' = right + 1
        /\ UNCHANGED <<stage, input, left, start, len, answer>>

(* The window is compared with the shortest so far; s[left] leaves it. *)
Shrunk == LET d == s[left + 1] IN
          /\ window' = IF d \in t THEN [window EXCEPT ![d] = @ - 1] ELSE window
          /\ valid' = IF d \in t /\ window'[d] = 0 THEN valid - 1 ELSE valid
          /\ left' = left + 1
          /\ UNCHANGED <<stage, input, right, answer>>

(* Fault: the window is compared after it has lost its first character. *)
ShrinkFirst == /\ stage = "loop" /\ valid = Cardinality(t)
               /\ Shrunk
               /\ IF right - left' < len THEN start' = left' /\ len' = right - left'
                                         ELSE UNCHANGED <<start, len>>

Shrink == /\ stage = "loop" /\ valid = Cardinality(t)
          /\ IF right - left < len THEN start' = left /\ len' = right - left
                                   ELSE UNCHANGED <<start, len>>
          /\ Shrunk

Return == /\ stage = "loop" /\ valid # Cardinality(t) /\ right = Len(s)
          /\ stage' = "returned"
          /\ answer' = IF len = INT_MAX THEN <<>> ELSE SubSeq(s, start + 1, start + len)
          /\ UNCHANGED <<input, left, right, window, valid, start, len>>

Done == stage = "returned" /\ stage' = "idle" /\ input' = <<>> /\ answer' = <<>>
        /\ left' = 0 /\ right' = 0 /\ window' = <<>> /\ valid' = 0
        /\ start' = 0 /\ len' = INT_MAX

Next == minWindow \/ Grow \/ Shrink \/ Return \/ Done

----------------------------------------------------------------------------
Piece(from, to) == {s[i] : i \in from + 1 .. to}

(* Whenever the window has stopped shrinking, valid counts the characters  *)
(* in it and no piece of what has been read, so in the end none of s, is   *)
(* shorter than len and covers t; the answer is such a piece.              *)
WindowIsSmallest ==
    /\ stage = "loop" /\ valid # Cardinality(t) =>
         /\ valid = Cardinality(Piece(left, right) \cap t)
         /\ \A l \in 0 .. right, r \in 0 .. right : t \subseteq Piece(l, r) => r - l >= len
    /\ stage = "returned" =>
         IF t \subseteq Piece(0, Len(s))
         THEN Len(answer) = len /\ t \subseteq ToSet(answer) ELSE answer = <<>>
=============================================================================
