---------------------------- MODULE BoundedCache ----------------------------
(***************************************************************************)
(* What tiny_cache::CachePolicy promises whatever the policy: the cache    *)
(* holds no more entries than its capacity, get() gives the value last put *)
(* and a put() drops one other entry at most, when the cache is full and,  *)
(* unless MakesRoomFirst, the key is not one it holds.                     *)
(***************************************************************************)
EXTENDS Naturals, FiniteSets, Functions

CONSTANTS Key, Value, Capacity,
          MakesRoomFirst    \* put() evicts before it looks the key up

VARIABLES contents,         \* a function from the keys held to their values
          last              \* the key and value last put or got

Init == contents = <<>> /\ last = <<>>

Get(k) == /\ k \in DOMAIN contents
          /\ last' = <<k, contents[k]>>
          /\ UNCHANGED contents

Put(k, v) == \E gone \in SUBSET DOMAIN contents :
    /\ Cardinality(gone) <= 1
    /\ last' = <<k, v>>
    /\ gone # {} => /\ Cardinality(DOMAIN contents) = Capacity
                    /\ k \notin DOMAIN contents \/ MakesRoomFirst
    /\ contents' = [x \in (DOMAIN contents \ gone) \cup {k} |->
                       IF x = k THEN v ELSE contents[x]]
    /\ Cardinality(DOMAIN contents') <= Capacity

Clear == contents' = <<>> /\ last' = <<>>

Next == Clear \/ \E k \in Key : Get(k) \/ \E v \in Value : Put(k, v)

Spec == Init /\ [][Next]_<<contents, last>>
=============================================================================
