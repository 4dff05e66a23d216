------------------------------ MODULE LRUCache ------------------------------
(***************************************************************************)
(* tiny_cache::LRUCache: a list of entries, most recently used first, and  *)
(* a map from each key to its list node.  A node keeps its identity when   *)
(* it is spliced, so map_ is modelled by the set of keys it has a node of. *)
(***************************************************************************)
EXTENDS CachePolicy

VARIABLES list_,        \* of [key, value]
          map_,
          last,         \* the key and value last put or got
          recent        \* history: all keys used since the last clear(), latest first

vars == <<list_, map_, last, recent>>

Init == list_ = <<>> /\ map_ = {} /\ last = <<>> /\ recent = <<>>

NodeOf(k)  == CHOOSE i \in 1 .. Len(list_) : list_[i].key = k
Others(k)  == RemoveAt(list_, NodeOf(k))
Used(k, v) == last' = <<k, v>> /\ recent' = <<k>> \o RemoveFirst(recent, k)
Entry(k, v) == <<[key |-> k, value |-> v]>>

----------------------------------------------------------------------------
(* Fault: a hit leaves the entry where it is. *)
GetWithoutSplice(k) ==
    /\ k \in map_
    /\ Used(k, list_[NodeOf(k)].value)
    /\ UNCHANGED <<list_, map_>>

(* get() of a key the cache holds; of another it changes nothing. *)
Get(k) ==
    /\ k \in map_
    /\ list_' = Entry(k, list_[NodeOf(k)].value) \o Others(k)
    /\ Used(k, list_[NodeOf(k)].value)
    /\ UNCHANGED map_

(* Fault: the value of a key the cache holds is not replaced. *)
PutHeldKeepingValue(k, v) ==
    /\ k \in map_
    /\ list_' = Entry(k, list_[NodeOf(k)].value) \o Others(k)
    /\ Used(k, v)
    /\ UNCHANGED map_

PutHeld(k, v) ==
    /\ k \in map_
    /\ list_' = Entry(k, v) \o Others(k)
    /\ Used(k, v)
    /\ UNCHANGED map_

(* Fault: the entry that leaves the list stays in the map. *)
PutNewForgettingMap(k, v) ==
    /\ k \notin map_
    /\ LET full == Cardinality(map_) = capacity_ IN
       /\ list_' = Entry(k, v) \o (IF full THEN Front(list_) ELSE list_)
       /\ map_' = map_ \cup {k}
    /\ Used(k, v)

PutNew(k, v) ==
    /\ k \notin map_
    /\ LET full == Cardinality(map_) = capacity_ IN
       /\ list_' = Entry(k, v) \o (IF full THEN Front(list_) ELSE list_)
       /\ map_' = (IF full THEN map_ \ {Last(list_).key} ELSE map_) \cup {k}
    /\ Used(k, v)

Clear == list_' = <<>> /\ map_' = {} /\ last' = <<>> /\ recent' = <<>>

Next == \/ \E k \in Key : Get(k)
        \/ \E k \in Key, v \in Value : PutHeld(k, v) \/ PutNew(k, v)
        \/ Clear

Spec == Init /\ [][Next]_vars

----------------------------------------------------------------------------
(* The map has a node for exactly the entries of the list, one for each.    *)
MapMatchesList ==
    /\ map_ = {list_[i].key : i \in 1 .. Len(list_)}
    /\ \A i, j \in 1 .. Len(list_) : list_[i].key = list_[j].key => i = j

(* The cache holds the capacity_ keys used last, in the order of their use, *)
(* whatever mixture of get() and put() used them.                           *)
HoldsTheMostRecent ==
    /\ Len(list_) = IF Len(recent) <= capacity_ THEN Len(recent) ELSE capacity_
    /\ \A i \in 1 .. Len(list_) : list_[i].key = recent[i]

(* The cache is one that CachePolicy describes: every entry has the value   *)
(* last put under its key, one that was evicted does not come back, and a   *)
(* put() of a key it holds evicts none.                                     *)
Contents == [k \in map_ |-> list_[NodeOf(k)].value]
Cache == INSTANCE BoundedCache WITH Capacity <- capacity_, contents <- Contents,
                                  MakesRoomFirst <- FALSE
CacheSpec == Cache!Spec
=============================================================================
