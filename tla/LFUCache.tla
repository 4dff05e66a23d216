------------------------------ MODULE LFUCache ------------------------------
(***************************************************************************)
(* tiny_cache::LFUCache: the keys used equally often are in one list, most *)
(* recently used first; min_freq_ says from which list to evict.  A node   *)
(* keeps its identity when it is spliced, so list_iter_map_ is modelled by *)
(* the set of keys it has an iterator for.                                 *)
(*                                                                         *)
(* capacity_ is an int32_t: a negative one is accepted and never reached,  *)
(* it is modelled by a capacity larger than the number of keys.            *)
(***************************************************************************)
EXTENDS CachePolicy

CONSTANT MaxFreq              \* bound: no key is used more often than this

VARIABLES cache_data_,        \* from the keys held to their [value, freq]
          freq_lists_,        \* from frequencies to lists of keys
          list_iter_map_,
          min_freq_,
          last,               \* the key and value last put or got
          recent              \* history: the keys held, last used first

vars == <<cache_data_, freq_lists_, list_iter_map_, min_freq_, last, recent>>

Init == /\ cache_data_ = <<>>
        /\ freq_lists_ = <<>>
        /\ list_iter_map_ = {}
        /\ min_freq_ = 0
        /\ last = <<>>
        /\ recent = <<>>

With(f, x, y) == [z \in DOMAIN f \cup {x} |-> IF z = x THEN y ELSE f[z]]

(* getListByFreq() creates the list if there is none of that frequency. *)
getListByFreq(lists, freq) == IF freq \in DOMAIN lists THEN lists[freq] ELSE <<>>

(* Fault: min_freq_ is never moved again. *)
KeepMinFreq(lists, min, possible_new_freq) ==
    IF min = 0 THEN possible_new_freq ELSE min

(* updateMinFreq(): min_freq_ moves only when its list is empty. *)
updateMinFreq(lists, min, possible_new_freq) ==
    IF min = 0 \/ (min \in DOMAIN lists /\ lists[min] = <<>>)
    THEN possible_new_freq
    ELSE min

----------------------------------------------------------------------------
(* Fault: the key goes to the back of the list of its new frequency. *)
PromoteToBack(data, lists, k) ==
    LET f == data[k].freq
        old == With(lists, f, RemoveFirst(lists[f], k))
    IN  With(old, f + 1, Append(getListByFreq(old, f + 1), k))

(* The splice that get() and put() share: from one list to the next. *)
Promote(data, lists, k) ==
    LET f == data[k].freq
        old == With(lists, f, RemoveFirst(lists[f], k))
    IN  With(old, f + 1, <<k>> \o getListByFreq(old, f + 1))

(* get() of a key the cache holds; of another it changes nothing. *)
Get(k) ==
    /\ k \in DOMAIN cache_data_
    /\ cache_data_[k].freq < MaxFreq
    /\ freq_lists_' = Promote(cache_data_, freq_lists_, k)
    /\ cache_data_' = [cache_data_ EXCEPT ![k].freq = @ + 1]
    /\ min_freq_' = updateMinFreq(freq_lists_', min_freq_, cache_data_'[k].freq)
    /\ last' = <<k, cache_data_[k].value>>
    /\ recent' = <<k>> \o RemoveFirst(recent, k)
    /\ UNCHANGED list_iter_map_

(* Fault: the cache is full one entry too late. *)
EvictedLate ==
    IF /\ Cardinality(DOMAIN cache_data_) > capacity_
       /\ min_freq_ \in DOMAIN freq_lists_
       /\ freq_lists_[min_freq_] # <<>>
    THEN {Last(freq_lists_[min_freq_])}
    ELSE {}

(* What a put() evicts before it looks its key up: the last key of the list *)
(* of min_freq_, if the cache is full and there is one.                     *)
Evicted ==
    IF /\ Cardinality(DOMAIN cache_data_) = capacity_
       /\ min_freq_ \in DOMAIN freq_lists_
       /\ freq_lists_[min_freq_] # <<>>
    THEN {Last(freq_lists_[min_freq_])}
    ELSE {}

(* Fault: the evicted key keeps its node in the list. *)
ListsKeepingEvicted == freq_lists_

ListsAfterEviction ==
    IF Evicted = {} THEN freq_lists_
    ELSE [freq_lists_ EXCEPT ![min_freq_] = Front(@)]

RecentAfterEviction ==
    IF Evicted = {} THEN recent ELSE RemoveFirst(recent, Last(freq_lists_[min_freq_]))

DataAfterEviction == [x \in DOMAIN cache_data_ \ Evicted |-> cache_data_[x]]

Put(k, v) ==
    /\ k \in DOMAIN DataAfterEviction => cache_data_[k].freq < MaxFreq
    /\ IF k \in DOMAIN DataAfterEviction
       THEN /\ freq_lists_' = Promote(DataAfterEviction, ListsAfterEviction, k)
            /\ cache_data_' = [DataAfterEviction EXCEPT ![k].value = v, ![k].freq = @ + 1]
       ELSE /\ freq_lists_' = With(ListsAfterEviction, 1,
                                   <<k>> \o getListByFreq(ListsAfterEviction, 1))
            /\ cache_data_' = With(DataAfterEviction, k, [value |-> v, freq |-> 1])
    /\ list_iter_map_' = (list_iter_map_ \ Evicted) \cup {k}
    /\ min_freq_' = updateMinFreq(freq_lists_', min_freq_, cache_data_'[k].freq)
    /\ last' = <<k, v>>
    /\ recent' = <<k>> \o RemoveFirst(RecentAfterEviction, k)

Clear ==
    /\ cache_data_' = <<>> /\ freq_lists_' = <<>> /\ list_iter_map_' = {}
    /\ min_freq_' = 0
    /\ last' = <<>> /\ recent' = <<>>

Next == \/ \E k \in Key : Get(k)
        \/ \E k \in Key, v \in Value : Put(k, v)
        \/ Clear

Spec == Init /\ [][Next]_vars

----------------------------------------------------------------------------
(* The three maps agree: a key has an iterator exactly if it has a value,   *)
(* and its node is in the list of its frequency, once, and in no other.     *)
MapsAgree ==
    /\ list_iter_map_ = DOMAIN cache_data_
    /\ \A f \in DOMAIN freq_lists_ : \A i \in 1 .. Len(freq_lists_[f]) :
         LET k == freq_lists_[f][i] IN
         /\ k \in DOMAIN cache_data_ /\ cache_data_[k].freq = f
         /\ \A j \in 1 .. Len(freq_lists_[f]) : freq_lists_[f][j] = k => j = i
    /\ \A k \in DOMAIN cache_data_ :
         LET f == cache_data_[k].freq IN
         f \in DOMAIN freq_lists_ /\ Contains(freq_lists_[f], k)

(* A full cache can always evict: the list of min_freq_ is not empty.       *)
SomethingToEvict ==
    cache_data_ # <<>> => /\ min_freq_ \in DOMAIN freq_lists_
                          /\ freq_lists_[min_freq_] # <<>>

(* What put() evicts to make room is, of the keys used as often, the one    *)
(* not used for longest.                                                    *)
Before(x, y) == \E i, j \in 1 .. Len(recent) : i < j /\ recent[i] = x /\ recent[j] = y
Leaving      == {k \in DOMAIN cache_data_ \ DOMAIN cache_data_' : cache_data_' # <<>>}
EvictsTheOldest ==
    [][\A k \in Leaving : \A x \in DOMAIN cache_data_ :
         x # k /\ cache_data_[x].freq = cache_data_[k].freq => Before(x, k)]_vars

(* "remove min freq element" (lfu_cache.h): what put() evicts was used no   *)
(* more often than any other key.                                           *)
EvictsTheLeastFrequent ==
    [][\A k \in Leaving : \A x \in DOMAIN cache_data_ :
         cache_data_[k].freq <= cache_data_[x].freq]_vars

(* The cache is one that CachePolicy describes, and every entry has the     *)
(* value last put under its key; but a put() of a key it holds may evict    *)
(* one as well, for put() makes room before it looks the key up.            *)
Contents == [k \in DOMAIN cache_data_ |-> cache_data_[k].value]
Cache == INSTANCE BoundedCache WITH Capacity <- capacity_, contents <- Contents,
                                  MakesRoomFirst <- TRUE
CacheSpec == Cache!Spec
=============================================================================
