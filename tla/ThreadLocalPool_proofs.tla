----------------------- MODULE ThreadLocalPool_proofs -----------------------
(***************************************************************************)
(* Safety of the thread-local pool, and of what is built on it: the general *)
(* pool and the threaded test, for any number of threads, pools and blocks; *)
(* and the refinement by the linked pool, as MCPools has it.                *)
(***************************************************************************)
EXTENDS MCPools, Integers, SequenceTheorems, FiniteSetTheorems, WellFoundedInduction,
        TLAPS

----------------------------------------------------------------------------
(* Lists. *)
Distinct(s)  == \A i, j \in 1 .. Len(s) : s[i] = s[j] => i = j
OnList(s, b) == \E i \in 1 .. Len(s) : s[i] = b

(* What is pushed onto a list is on it, once if it was not there before.    *)
LEMMA PushedOnto ==
    ASSUME NEW S, NEW s \in Seq(S), NEW b \in S
    PROVE  /\ <<b>> \o s \in Seq(S) /\ Len(s) \in Nat /\ Len(<<b>> \o s) = Len(s) + 1
           /\ <<b>> \o s # <<>>
           /\ \A c : OnList(<<b>> \o s, c) <=> c = b \/ OnList(s, c)
           /\ Distinct(s) /\ ~OnList(s, b) => Distinct(<<b>> \o s)
<1> DEFINE p == <<b>>
           t == p \o s
           n == Len(s)
<1>1. p \in Seq(S) /\ Len(p) = 1 /\ p[1] = b
  OBVIOUS
<1>2. n \in Nat
  BY LenProperties
<1> HIDE DEF p
<1>3. /\ t \in Seq(S) /\ Len(t) = Len(p) + n
      /\ \A i \in 1 .. Len(p) + n : t[i] = IF i <= Len(p) THEN p[i] ELSE s[i - Len(p)]
  BY <1>1, ConcatProperties
<1>4. Len(t) = n + 1 /\ t[1] = b /\ \A i \in 2 .. n + 1 : t[i] = s[i - 1]
  BY <1>1, <1>2, <1>3
<1> HIDE DEF t
<1>5. ASSUME NEW c PROVE OnList(t, c) <=> c = b \/ OnList(s, c)
  <2>1. ASSUME NEW i \in 1 .. n, s[i] = c PROVE OnList(t, c)
    <3>1. i + 1 \in 2 .. n + 1 /\ i + 1 \in 1 .. Len(t) /\ (i + 1) - 1 = i  BY <2>1, <1>2, <1>4
    <3>2. t[i + 1] = c  BY <3>1, <2>1, <1>4
    <3>3. QED  BY <3>1, <3>2 DEF OnList
  <2>2. ASSUME NEW i \in 1 .. n + 1, t[i] = c PROVE c = b \/ OnList(s, c)
    <3>1. CASE i = 1  BY <3>1, <2>2, <1>4
    <3>2. CASE i # 1
      <4>1. i \in 2 .. n + 1 /\ i - 1 \in 1 .. n  BY <3>2, <1>2
      <4>2. s[i - 1] = c  BY <4>1, <2>2, <1>4
      <4>3. QED  BY <4>1, <4>2 DEF OnList
    <3>3. QED  BY <3>1, <3>2
  <2>3. c = b => OnList(t, c)
    <3>1. 1 \in 1 .. Len(t)  BY <1>2, <1>4
    <3>2. QED  BY <3>1, <1>4 DEF OnList
  <2>4. QED  BY <2>1, <2>2, <2>3, <1>4 DEF OnList
<1>6. ASSUME Distinct(s), ~OnList(s, b) PROVE Distinct(t)
  <2>1. ASSUME NEW i \in 1 .. n + 1, NEW j \in 1 .. n + 1, t[i] = t[j] PROVE i = j
    <3>1. CASE i = 1 /\ j = 1  BY <3>1
    <3>2. CASE i # 1 /\ j # 1
      <4>1. i - 1 \in 1 .. n /\ j - 1 \in 1 .. n /\ t[i] = s[i - 1] /\ t[j] = s[j - 1]
        BY <3>2, <1>2, <1>4
      <4>2. i - 1 = j - 1  BY <4>1, <2>1, <1>6 DEF Distinct
      <4>3. QED  BY <4>2
    <3>3. CASE i = 1 /\ j # 1
      <4>1. j - 1 \in 1 .. n /\ t[j] = s[j - 1]  BY <3>3, <1>2, <1>4
      <4>2. QED  BY <4>1, <3>3, <2>1, <1>4, <1>6 DEF OnList
    <3>4. CASE i # 1 /\ j = 1
      <4>1. i - 1 \in 1 .. n /\ t[i] = s[i - 1]  BY <3>4, <1>2, <1>4
      <4>2. QED  BY <4>1, <3>4, <2>1, <1>4, <1>6 DEF OnList
    <3>5. QED  BY <3>1, <3>2, <3>3, <3>4
  <2>2. QED  BY <2>1, <1>4 DEF Distinct
<1>7. t # <<>>
  BY <1>2, <1>4
<1>8. QED  BY <1>2, <1>3, <1>4, <1>5, <1>6, <1>7 DEF p, t

(* What is taken from the head of a list without repetition is off it.      *)
LEMMA TakenOff ==
    ASSUME NEW S, NEW s \in Seq(S), s # <<>>
    PROVE  /\ Head(s) \in S /\ OnList(s, Head(s))
           /\ Tail(s) \in Seq(S) /\ Len(s) \in Nat /\ Len(Tail(s)) = Len(s) - 1
           /\ Distinct(s) => /\ Distinct(Tail(s))
                             /\ \A c : OnList(Tail(s), c) <=> OnList(s, c) /\ c # Head(s)
<1> DEFINE t == Tail(s)
           n == Len(s)
<1>1. n \in Nat \ {0}
  BY EmptySeq
<1>2. /\ t \in Seq(S) /\ Len(t) = n - 1
      /\ \A i \in 1 .. Len(t) : t[i] = s[i + 1]
  BY HeadTailProperties
<1>3. Head(s) = s[1] /\ s[1] \in S /\ 1 \in 1 .. n
  BY <1>1, ElementOfSeq
<1> HIDE DEF t
<1>4. OnList(s, Head(s))
  BY <1>3 DEF OnList
<1>5. ASSUME Distinct(s) PROVE Distinct(t)
  <2>1. ASSUME NEW i \in 1 .. n - 1, NEW j \in 1 .. n - 1, t[i] = t[j] PROVE i = j
    <3>1. i + 1 \in 1 .. n /\ j + 1 \in 1 .. n /\ s[i + 1] = s[j + 1]
      BY <2>1, <1>1, <1>2
    <3>2. i + 1 = j + 1  BY <3>1, <1>5 DEF Distinct
    <3>3. QED  BY <3>2
  <2>2. QED  BY <2>1, <1>2 DEF Distinct
<1>6. ASSUME Distinct(s), NEW c PROVE OnList(t, c) <=> OnList(s, c) /\ c # s[1]
  <2>1. ASSUME NEW i \in 1 .. n - 1, t[i] = c PROVE OnList(s, c) /\ c # s[1]
    <3>1. i + 1 \in 1 .. n /\ i + 1 # 1 /\ s[i + 1] = c  BY <2>1, <1>1, <1>2
    <3>2. QED  BY <3>1, <1>3, <1>6 DEF OnList, Distinct
  <2>2. ASSUME NEW i \in 1 .. n, s[i] = c, c # s[1] PROVE OnList(t, c)
    <3>1. i - 1 \in 1 .. n - 1 /\ (i - 1) + 1 = i  BY <2>2, <1>1
    <3>2. t[i - 1] = c  BY <3>1, <2>2, <1>2
    <3>3. QED  BY <3>1, <3>2, <1>2 DEF OnList
  <2>3. QED  BY <2>1, <2>2, <1>2 DEF OnList
<1>7. QED  BY <1>1, <1>2, <1>3, <1>4, <1>5, <1>6 DEF t

----------------------------------------------------------------------------
(* The thread-local pool. *)
LocalTypeOK == /\ central_pool_ \in [Pools -> Nat]
               /\ life \in [Pools -> {"unborn", "alive", "destroyed"}]
               /\ local_free_list_ \in [ThreadIds -> Seq(Blocks)]
               /\ running \subseteq ThreadIds
               /\ pc \in [ThreadIds -> {"idle", "fetch", "take"}]
               /\ pool = [t \in ThreadIds |-> pool[t]]
               /\ fetched \in [ThreadIds -> Nat]
               /\ inUse \subseteq Blocks

(* A call is one of a pool that lives, and a pool whose constructor has not *)
(* run has no blocks.                                                       *)
Lives == /\ \A t \in ThreadIds : pc[t] # "idle" => pool[t] \in Pools /\ life[pool[t]] = "alive"
         /\ \A p \in Pools : central_pool_[p] <= BlockCount[p]
         /\ \A b \in Blocks : life[b.pool] = "unborn" =>
              b \notin inUse /\ \A t \in ThreadIds : ~InList(t, b)

LocalInv == LocalTypeOK /\ Lives /\ EachBlockOnce

(* The elements of Blocks are the pairs of a pool and one of its numbers.   *)
LEMMA BlocksOfPools ==
    /\ \A b \in Blocks : b.pool \in Pools /\ b.nr \in 1 .. BlockCount[b.pool]
    /\ \A p \in Pools : \A n \in 1 .. BlockCount[p] : [pool |-> p, nr |-> n] \in Blocks
    /\ \A b \in Blocks : b = [pool |-> b.pool, nr |-> b.nr]
<1>1. ASSUME NEW b \in Blocks
      PROVE  /\ b.pool \in Pools /\ b.nr \in 1 .. BlockCount[b.pool]
             /\ b = [pool |-> b.pool, nr |-> b.nr]
  <2>1. PICK p \in Pools : b \in [pool : {p}, nr : 1 .. BlockCount[p]]
    BY DEF Blocks
  <2>2. QED  BY <2>1
<1>2. ASSUME NEW p \in Pools, NEW n \in 1 .. BlockCount[p] PROVE [pool |-> p, nr |-> n] \in Blocks
  BY DEF Blocks
<1>3. QED  BY <1>1, <1>2

(* EachBlockOnce in terms of lists. *)
LEMMA OnceByLists ==
    EachBlockOnce <=>
      /\ \A t \in ThreadIds : Distinct(local_free_list_[t])
      /\ \A t \in ThreadIds, b \in Blocks : OnList(local_free_list_[t], b) =>
           /\ b \notin inUse /\ ~InCentral(b)
           /\ \A u \in ThreadIds : OnList(local_free_list_[u], b) => u = t
      /\ \A b \in inUse : ~InCentral(b)
BY DEF EachBlockOnce, Distinct, OnList, InList

LEMMA InitLocal == Init => LocalInv
<1> SUFFICES ASSUME Init PROVE LocalInv
  OBVIOUS
<1>1. LocalTypeOK
  BY DEF Init, LocalTypeOK
<1>2. \A t \in ThreadIds : Len(local_free_list_[t]) = 0
  BY DEF Init
<1>3. Lives
  BY <1>2, BlockCountAssumption DEF Init, Lives, InList
<1>4. EachBlockOnce
  BY <1>2 DEF Init, EachBlockOnce, InList
<1>5. QED  BY <1>1, <1>3, <1>4 DEF LocalInv

----------------------------------------------------------------------------
(* What the steps do to the lists. *)
Lengthened(t) == /\ local_free_list_'[t] # <<>>
                 /\ Len(local_free_list_[t]) \in Nat
                 /\ Len(local_free_list_'[t]) = Len(local_free_list_[t]) + 1
                 /\ \A u \in ThreadIds \ {t} : local_free_list_'[u] = local_free_list_[u]
Shortened(t)  == /\ Len(local_free_list_[t]) \in Nat
                 /\ Len(local_free_list_'[t]) = Len(local_free_list_[t]) - 1
                 /\ \A u \in ThreadIds \ {t} : local_free_list_'[u] = local_free_list_[u]

LEMMA ListPushed ==
    ASSUME LocalInv, NEW t \in ThreadIds, NEW b \in Blocks, Push(t, b),
           \A u \in ThreadIds : ~InList(u, b)
    PROVE  /\ local_free_list_' \in [ThreadIds -> Seq(Blocks)]
           /\ Lengthened(t)
           /\ \A u \in ThreadIds : Distinct(local_free_list_'[u])
           /\ \A u \in ThreadIds : \A c : OnList(local_free_list_'[u], c)
                <=> OnList(local_free_list_[u], c) \/ (u = t /\ c = b)
<1>1. local_free_list_ \in [ThreadIds -> Seq(Blocks)]
      /\ \A u \in ThreadIds : Distinct(local_free_list_[u]) /\ ~OnList(local_free_list_[u], b)
  BY OnceByLists DEF LocalInv, LocalTypeOK, InList, OnList
<1>2. /\ local_free_list_'[t] = <<b>> \o local_free_list_[t]
      /\ \A u \in ThreadIds \ {t} : local_free_list_'[u] = local_free_list_[u]
  BY <1>1 DEF Push
<1> DEFINE s == local_free_list_[t]
<1>3. s \in Seq(Blocks)  BY <1>1
<1>4. /\ <<b>> \o s \in Seq(Blocks) /\ Len(s) \in Nat /\ Len(<<b>> \o s) = Len(s) + 1
      /\ <<b>> \o s # <<>>
      /\ \A c : OnList(<<b>> \o s, c) <=> c = b \/ OnList(s, c)
      /\ Distinct(<<b>> \o s)
  BY <1>1, <1>3, PushedOnto
<1>5. local_free_list_' \in [ThreadIds -> Seq(Blocks)]
  BY <1>1, <1>4 DEF Push
<1>6. QED  BY <1>1, <1>2, <1>4, <1>5 DEF Lengthened

LEMMA ListTaken ==
    ASSUME LocalInv, NEW t \in ThreadIds, local_free_list_[t] # <<>>,
           local_free_list_' = [local_free_list_ EXCEPT ![t] = Tail(@)]
    PROVE  /\ Head(local_free_list_[t]) \in Blocks
           /\ OnList(local_free_list_[t], Head(local_free_list_[t]))
           /\ local_free_list_' \in [ThreadIds -> Seq(Blocks)]
           /\ Shortened(t)
           /\ \A u \in ThreadIds : Distinct(local_free_list_'[u])
           /\ \A u \in ThreadIds : \A c : OnList(local_free_list_'[u], c)
                <=> OnList(local_free_list_[u], c) /\ ~(u = t /\ c = Head(local_free_list_[t]))
<1>1. local_free_list_ \in [ThreadIds -> Seq(Blocks)]
      /\ \A u \in ThreadIds : Distinct(local_free_list_[u])
  BY OnceByLists DEF LocalInv, LocalTypeOK
<1>2. /\ local_free_list_'[t] = Tail(local_free_list_[t])
      /\ \A u \in ThreadIds \ {t} : local_free_list_'[u] = local_free_list_[u]
  BY <1>1
<1> DEFINE s == local_free_list_[t]
<1>3. s \in Seq(Blocks)  BY <1>1
<1>4. /\ Head(s) \in Blocks /\ OnList(s, Head(s))
      /\ Tail(s) \in Seq(Blocks) /\ Len(s) \in Nat /\ Len(Tail(s)) = Len(s) - 1
      /\ Distinct(Tail(s))
      /\ \A c : OnList(Tail(s), c) <=> OnList(s, c) /\ c # Head(s)
  BY <1>1, <1>3, TakenOff
<1>5. local_free_list_' \in [ThreadIds -> Seq(Blocks)]
  BY <1>1, <1>4
<1>6. QED  BY <1>1, <1>2, <1>4, <1>5 DEF Shortened

----------------------------------------------------------------------------
(* Nobody, neither a list nor a user, holds a block in the memory of p. *)
Unheld(p) == \A b \in Blocks : b.pool = p => b \notin inUse /\ \A t \in ThreadIds : ~InList(t, b)

LEMMA UnbornIsUnheld == ASSUME LocalInv, NEW p \in Pools, life[p] = "unborn" PROVE Unheld(p)
BY DEF LocalInv, Lives, Unheld

(* Pools are created: none of their blocks was anywhere. *)
LEMMA CreatedStep ==
    ASSUME LocalInv, NEW P \in SUBSET Pools, \A p \in P : Unheld(p),
           life' = [p \in Pools |-> IF p \in P THEN "alive" ELSE life[p]],
           central_pool_' = [p \in Pools |-> IF p \in P THEN BlockCount[p] ELSE central_pool_[p]],
           UNCHANGED <<local_free_list_, running, call, inUse>>
    PROVE  LocalInv'
<1> USE DEF call
<1>1. LocalTypeOK'
  BY BlockCountAssumption DEF LocalInv, LocalTypeOK
<1>2. Lives'
  BY BlockCountAssumption, BlocksOfPools DEF LocalInv, LocalTypeOK, Lives, InList
<1>3. EachBlockOnce'
  <2>1. ASSUME NEW b \in Blocks, b \in inUse \/ \E t \in ThreadIds : InList(t, b)
        PROVE  InCentral(b)' <=> InCentral(b)
    <3>1. b.pool \in Pools /\ b.pool \notin P  BY <2>1, BlocksOfPools DEF Unheld
    <3>2. QED  BY <3>1 DEF InCentral
  <2>2. inUse \subseteq Blocks
    BY DEF LocalInv, LocalTypeOK
  <2>3. \A t \in ThreadIds, b \in Blocks : InList(t, b)' <=> InList(t, b)
    BY DEF InList
  <2>4. QED  BY <2>1, <2>2, <2>3 DEF LocalInv, EachBlockOnce
<1>4. QED  BY <1>1, <1>2, <1>3 DEF LocalInv

(* A pool is destroyed: nobody is in a call of it, and its blocks may stay  *)
(* in the lists of threads.                                                 *)
LEMMA DestroyedStep ==
    ASSUME LocalInv, NEW P \in SUBSET Pools,
           \A t \in ThreadIds : pc[t] # "idle" => pool[t] \notin P,
           life' = [p \in Pools |-> IF p \in P THEN "destroyed" ELSE life[p]],
           central_pool_' = [p \in Pools |-> IF p \in P THEN 0 ELSE central_pool_[p]],
           UNCHANGED <<local_free_list_, running, call, inUse>>
    PROVE  LocalInv'
<1> USE DEF call
<1>1. LocalTypeOK'
  BY DEF LocalInv, LocalTypeOK
<1>2. Lives'
  BY BlockCountAssumption, BlocksOfPools DEF LocalInv, LocalTypeOK, Lives, InList
<1>3. EachBlockOnce'
  <2>1. ASSUME NEW b \in Blocks PROVE InCentral(b)' => InCentral(b)
    <3>1. b.pool \in Pools /\ b.nr \in Nat \ {0}
      BY BlocksOfPools, BlockCountAssumption
    <3>2. QED  BY <3>1 DEF InCentral
  <2>2. QED  BY <2>1 DEF LocalInv, LocalTypeOK, EachBlockOnce, InList
<1>4. QED  BY <1>1, <1>2, <1>3 DEF LocalInv

LEMMA StartThreadStep == ASSUME LocalInv, NEW t \in ThreadIds, StartThread(t) PROVE LocalInv'
BY DEF StartThread, LocalInv, LocalTypeOK, Lives, EachBlockOnce, InList, InCentral, call

LEMMA ExitThreadStep == ASSUME LocalInv, NEW t \in ThreadIds, ExitThread(t) PROVE LocalInv'
<1> USE DEF ExitThread, call
<1>1. LocalTypeOK'
  BY DEF LocalInv, LocalTypeOK
<1>2. ASSUME NEW u \in ThreadIds
      PROVE  \/ u = t /\ Len(local_free_list_'[u]) = 0
             \/ local_free_list_'[u] = local_free_list_[u]
  BY DEF LocalInv, LocalTypeOK
<1>3. \A u \in ThreadIds : \A b \in Blocks : InList(u, b)' => InList(u, b)
  BY <1>2 DEF InList
<1>4. Lives'
  BY <1>3 DEF LocalInv, Lives
<1>5. EachBlockOnce'
  BY <1>2, <1>3 DEF LocalInv, LocalTypeOK, EachBlockOnce, InCentral
<1>6. QED  BY <1>1, <1>4, <1>5 DEF LocalInv

LEMMA AllocateStep ==
    ASSUME LocalInv, NEW t \in ThreadIds, NEW p \in Pools, Allocate(t, p) PROVE LocalInv'
<1> USE DEF Allocate, Goto
<1>1. LocalTypeOK'
  BY DEF LocalInv, LocalTypeOK
<1>2. Lives'
  BY DEF LocalInv, LocalTypeOK, Lives, InList
<1>3. EachBlockOnce'
  BY DEF LocalInv, EachBlockOnce, InList, InCentral
<1>4. QED  BY <1>1, <1>2, <1>3 DEF LocalInv

(* The block fetched is the last one of the central pool, which it leaves.  *)
LEMMA FetchOneStep ==
    ASSUME LocalInv, NEW t \in ThreadIds, FetchOne(t)
    PROVE  /\ LocalInv'
           /\ pool[t] \in Pools
           /\ \A u \in ThreadIds, c \in Blocks : InList(u, c)' <=>
                InList(u, c) \/ (u = t /\ c = [pool |-> pool[t], nr |-> central_pool_[pool[t]]])
           /\ Lengthened(t)
<1> USE DEF FetchOne, MayFetch
<1> DEFINE p == pool[t]
           n == central_pool_[p]
           b == [pool |-> p, nr |-> n]
<1>1. p \in Pools /\ life[p] = "alive" /\ n \in 1 .. BlockCount[p] /\ n \in Nat
  <2>1. p \in Pools /\ life[p] = "alive"
    BY DEF LocalInv, LocalTypeOK, Lives
  <2>2. n \in Nat /\ n <= BlockCount[p] /\ n > 0 /\ BlockCount[p] \in Nat
    BY <2>1, BlockCountAssumption DEF LocalInv, LocalTypeOK, Lives
  <2>3. QED  BY <2>1, <2>2
<1>2. b \in Blocks /\ b.pool = p /\ b.nr = n
  BY <1>1, BlocksOfPools
<1> HIDE DEF b
<1>3. Push(t, b)
  BY DEF b
<1>4. b \notin inUse /\ \A u \in ThreadIds : ~InList(u, b)
  BY <1>1, <1>2 DEF LocalInv, EachBlockOnce, InCentral
<1>5. /\ local_free_list_' \in [ThreadIds -> Seq(Blocks)]
      /\ \A u \in ThreadIds : Distinct(local_free_list_'[u])
      /\ \A u \in ThreadIds : \A c : OnList(local_free_list_'[u], c)
           <=> OnList(local_free_list_[u], c) \/ (u = t /\ c = b)
      /\ Lengthened(t)
  BY <1>2, <1>3, <1>4, ListPushed
<1>l. \A u \in ThreadIds, c \in Blocks : InList(u, c)' <=> InList(u, c) \/ (u = t /\ c = b)
  BY <1>5 DEF InList, OnList
<1>6. n - 1 \in Nat
  BY <1>1
<1>c. \A q \in Pools : central_pool_'[q] = IF q = p THEN n - 1 ELSE central_pool_[q]
  BY <1>1 DEF LocalInv, LocalTypeOK
<1>7. LocalTypeOK'
  <2>1. central_pool_' \in [Pools -> Nat]
    BY <1>1, <1>6 DEF LocalInv, LocalTypeOK
  <2>2. fetched' \in [ThreadIds -> Nat]
    BY DEF LocalInv, LocalTypeOK
  <2>3. QED  BY <2>1, <2>2, <1>5 DEF LocalInv, LocalTypeOK
<1>8. ASSUME NEW c \in Blocks PROVE InCentral(c)' <=> InCentral(c) /\ c # b
  <2>1. c.pool \in Pools /\ c.nr \in Nat /\ (c = b <=> c.pool = p /\ c.nr = n)
    BY <1>2, BlocksOfPools, BlockCountAssumption
  <2>2. QED
    BY <2>1, <1>1, <1>c DEF InCentral, LocalInv, LocalTypeOK
<1>9. Lives'
  <2>1. \A q \in Pools : central_pool_'[q] <= BlockCount[q]
    <3>1. \A q \in Pools : central_pool_[q] <= BlockCount[q] /\ central_pool_[q] \in Nat
      BY DEF LocalInv, LocalTypeOK, Lives
    <3>2. n - 1 <= BlockCount[p]
      BY <1>1, BlockCountAssumption
    <3>3. QED  BY <3>1, <3>2, <1>c
  <2>2. QED  BY <2>1, <1>l, <1>1, <1>2 DEF LocalInv, LocalTypeOK, Lives
<1>10. EachBlockOnce'
  <2>1. EachBlockOnce' <=>
          /\ \A u \in ThreadIds : Distinct(local_free_list_'[u])
          /\ \A u \in ThreadIds, c \in Blocks : OnList(local_free_list_'[u], c) =>
               /\ c \notin inUse' /\ ~InCentral(c)'
               /\ \A v \in ThreadIds : OnList(local_free_list_'[v], c) => v = u
          /\ \A c \in inUse' : ~InCentral(c)'
    BY DEF EachBlockOnce, Distinct, OnList, InList
  <2>2. \A u \in ThreadIds : ~OnList(local_free_list_[u], b)
    BY <1>4 DEF InList, OnList
  <2>3. inUse \subseteq Blocks
    BY DEF LocalInv, LocalTypeOK
  <2>4. QED
    BY <2>1, <2>2, <2>3, <1>4, <1>5, <1>8, OnceByLists DEF LocalInv
<1>11. QED  BY <1>1, <1>5, <1>l, <1>7, <1>9, <1>10 DEF LocalInv, b

LEMMA FetchEndStep == ASSUME LocalInv, NEW t \in ThreadIds, FetchEnd(t) PROVE LocalInv'
<1> USE DEF FetchEnd, Goto
<1>1. LocalTypeOK'
  BY DEF LocalInv, LocalTypeOK
<1>2. Lives'
  BY DEF LocalInv, LocalTypeOK, Lives, InList
<1>3. EachBlockOnce'
  BY DEF LocalInv, EachBlockOnce, InList, InCentral
<1>4. QED  BY <1>1, <1>2, <1>3 DEF LocalInv

LEMMA TakeStep ==
    ASSUME LocalInv, NEW t \in ThreadIds, Take(t)
    PROVE  /\ LocalInv'
           /\ Head(local_free_list_[t]) \in Blocks \ inUse
           /\ InList(t, Head(local_free_list_[t]))
           /\ inUse' = inUse \cup {Head(local_free_list_[t])}
           /\ \A u \in ThreadIds, c \in Blocks : InList(u, c)' <=>
                InList(u, c) /\ ~(u = t /\ c = Head(local_free_list_[t]))
           /\ Shortened(t)
<1> USE DEF Take
<1> DEFINE b == Head(local_free_list_[t])
<1>1. /\ b \in Blocks /\ OnList(local_free_list_[t], b)
      /\ local_free_list_' \in [ThreadIds -> Seq(Blocks)]
      /\ \A u \in ThreadIds : Distinct(local_free_list_'[u])
      /\ \A u \in ThreadIds : \A c : OnList(local_free_list_'[u], c)
           <=> OnList(local_free_list_[u], c) /\ ~(u = t /\ c = b)
      /\ Shortened(t)
  BY ListTaken
<1>2. inUse' = inUse \cup {b}
  OBVIOUS
<1> HIDE DEF b
<1>l. /\ InList(t, b)
      /\ \A u \in ThreadIds, c \in Blocks : InList(u, c)' <=> InList(u, c) /\ ~(u = t /\ c = b)
  BY <1>1 DEF InList, OnList
<1>n. b \notin inUse
  BY <1>1, <1>l DEF LocalInv, EachBlockOnce
<1>3. LocalTypeOK'
  BY <1>1, <1>2 DEF LocalInv, LocalTypeOK, Goto
<1>4. Lives'
  <2>1. QED  BY <1>l, <1>1, <1>2 DEF LocalInv, LocalTypeOK, Lives, Goto
<1>5. EachBlockOnce'
  <2>1. EachBlockOnce' <=>
          /\ \A u \in ThreadIds : Distinct(local_free_list_'[u])
          /\ \A u \in ThreadIds, c \in Blocks : OnList(local_free_list_'[u], c) =>
               /\ c \notin inUse' /\ ~InCentral(c)'
               /\ \A v \in ThreadIds : OnList(local_free_list_'[v], c) => v = u
          /\ \A c \in inUse' : ~InCentral(c)'
    BY DEF EachBlockOnce, Distinct, OnList, InList
  <2>2. \A c \in Blocks : InCentral(c)' <=> InCentral(c)
    BY DEF InCentral
  <2>3. inUse \subseteq Blocks
    BY DEF LocalInv, LocalTypeOK
  <2>4. QED  BY <2>1, <2>2, <2>3, <1>1, <1>2, OnceByLists DEF LocalInv
<1>6. QED  BY <1>1, <1>2, <1>l, <1>n, <1>3, <1>4, <1>5 DEF LocalInv, b

LEMMA TakeNoneStep == ASSUME LocalInv, NEW t \in ThreadIds, TakeNone(t) PROVE LocalInv'
<1> USE DEF TakeNone, Goto
<1>1. LocalTypeOK'
  BY DEF LocalInv, LocalTypeOK
<1>2. Lives'
  BY DEF LocalInv, LocalTypeOK, Lives, InList
<1>3. EachBlockOnce'
  BY DEF LocalInv, EachBlockOnce, InList, InCentral
<1>4. QED  BY <1>1, <1>2, <1>3 DEF LocalInv

(* A block in use is given back, in whichever thread. *)
LEMMA GivenBackStep ==
    ASSUME LocalInv, NEW t \in ThreadIds, NEW b \in inUse, inUse' = inUse \ {b}, Push(t, b),
           UNCHANGED <<central_pool_, life, running, call>>
    PROVE  /\ LocalInv'
           /\ \A u \in ThreadIds, c \in Blocks :
                InList(u, c)' <=> InList(u, c) \/ (u = t /\ c = b)
           /\ Lengthened(t)
<1> USE DEF call
<1>1. b \in Blocks /\ \A u \in ThreadIds : ~InList(u, b)
  BY DEF LocalInv, LocalTypeOK, EachBlockOnce
<1>2. /\ local_free_list_' \in [ThreadIds -> Seq(Blocks)]
      /\ \A u \in ThreadIds : Distinct(local_free_list_'[u])
      /\ \A u \in ThreadIds : \A c : OnList(local_free_list_'[u], c)
           <=> OnList(local_free_list_[u], c) \/ (u = t /\ c = b)
      /\ Lengthened(t)
  BY <1>1, ListPushed
<1>l. \A u \in ThreadIds, c \in Blocks : InList(u, c)' <=> InList(u, c) \/ (u = t /\ c = b)
  BY <1>2 DEF InList, OnList
<1>3. LocalTypeOK'
  BY <1>2 DEF LocalInv, LocalTypeOK
<1>4. Lives'
  <2>1. QED  BY <1>l, <1>1 DEF LocalInv, LocalTypeOK, Lives
<1>5. EachBlockOnce'
  <2>1. EachBlockOnce' <=>
          /\ \A u \in ThreadIds : Distinct(local_free_list_'[u])
          /\ \A u \in ThreadIds, c \in Blocks : OnList(local_free_list_'[u], c) =>
               /\ c \notin inUse' /\ ~InCentral(c)'
               /\ \A v \in ThreadIds : OnList(local_free_list_'[v], c) => v = u
          /\ \A c \in inUse' : ~InCentral(c)'
    BY DEF EachBlockOnce, Distinct, OnList, InList
  <2>2. \A u \in ThreadIds : ~OnList(local_free_list_[u], b)
    BY <1>1 DEF InList, OnList
  <2>3. \A c \in Blocks : InCentral(c)' <=> InCentral(c)
    BY DEF InCentral
  <2>4. inUse \subseteq Blocks
    BY DEF LocalInv, LocalTypeOK
  <2>5. QED  BY <2>1, <2>2, <2>3, <2>4, <1>1, <1>2, OnceByLists DEF LocalInv
<1>6. QED  BY <1>2, <1>l, <1>3, <1>4, <1>5 DEF LocalInv

LEMMA UnchangedStep == LocalInv /\ UNCHANGED vars => LocalInv'
BY DEF vars, call, LocalInv, LocalTypeOK, Lives, EachBlockOnce, InList, InCentral

(* The hypothesis of the theorem: malloc() makes no pool in memory of a     *)
(* destroyed one while lists or users hold blocks of it.                    *)
MemoryIsFresh == \A p \in Pools : CreatePool(p) => Unheld(p)

LEMMA CreatePoolStep ==
    ASSUME LocalInv, NEW p \in Pools, CreatePool(p), Unheld(p) PROVE LocalInv'
<1>1. /\ life' = [q \in Pools |-> IF q \in {p} THEN "alive" ELSE life[q]]
      /\ central_pool_' = [q \in Pools |-> IF q \in {p} THEN BlockCount[q]
                                           ELSE central_pool_[q]]
  BY DEF CreatePool, LocalInv, LocalTypeOK
<1>2. QED  BY <1>1, CreatedStep DEF CreatePool

LEMMA DestroyPoolStep == ASSUME LocalInv, NEW p \in Pools, DestroyPool(p) PROVE LocalInv'
<1>1. /\ life' = [q \in Pools |-> IF q \in {p} THEN "destroyed" ELSE life[q]]
      /\ central_pool_' = [q \in Pools |-> IF q \in {p} THEN 0 ELSE central_pool_[q]]
  BY DEF DestroyPool, LocalInv, LocalTypeOK
<1>2. QED  BY <1>1, DestroyedStep DEF DestroyPool

LEMMA NextLocal == LocalInv /\ [Next]_vars /\ MemoryIsFresh => LocalInv'
<1> SUFFICES ASSUME LocalInv, [Next]_vars, MemoryIsFresh PROVE LocalInv'
  OBVIOUS
<1>1. ASSUME NEW p \in Pools, CreatePool(p) PROVE LocalInv'
  BY <1>1, CreatePoolStep DEF MemoryIsFresh
<1>2. ASSUME NEW p \in Pools, DestroyPool(p) PROVE LocalInv'
  BY <1>2, DestroyPoolStep
<1>3. ASSUME NEW t \in ThreadIds, StartThread(t) \/ ExitThread(t) \/ InAllocate(t) PROVE LocalInv'
  BY <1>3, StartThreadStep, ExitThreadStep, FetchOneStep, FetchEndStep, TakeStep, TakeNoneStep
     DEF InAllocate
<1>4. ASSUME NEW t \in ThreadIds, NEW p \in Pools, Allocate(t, p) PROVE LocalInv'
  BY <1>4, AllocateStep
<1>5. ASSUME NEW t \in ThreadIds, NEW b \in Blocks, Deallocate(t, b) PROVE LocalInv'
  BY <1>5, GivenBackStep DEF Deallocate
<1>6. CASE UNCHANGED vars
  BY <1>6, UnchangedStep
<1>7. QED  BY <1>1, <1>2, <1>3, <1>4, <1>5, <1>6 DEF Next

(* Threads that fetch at the same time and give back each other's blocks    *)
(* never come to own the same block, whatever threads and pools come and    *)
(* go, as long as no pool is made in memory that is still held.  Without    *)
(* that it is not so: a list that outlives its pool (the destructor leaves  *)
(* local_free_list_ as it is) and the new pool then own the same blocks.    *)
THEOREM BlocksAreOwnedOnce == Spec /\ [][MemoryIsFresh]_vars => []EachBlockOnce
<1>1. LocalInv => EachBlockOnce  BY DEF LocalInv
<1>2. LocalInv /\ [Next]_vars /\ [MemoryIsFresh]_vars => LocalInv'
  BY NextLocal, UnchangedStep
<1>3. QED  BY <1>1, InitLocal, <1>2, PTL DEF Spec

----------------------------------------------------------------------------
(* The general pool.  Each thread may be confined to one class: the managed *)
(* sizes that it asks for and gives back are all of that class.             *)
ManagedSizes(t) == {size \in SizesOf[t] : size <= MAX_MANAGED_SIZE}
OneClassPerThread == \A t \in ThreadIds : \A s1, s2 \in ManagedSizes(t) :
    get_size_class_index(s1) = get_size_class_index(s2)

(* The header tells the blocks of the pools from the objects of malloc()    *)
(* while they are in use, and a thread in allocate() asks the pool of the   *)
(* class of the size.                                                       *)
HeadersOK ==
    /\ header = [b \in Blocks \cup Large |-> header[b]]
    /\ asked = [t \in ThreadIds |-> asked[t]]
    /\ objects \subseteq Blocks \cup Large
    /\ inUse = objects \ Large
    /\ \A b \in objects : header[b] # Link /\ (header[b] = System <=> b \in Large)
    /\ \A b \in Blocks \ objects : header[b] = Link
    /\ \A t \in ThreadIds : pc[t] # "idle" =>
         asked[t] \in ManagedSizes(t) /\ pool[t] = get_size_class_index(asked[t])

GeneralInv == LocalInv /\ HeadersOK

(* In a confined thread's list there are blocks of its class only, and a    *)
(* block in use is one of the class of the size that was asked for.         *)
ClassesOK ==
    /\ \A t \in ThreadIds, b \in Blocks : InList(t, b) =>
         \E size \in ManagedSizes(t) : b.pool = get_size_class_index(size)
    /\ \A b \in objects \ Large :
         /\ request[b] \in Nat /\ request[b] <= MAX_MANAGED_SIZE
         /\ b.pool = get_size_class_index(request[b])

(* The sizes of the blocks are the limits of the classes. *)
LEMMA BlockSizes ==
    /\ BlockSize(0) = 8 /\ BlockSize(1) = 16 /\ BlockSize(2) = 32 /\ BlockSize(3) = 64
    /\ BlockSize(4) = 128 /\ BlockSize(5) = 256 /\ BlockSize(6) = 512
    /\ \A i : i \in Classes <=> i \in {0, 1, 2, 3, 4, 5, 6}
<1>1. /\ 2 ^ 0 = 1 /\ 2 ^ 1 = 2 /\ 2 ^ 2 = 4 /\ 2 ^ 3 = 8 /\ 2 ^ 4 = 16 /\ 2 ^ 5 = 32
      /\ 2 ^ 6 = 64
  OBVIOUS
<1>2. QED  BY <1>1 DEF BlockSize, MIN_MANAGED_SIZE, Classes, NUM_SIZE_CLASSES

(* Every managed size has a class, whose blocks are large enough for it.    *)
LEMMA ClassOfSize ==
    ASSUME NEW size \in Nat, size <= MAX_MANAGED_SIZE
    PROVE  /\ get_size_class_index(size) \in Classes
           /\ size <= BlockSize(get_size_class_index(size))
<1> DEFINE Least(i) == size <= Limits[i + 1] /\ \A j \in 0 .. i - 1 : size > Limits[j + 1]
<1>1. /\ Limits[0 + 1] = 8 /\ Limits[1 + 1] = 16 /\ Limits[2 + 1] = 32 /\ Limits[3 + 1] = 64
      /\ Limits[4 + 1] = 128 /\ Limits[5 + 1] = 256 /\ Limits[6 + 1] = 512
  BY DEF Limits
<1>2. \A i \in Classes : Limits[i + 1] = BlockSize(i)
  BY <1>1, BlockSizes
<1>3. \E i \in Classes : Least(i)
  <2>1. /\ \A j \in 0 .. 1 - 1 : j = 0
        /\ \A j \in 0 .. 2 - 1 : j \in {0, 1}
        /\ \A j \in 0 .. 3 - 1 : j \in {0, 1, 2}
        /\ \A j \in 0 .. 4 - 1 : j \in {0, 1, 2, 3}
        /\ \A j \in 0 .. 5 - 1 : j \in {0, 1, 2, 3, 4}
        /\ \A j \in 0 .. 6 - 1 : j \in {0, 1, 2, 3, 4, 5}
    OBVIOUS
  <2>2. size <= 8 => Least(0)                    BY <1>1
  <2>3. size > 8 /\ size <= 16 => Least(1)       BY <1>1, <2>1
  <2>4. size > 16 /\ size <= 32 => Least(2)      BY <1>1, <2>1
  <2>5. size > 32 /\ size <= 64 => Least(3)      BY <1>1, <2>1
  <2>6. size > 64 /\ size <= 128 => Least(4)     BY <1>1, <2>1
  <2>7. size > 128 /\ size <= 256 => Least(5)    BY <1>1, <2>1
  <2>8. size > 256 /\ size <= 512 => Least(6)    BY <1>1, <2>1
  <2> HIDE DEF Least
  <2>9. QED  BY <2>2, <2>3, <2>4, <2>5, <2>6, <2>7, <2>8, BlockSizes DEF MAX_MANAGED_SIZE
<1>4. QED  BY <1>2, <1>3 DEF get_size_class_index

LEMMA ManagedSize ==
    ASSUME NEW t \in ThreadIds, NEW size \in ManagedSizes(t)
    PROVE  size \in Nat /\ size <= MAX_MANAGED_SIZE
BY PoolsAssumption DEF ManagedSizes

(* malloc() returns no block of a pool. *)
LEMMA NotLarge == \A b \in Blocks : b \notin Large
<1>1. \A b \in Large : b.pool = System  BY DEF Large
<1>2. QED  BY <1>1, BlocksOfPools, PoolsAssumption

LEMMA InitGeneral == GeneralInit => GeneralInv /\ ClassesOK
<1> SUFFICES ASSUME GeneralInit PROVE GeneralInv /\ ClassesOK
  OBVIOUS
<1>1. LocalInv  BY InitLocal DEF GeneralInit
<1>2. objects = {}  BY DEF GeneralInit, objects
<1>3. HeadersOK  BY <1>2 DEF GeneralInit, Init, HeadersOK
<1>4. \A t \in ThreadIds, b \in Blocks : ~InList(t, b)
  BY DEF GeneralInit, Init, InList
<1>5. QED  BY <1>1, <1>2, <1>3, <1>4 DEF GeneralInv, ClassesOK

(* Nothing that ClassesOK is about changes but the lists, which lose blocks *)
(* or stay as they are.                                                     *)
LEMMA ClassesKept ==
    ASSUME ClassesOK, UNCHANGED <<header, request>>,
           \A t \in ThreadIds, b \in Blocks : InList(t, b)' => InList(t, b)
    PROVE  ClassesOK'
BY DEF ClassesOK, objects

LEMMA ConstructStep ==
    ASSUME GeneralInv, Construct
    PROVE  GeneralInv' /\ (ClassesOK => ClassesOK')
<1> USE DEF Construct, GeneralInv, ownVars, call
<1>1. LocalInv'
  BY CreatedStep, UnbornIsUnheld, PoolsAssumption
<1>2. HeadersOK'
  BY DEF HeadersOK, objects
<1>3. \A t \in ThreadIds, b \in Blocks : InList(t, b)' => InList(t, b)
  BY DEF InList
<1>4. QED  BY <1>1, <1>2, <1>3, ClassesKept

LEMMA DestructStep ==
    ASSUME GeneralInv, Destruct
    PROVE  GeneralInv' /\ (ClassesOK => ClassesOK')
<1> USE DEF Destruct, GeneralInv, ownVars, call
<1>1. LocalInv'
  BY DestroyedStep, PoolsAssumption
<1>2. HeadersOK'
  BY DEF HeadersOK, objects
<1>3. \A t \in ThreadIds, b \in Blocks : InList(t, b)' => InList(t, b)
  BY DEF InList
<1>4. QED  BY <1>1, <1>2, <1>3, ClassesKept

LEMMA ThreadComesOrGoesStep ==
    ASSUME GeneralInv, NEW t \in ThreadIds, ThreadComesOrGoes(t)
    PROVE  GeneralInv' /\ (ClassesOK => ClassesOK')
<1> USE DEF ThreadComesOrGoes, GeneralInv, ownVars, call
<1>1. LocalInv'
  BY StartThreadStep, ExitThreadStep
<1>2. HeadersOK'
  BY DEF HeadersOK, StartThread, ExitThread, objects
<1>3. ASSUME NEW u \in ThreadIds, NEW b \in Blocks, InList(u, b)' PROVE InList(u, b)
  <2>1. local_free_list_'[u] = local_free_list_[u] \/ Len(local_free_list_'[u]) = 0
    BY DEF StartThread, ExitThread, LocalInv, LocalTypeOK
  <2>2. QED  BY <2>1, <1>3 DEF InList
<1>4. UNCHANGED <<header, request>>
  OBVIOUS
<1>5. QED  BY <1>1, <1>2, <1>3, <1>4, ClassesKept

LEMMA AllocateManagedStep ==
    ASSUME GeneralInv, NEW t \in ThreadIds, NEW size \in SizesOf[t], AllocateManaged(t, size)
    PROVE  GeneralInv' /\ (ClassesOK => ClassesOK')
<1> USE DEF AllocateManaged, GeneralInv
<1> DEFINE class == get_size_class_index(size)
<1>1. size \in ManagedSizes(t)
  BY DEF ManagedSizes
<1>2. class \in Pools
  BY <1>1, ManagedSize, ClassOfSize, PoolsAssumption
<1>3. LocalInv'
  BY <1>2, AllocateStep
<1>4. HeadersOK'
  BY <1>1 DEF HeadersOK, Allocate, Goto, LocalInv, LocalTypeOK, objects
<1>5. \A u \in ThreadIds, b \in Blocks : InList(u, b)' => InList(u, b)
  BY DEF InList, Allocate
<1>6. QED  BY <1>3, <1>4, <1>5, ClassesKept

LEMMA AllocateLargeStep ==
    ASSUME GeneralInv, NEW t \in ThreadIds, NEW size, NEW m \in Large, AllocateLarge(t, size, m)
    PROVE  GeneralInv' /\ (ClassesOK => ClassesOK')
<1> USE DEF AllocateLarge, Malloc, HandOut, InUse, GeneralInv
<1>1. UNCHANGED vars /\ UNCHANGED asked
  OBVIOUS
<1>2. LocalInv'
  BY <1>1, UnchangedStep
<1>3. /\ objects' = objects \cup {m}
      /\ header' = [header EXCEPT ![m] = System]
      /\ \A x \in objects : x # m => request'[x] = request[x]
  BY DEF objects
<1>4. HeadersOK'
  <2>1. UNCHANGED <<inUse, asked, pc, pool>>
    BY <1>1 DEF vars, call
  <2>2. m \notin Blocks /\ System # Link
    BY NotLarge, PoolsAssumption
  <2>3. /\ \A x \in objects' : header'[x] # Link /\ (header'[x] = System <=> x \in Large)
        /\ \A x \in Blocks \ objects' : header'[x] = Link
    BY <1>3, <2>2 DEF HeadersOK
  <2>4. QED  BY <1>3, <2>1, <2>3 DEF HeadersOK
<1>5. ASSUME ClassesOK PROVE ClassesOK'
  <2>1. \A u \in ThreadIds, b \in Blocks : InList(u, b)' <=> InList(u, b)
    BY <1>1 DEF InList, vars
  <2>2. ASSUME NEW b \in objects' \ Large
        PROVE  b \in objects \ Large /\ request'[b] = request[b]
    BY <2>2, <1>3
  <2>3. QED  BY <2>1, <2>2, <1>5 DEF ClassesOK
<1>6. QED  BY <1>2, <1>4, <1>5

LEMMA FetchOneManaged ==
    ASSUME GeneralInv, NEW t \in ThreadIds, FetchOne(t), UNCHANGED ownVars
    PROVE  GeneralInv' /\ (ClassesOK => ClassesOK')
<1> USE DEF GeneralInv, ownVars
<1> DEFINE new == [pool |-> pool[t], nr |-> central_pool_[pool[t]]]
<1>1. /\ LocalInv'
      /\ \A u \in ThreadIds, c \in Blocks : InList(u, c)' <=> InList(u, c) \/ (u = t /\ c = new)
  BY FetchOneStep
<1>2. HeadersOK'
  BY DEF FetchOne, HeadersOK, objects
<1>3. asked[t] \in ManagedSizes(t) /\ new.pool = get_size_class_index(asked[t])
  BY DEF HeadersOK, FetchOne
<1> HIDE DEF new
<1>4. ClassesOK => ClassesOK'
  BY <1>1, <1>3 DEF ClassesOK, objects
<1>5. QED  BY <1>1, <1>2, <1>4

LEMMA FetchEndManaged ==
    ASSUME GeneralInv, NEW t \in ThreadIds, FetchEnd(t), UNCHANGED ownVars
    PROVE  GeneralInv' /\ (ClassesOK => ClassesOK')
<1> USE DEF GeneralInv, ownVars
<1>1. LocalInv'  BY FetchEndStep
<1>2. HeadersOK'
  BY DEF FetchEnd, HeadersOK, Goto, LocalInv, LocalTypeOK, objects
<1>3. \A u \in ThreadIds, b \in Blocks : InList(u, b)' => InList(u, b)
  BY DEF InList, FetchEnd
<1>4. QED  BY <1>1, <1>2, <1>3, ClassesKept

LEMMA TakeNoneManaged ==
    ASSUME GeneralInv, NEW t \in ThreadIds, TakeNone(t), asked' = [asked EXCEPT ![t] = 0],
           UNCHANGED <<header, request>>
    PROVE  GeneralInv' /\ (ClassesOK => ClassesOK')
<1> USE DEF GeneralInv
<1>1. LocalInv'  BY TakeNoneStep
<1>2. HeadersOK'
  BY DEF TakeNone, HeadersOK, Goto, LocalInv, LocalTypeOK, objects
<1>3. \A u \in ThreadIds, b \in Blocks : InList(u, b)' => InList(u, b)
  BY DEF InList, TakeNone
<1>4. QED  BY <1>1, <1>2, <1>3, ClassesKept

(* The block a confined thread takes from its list is of its class.         *)
LEMMA TakeManaged ==
    ASSUME GeneralInv, NEW t \in ThreadIds, Take(t),
           HandOut(Head(local_free_list_[t]), pool[t], asked[t]),
           asked' = [asked EXCEPT ![t] = 0]
    PROVE  GeneralInv' /\ (OneClassPerThread /\ ClassesOK => ClassesOK')
<1> USE DEF GeneralInv
<1> DEFINE b == Head(local_free_list_[t])
<1>1. /\ LocalInv'
      /\ b \in Blocks \ inUse /\ InList(t, b) /\ inUse' = inUse \cup {b}
      /\ \A u \in ThreadIds, c \in Blocks : InList(u, c)' => InList(u, c)
  BY TakeStep
<1>2. HandOut(b, pool[t], asked[t])
  OBVIOUS
<1> HIDE DEF b
<1>3. /\ objects' = objects \cup {b}
      /\ header' = [header EXCEPT ![b] = pool[t]] /\ request'[b] = asked[t]
      /\ \A x \in objects : x # b => request'[x] = request[x]
  BY <1>2 DEF HandOut, InUse, objects
<1>4. /\ asked[t] \in ManagedSizes(t) /\ pool[t] = get_size_class_index(asked[t])
      /\ asked[t] \in Nat /\ asked[t] <= MAX_MANAGED_SIZE
      /\ pool[t] # System /\ pool[t] # Link /\ b \notin Large
  <2>1. asked[t] \in ManagedSizes(t) /\ pool[t] = get_size_class_index(asked[t])
    BY DEF Take, HeadersOK
  <2>2. pool[t] \in Pools
    BY DEF Take, LocalInv, Lives
  <2>3. QED  BY <2>1, <2>2, <1>1, ManagedSize, NotLarge, PoolsAssumption
<1>5. HeadersOK'
  <2>1. \A u \in ThreadIds : pc'[u] # "idle" => u # t /\ pc[u] # "idle"
    BY DEF Take, Goto, LocalInv, LocalTypeOK
  <2>2. \A u \in ThreadIds : u # t => asked'[u] = asked[u] /\ pool'[u] = pool[u]
    BY DEF HeadersOK, Take
  <2>3. asked' = [u \in ThreadIds |-> asked'[u]]
    BY DEF HeadersOK
  <2>4. \A u \in ThreadIds : pc'[u] # "idle" =>
          asked'[u] \in ManagedSizes(u) /\ pool'[u] = get_size_class_index(asked'[u])
    BY <2>1, <2>2 DEF HeadersOK
  <2>5. objects' \subseteq Blocks \cup Large
        /\ header' = [x \in Blocks \cup Large |-> header'[x]]
    BY <1>1, <1>3 DEF HeadersOK
  <2>6. inUse' = objects' \ Large
    BY <1>1, <1>3, <1>4 DEF HeadersOK
  <2>7. /\ \A x \in objects' : header'[x] # Link /\ (header'[x] = System <=> x \in Large)
        /\ \A x \in Blocks \ objects' : header'[x] = Link
    BY <1>1, <1>3, <1>4 DEF HeadersOK
  <2>8. QED  BY <2>3, <2>4, <2>5, <2>6, <2>7 DEF HeadersOK
<1>6. ASSUME OneClassPerThread, ClassesOK PROVE ClassesOK'
  <2>1. b.pool = get_size_class_index(asked[t])
    BY <1>1, <1>4, <1>6 DEF ClassesOK, OneClassPerThread
  <2>2. ASSUME NEW x \in objects' \ Large
        PROVE  /\ request'[x] \in Nat /\ request'[x] <= MAX_MANAGED_SIZE
               /\ x.pool = get_size_class_index(request'[x])
    <3>1. CASE x = b  BY <3>1, <2>1, <1>3, <1>4
    <3>2. CASE x # b
      <4>1. x \in objects \ Large /\ request'[x] = request[x]
        BY <3>2, <1>3
      <4>2. QED  BY <4>1, <1>6 DEF ClassesOK
    <3>3. QED  BY <3>1, <3>2
  <2>3. QED  BY <2>2, <1>1, <1>6 DEF ClassesOK
<1>7. QED  BY <1>1, <1>5, <1>6

(* deallocate() puts a block into the list of a thread that handles blocks  *)
(* of its class, and an object of malloc() into none.                       *)
LEMMA DeallocateByHeaderStep ==
    ASSUME GeneralInv, NEW t \in ThreadIds, NEW b \in objects,
           request[b] \in SizesOf[t], DeallocateByHeader(t, b)
    PROVE  GeneralInv' /\ (ClassesOK => ClassesOK')
<1> USE DEF DeallocateByHeader, GeneralInv
<1>1. LocalInv' /\ \A u \in ThreadIds, c \in Blocks : InList(u, c)' =>
                     InList(u, c) \/ (u = t /\ c = b /\ b \notin Large)
  <2>1. CASE header[b] # System
    <3>1. b \in inUse /\ b \notin Large  BY <2>1 DEF HeadersOK
    <3>2. QED  BY <3>1, <2>1, GivenBackStep
  <2>2. CASE header[b] = System
    <3>1. b \notin inUse  BY <2>2 DEF HeadersOK
    <3>2. UNCHANGED vars  BY <3>1, <2>2 DEF vars
    <3>3. QED  BY <3>2, UnchangedStep DEF InList, vars
  <2>3. QED  BY <2>1, <2>2
<1>2. /\ objects' = objects \ {b} /\ header' = [header EXCEPT ![b] = Link]
      /\ \A x \in objects \ {b} : request'[x] = request[x]
  BY DEF objects
<1>3. HeadersOK'
  <2>1. inUse' = inUse \ {b} /\ UNCHANGED <<asked, pc, pool>>
    BY DEF call
  <2>2. QED  BY <2>1, <1>2 DEF HeadersOK
<1>4. ASSUME ClassesOK PROVE ClassesOK'
  <2>1. b \notin Large => request[b] \in ManagedSizes(t)
                          /\ b.pool = get_size_class_index(request[b])
    BY <1>4 DEF ClassesOK, ManagedSizes
  <2>2. QED  BY <1>1, <1>2, <1>4, <2>1 DEF ClassesOK
<1>5. QED  BY <1>1, <1>3, <1>4

LEMMA NextGeneral ==
    GeneralInv /\ [GeneralNext]_generalVars
      => GeneralInv' /\ (OneClassPerThread /\ ClassesOK => ClassesOK')
<1> SUFFICES ASSUME GeneralInv, [GeneralNext]_generalVars
             PROVE  GeneralInv' /\ (OneClassPerThread /\ ClassesOK => ClassesOK')
  OBVIOUS
<1>1. CASE Construct  BY <1>1, ConstructStep
<1>2. CASE Destruct   BY <1>2, DestructStep
<1>3. ASSUME NEW t \in ThreadIds, ThreadComesOrGoes(t) \/ ReturnManaged(t)
      PROVE  GeneralInv' /\ (OneClassPerThread /\ ClassesOK => ClassesOK')
  BY <1>3, ThreadComesOrGoesStep, FetchOneManaged, FetchEndManaged, TakeNoneManaged,
     TakeManaged DEF ReturnManaged
<1>4. ASSUME NEW t \in ThreadIds, NEW size \in SizesOf[t],
             AllocateManaged(t, size) \/ \E m \in Large : AllocateLarge(t, size, m)
      PROVE  GeneralInv' /\ (OneClassPerThread /\ ClassesOK => ClassesOK')
  BY <1>4, AllocateManagedStep, AllocateLargeStep
<1>5. ASSUME NEW t \in ThreadIds, NEW b \in objects,
             request[b] \in SizesOf[t] /\ DeallocateByHeader(t, b)
      PROVE  GeneralInv' /\ (OneClassPerThread /\ ClassesOK => ClassesOK')
  BY <1>5, DeallocateByHeaderStep
<1>6. CASE UNCHANGED generalVars
  <2>1. UNCHANGED vars /\ UNCHANGED ownVars
    BY <1>6 DEF generalVars
  <2>2. LocalInv'  BY <2>1, UnchangedStep DEF GeneralInv
  <2>3. HeadersOK'
    BY <2>1 DEF GeneralInv, HeadersOK, vars, ownVars, call, objects
  <2>4. \A u \in ThreadIds, b \in Blocks : InList(u, b)' => InList(u, b)
    BY <2>1 DEF InList, vars
  <2>5. QED  BY <2>1, <2>2, <2>3, <2>4, ClassesKept DEF GeneralInv, ownVars
<1>7. QED  BY <1>1, <1>2, <1>3, <1>4, <1>5, <1>6 DEF GeneralNext

(* The same of the pools inside a general pool (allocate(), deallocate()    *)
(* and the constructor of general_memory_pool): no block has two owners.    *)
THEOREM GeneralBlocksAreOwnedOnce == GeneralSpec => []EachBlockOnce
<1>1. GeneralInit => GeneralInv  BY InitGeneral
<1>2. GeneralInv /\ [GeneralNext]_generalVars => GeneralInv'  BY NextGeneral
<1>3. GeneralInv => EachBlockOnce  BY DEF GeneralInv, LocalInv
<1>4. QED  BY <1>1, <1>2, <1>3, PTL DEF GeneralSpec

(* deallocate() gives every object back to where it came from by its first  *)
(* word alone, the header while it is in use and a link while it is in a    *)
(* list: no object of malloc() gets into a list, and no block into free().  *)
THEOREM HeadersTellTheOwner == GeneralSpec => []EachToItsOwner
<1>1. GeneralInit => GeneralInv  BY InitGeneral
<1>2. GeneralInv /\ [GeneralNext]_generalVars => GeneralInv'  BY NextGeneral
<1>3. GeneralInv => EachToItsOwner
  <2> SUFFICES ASSUME GeneralInv PROVE EachToItsOwner
    OBVIOUS
  <2>1. ASSUME NEW t \in ThreadIds, NEW i \in 1 .. Len(local_free_list_[t])
        PROVE  local_free_list_[t][i] \in Blocks /\ header[local_free_list_[t][i]] = Link
    <3> DEFINE b == local_free_list_[t][i]
    <3>1. local_free_list_[t] \in Seq(Blocks)  BY DEF GeneralInv, LocalInv, LocalTypeOK
    <3>2. b \in Blocks  BY <3>1, ElementOfSeq
    <3>3. b \notin inUse  BY <3>2 DEF GeneralInv, LocalInv, EachBlockOnce, InList
    <3>4. b \notin objects  BY <3>2, <3>3, NotLarge DEF GeneralInv, HeadersOK
    <3>5. QED  BY <3>2, <3>4 DEF GeneralInv, HeadersOK
  <2>2. QED  BY <2>1 DEF EachToItsOwner, GeneralInv, HeadersOK
<1>4. QED  BY <1>1, <1>2, <1>3, PTL DEF GeneralSpec

(* While every thread keeps to the sizes of one class, each object comes    *)
(* from the pool of the class of its size and is large enough, though all   *)
(* pools share the one list of the thread.                                  *)
THEOREM ConfinedThreadsGetTheirClass ==
    OneClassPerThread /\ GeneralSpec => [](FromTheCorrespondingPool /\ ObjectsAreLargeEnough)
<1> SUFFICES ASSUME OneClassPerThread
             PROVE  GeneralSpec => [](FromTheCorrespondingPool /\ ObjectsAreLargeEnough)
  OBVIOUS
<1> DEFINE Inv == GeneralInv /\ ClassesOK
<1>1. GeneralInit => Inv  BY InitGeneral
<1>2. Inv /\ [GeneralNext]_generalVars => Inv'  BY NextGeneral
<1>3. Inv => FromTheCorrespondingPool /\ ObjectsAreLargeEnough
  BY ClassOfSize DEF GeneralInv, HeadersOK, ClassesOK, FromTheCorrespondingPool,
     ObjectsAreLargeEnough
<1>4. QED  BY <1>1, <1>2, <1>3, PTL DEF GeneralSpec

----------------------------------------------------------------------------
(* The threaded test.  Counting first: sets of at most k elements each, one *)
(* for every worker, have at most k times as many elements as there are     *)
(* workers.  (Consider a smallest set of workers that refutes it.)          *)
LEMMA ShareBound ==
    ASSUME NEW W, IsFiniteSet(W), NEW k \in Nat, NEW g,
           \A w \in W : IsFiniteSet(g[w]) /\ Cardinality(g[w]) <= k
    PROVE  /\ IsFiniteSet(UNION {g[w] : w \in W})
           /\ Cardinality(UNION {g[w] : w \in W}) <= Cardinality(W) * k
<1> DEFINE All(V)  == UNION {g[w] : w \in V}
           Good(V) == IsFiniteSet(All(V)) /\ Cardinality(All(V)) <= Cardinality(V) * k
           Bad == {V \in SUBSET W : ~Good(V)}
<1>1. Bad = {}
  <2> SUFFICES ASSUME Bad # {} PROVE FALSE
    OBVIOUS
  <2>1. Bad \subseteq FiniteSubsetsOf(W)
    BY FS_FiniteSubsetsOfFinite
  <2>2. PICK V \in Bad : \A U \in Bad : ~(<<U, V>> \in StrictSubsetOrdering(W))
    <3> HIDE DEF Bad
    <3>1. QED  BY <2>1, FS_StrictSubsetOrderingWellFounded, WFMin
  <2>3. V \in SUBSET W /\ ~Good(V) /\ IsFiniteSet(V) /\ Cardinality(V) \in Nat
    BY FS_Subset, FS_CardinalityType
  <2>4. CASE V = {}
    <3>1. All(V) = {}  BY <2>4
    <3>2. IsFiniteSet(All(V)) /\ Cardinality(All(V)) = 0 /\ Cardinality(V) = 0
      BY <3>1, <2>4, FS_EmptySet
    <3>3. QED  BY <3>2, <2>3
  <2>5. CASE V # {}
    <3>1. PICK w \in V : TRUE  BY <2>5
    <3> DEFINE U == V \ {w}
    <3>2. U \in SUBSET W /\ <<U, V>> \in StrictSubsetOrdering(W)
      BY <2>3, <3>1 DEF StrictSubsetOrdering
    <3>3. Good(U)  BY <2>2, <3>2
    <3>4. Cardinality(U) = Cardinality(V) - 1 /\ Cardinality(V) >= 1
      <4>1. Cardinality(U) = Cardinality(V) - 1
        BY <2>3, <3>1, FS_RemoveElement
      <4>2. Cardinality(U) \in Nat
        BY <2>3, FS_RemoveElement, FS_CardinalityType
      <4>3. QED  BY <4>1, <4>2, <2>3
    <3>5. All(V) = All(U) \cup g[w]
      BY <3>1
    <3>6. IsFiniteSet(g[w]) /\ Cardinality(g[w]) \in Nat /\ Cardinality(g[w]) <= k
      BY <2>3, <3>1, FS_CardinalityType
    <3>7. IsFiniteSet(All(U)) /\ Cardinality(All(U)) \in Nat
          /\ Cardinality(All(U)) <= Cardinality(U) * k
      BY <3>3, FS_CardinalityType
    <3> HIDE DEF All
    <3>8. IsFiniteSet(All(U) \cap g[w]) /\ Cardinality(All(U) \cap g[w]) \in Nat
      BY <3>7, FS_Intersection, FS_CardinalityType
    <3>9. /\ IsFiniteSet(All(V))
          /\ Cardinality(All(V)) = Cardinality(All(U)) + Cardinality(g[w])
                                   - Cardinality(All(U) \cap g[w])
      <4> DEFINE A == All(U)
                 B == g[w]
      <4>1. IsFiniteSet(A) /\ IsFiniteSet(B) /\ All(V) = A \cup B
        BY <3>5, <3>6, <3>7
      <4> HIDE DEF A, B
      <4>2. /\ IsFiniteSet(A \cup B)
            /\ Cardinality(A \cup B) = Cardinality(A) + Cardinality(B) - Cardinality(A \cap B)
        BY <4>1, FS_Union
      <4>3. QED  BY <4>1, <4>2 DEF A, B
    <3>10. (Cardinality(V) - 1) * k + k = Cardinality(V) * k
      BY <2>3
    <3>11. Cardinality(All(V)) <= (Cardinality(V) - 1) * k + k
      <4> DEFINE m == (Cardinality(V) - 1) * k
      <4>1. m \in Int  BY <2>3
      <4>2. Cardinality(All(U)) <= m  BY <3>7, <3>4
      <4> HIDE DEF m
      <4>3. Cardinality(All(V)) <= m + k
        BY <4>1, <4>2, <3>6, <3>7, <3>8, <3>9
      <4>4. QED  BY <4>3 DEF m
    <3>12. QED  BY <3>9, <3>10, <3>11, <2>3
  <2>6. QED  BY <2>4, <2>5
<1>2. W \in SUBSET W  OBVIOUS
<1>3. Good(W)
  BY <1>1, <1>2
<1>4. QED  BY <1>3

(* The test is run by a finite number of workers, which fetch something.    *)
TestParameters == /\ IsFiniteSet(Workers)
                  /\ ALLOCS_PER_THREAD \in Nat
                  /\ BLOCKS_TO_FETCH > 0

(* The blocks that a worker fetches, the spare ones included. *)
Most == ALLOCS_PER_THREAD + BLOCKS_TO_FETCH - 1

(* If every block of the pool has gone to some worker, one of them has more *)
(* than it can have fetched.                                                *)
LEMMA PoolOutlastsWorkers ==
    ASSUME TestParameters, NEW g \in [Workers -> SUBSET (1 .. BlockCount[Pool])],
           \A w \in Workers : IsFiniteSet(g[w]) /\ Cardinality(g[w]) <= Most
    PROVE  \E n \in 1 .. BlockCount[Pool] : \A w \in Workers : n \notin g[w]
<1> DEFINE N == BlockCount[Pool]
           W == Cardinality(Workers)
           F == UNION {g[w] : w \in Workers}
<1>1. W \in Nat /\ Most \in Nat /\ N \in Nat /\ N = W * ALLOCS_PER_THREAD + 1 + W * (BLOCKS_TO_FETCH - 1)
  BY FS_CardinalityType, FetchAssumption, BlockCountAssumption, TestAssumption
     DEF TestParameters, Most
<1>2. N = W * Most + 1
  BY <1>1, FetchAssumption DEF TestParameters, Most
<1>3. IsFiniteSet(F) /\ Cardinality(F) <= W * Most
  BY <1>1, ShareBound DEF TestParameters
<1>4. IsFiniteSet(1 .. N) /\ Cardinality(1 .. N) = N
  BY <1>1, FS_Interval
<1> SUFFICES ASSUME \A n \in 1 .. N : \E w \in Workers : n \in g[w] PROVE FALSE
  OBVIOUS
<1>5. 1 .. N \in SUBSET F
  OBVIOUS
<1>6. N <= Cardinality(F) /\ Cardinality(F) \in Nat
  <2> HIDE DEF F, N
  <2>1. \A T \in SUBSET F : IsFiniteSet(T) /\ Cardinality(T) <= Cardinality(F)
    BY <1>3, FS_Subset
  <2>2. Cardinality(F) \in Nat
    BY <1>3, FS_CardinalityType
  <2>3. QED  BY <2>1, <2>2, <1>4, <1>5
<1>7. W * Most \in Nat
  BY <1>1
<1>8. QED  BY <1>2, <1>3, <1>6, <1>7

(* The main thread has had a block for its own allocate(). *)
MainHas == \/ local_free_list_[Main] # <<>>
           \/ \E b \in inUse : \A w \in Workers : b \notin allocs[w]
AllJoined == done = Workers /\ running \subseteq {Main}

(* The vectors of the workers share no block. *)
AllocsOK == /\ allocs \in [Workers -> SUBSET inUse] /\ done \subseteq Workers
            /\ \A w \in Workers : IsFiniteSet(allocs[w])
            /\ \A v, w \in Workers : v # w => allocs[v] \cap allocs[w] = {}

(* Who fetches had nothing to begin with, and who may take has something.   *)
FetchedOK == \A t \in ThreadIds :
    /\ pc[t] # "idle" => pool[t] = Pool
    /\ pc[t] = "fetch" => fetched[t] = Len(local_free_list_[t])
    /\ pc[t] # "fetch" => fetched[t] = 0
    /\ fetched[t] <= BLOCKS_TO_FETCH
    /\ pc[t] = "take" => local_free_list_[t] # <<>>

(* Workers allocate until they have enough, then the main thread does.      *)
PhasesOK ==
    /\ \A w \in Workers : pc[w] # "idle" =>
         w \notin done /\ Cardinality(allocs[w]) < ALLOCS_PER_THREAD
    /\ MainHas \/ pc[Main] # "idle" => AllJoined
    /\ pc[Main] # "idle" => inUse = {}
    /\ \A w \in Workers : allocs[w] # {} \/ pc[w] # "idle" => w \in running

CallsOK == AllocsOK /\ FetchedOK /\ PhasesOK

(* g gives each worker the blocks that it fetched: no more than it still    *)
(* has, as long as it allocates, and all that have left the pool as long as *)
(* the main thread has fetched none.                                        *)
Held(w)   == Cardinality(allocs[w]) + Len(local_free_list_[w])
Shares(g) ==
    /\ \A w \in Workers : /\ IsFiniteSet(g[w]) /\ Cardinality(g[w]) <= Most
                          /\ w \notin done => Cardinality(g[w]) <= Held(w)
    /\ life[Pool] = "alive" /\ ~MainHas =>
         \A n \in 1 .. BlockCount[Pool] : central_pool_[Pool] < n => \E w \in Workers : n \in g[w]
Sharing == \E g \in [Workers -> SUBSET (1 .. BlockCount[Pool])] : Shares(g)

TestInv == LocalInv /\ CallsOK /\ Sharing

LEMMA InitTest == TestParameters /\ TestInit => TestInv
<1> SUFFICES ASSUME TestParameters, TestInit PROVE TestInv
  OBVIOUS
<1>1. Init  BY DEF TestInit
<1>2. LocalInv  BY <1>1, InitLocal
<1>3. IsFiniteSet({}) /\ Cardinality({}) = 0  BY FS_EmptySet
<1>4. ~MainHas  BY <1>1, TestAssumption DEF Init, MainHas
<1>5. CallsOK
  BY <1>1, <1>3, <1>4, FetchAssumption, TestAssumption
     DEF TestInit, Init, CallsOK, AllocsOK, FetchedOK, PhasesOK
<1>6. Sharing
  <2> DEFINE g == [w \in Workers |-> {}]
  <2>1. g \in [Workers -> SUBSET (1 .. BlockCount[Pool])]  OBVIOUS
  <2>2. Most \in Nat  BY FetchAssumption DEF TestParameters, Most
  <2>3. \A w \in Workers : Held(w) = 0
    BY <1>1, <1>3, TestAssumption DEF TestInit, Init, Held
  <2>4. life[Pool] # "alive"  BY <1>1, TestAssumption DEF Init
  <2>5. Shares(g)  BY <1>3, <2>2, <2>3, <2>4 DEF Shares
  <2>6. QED  BY <2>1, <2>5 DEF Sharing
<1>7. QED  BY <1>2, <1>5, <1>6 DEF TestInv

(* Steps that fetch nothing for a worker. *)
LEMMA SharingKept ==
    ASSUME Sharing, done \subseteq done',
           \A w \in Workers : w \notin done' => Held(w)' = Held(w),
           life'[Pool] = "alive" /\ ~MainHas' =>
             \/ central_pool_'[Pool] = BlockCount[Pool]
             \/ life[Pool] = "alive" /\ ~MainHas /\ central_pool_'[Pool] = central_pool_[Pool]
    PROVE  Sharing'
<1>1. PICK g \in [Workers -> SUBSET (1 .. BlockCount[Pool])] : Shares(g)
  BY DEF Sharing
<1>2. BlockCount[Pool] \in Nat
  BY BlockCountAssumption, TestAssumption
<1>3. \A w \in Workers : /\ IsFiniteSet(g[w]) /\ Cardinality(g[w]) <= Most
                         /\ w \notin done' => Cardinality(g[w]) <= Held(w)'
  BY <1>1 DEF Shares
<1>4. ASSUME life'[Pool] = "alive", ~MainHas', NEW n \in 1 .. BlockCount[Pool],
             central_pool_'[Pool] < n
      PROVE  \E w \in Workers : n \in g[w]
  <2>1. CASE central_pool_'[Pool] = central_pool_[Pool] /\ life[Pool] = "alive" /\ ~MainHas
    BY <2>1, <1>1, <1>4 DEF Shares
  <2>2. CASE central_pool_'[Pool] = BlockCount[Pool]
    BY <2>2, <1>2, <1>4
  <2>3. QED  BY <2>1, <2>2, <1>4
<1>5. Shares(g)'
  BY <1>3, <1>4 DEF Shares
<1>6. QED  BY <1>5 DEF Sharing

(* Steps that only begin, or do not touch lists, blocks and calls.          *)
LEMMA CreateTest == ASSUME TestInv, CreatePool(Pool), UNCHANGED test PROVE CallsOK' /\ Sharing'
<1> USE DEF CreatePool, test, call
<1>1. MainHas' <=> MainHas  BY DEF MainHas
<1>2. CallsOK'
  BY <1>1 DEF TestInv, CallsOK, AllocsOK, FetchedOK, PhasesOK, AllJoined
<1>3. central_pool_'[Pool] = BlockCount[Pool]
  BY TestAssumption DEF TestInv, LocalInv, LocalTypeOK
<1>4. Sharing'
  BY <1>3, SharingKept DEF TestInv, Held
<1>5. QED  BY <1>2, <1>4

LEMMA DestroyTest == ASSUME TestInv, DestroyPool(Pool), UNCHANGED test PROVE CallsOK' /\ Sharing'
<1> USE DEF DestroyPool, test, call
<1>1. MainHas' <=> MainHas  BY DEF MainHas
<1>2. CallsOK'
  BY <1>1 DEF TestInv, CallsOK, AllocsOK, FetchedOK, PhasesOK, AllJoined
<1>3. life'[Pool] # "alive"
  BY TestAssumption DEF TestInv, LocalInv, LocalTypeOK
<1>4. Sharing'
  BY <1>3, SharingKept DEF TestInv, Held
<1>5. QED  BY <1>2, <1>4

LEMMA StartTest ==
    ASSUME TestInv, NEW t \in ThreadIds \ (running \cup done), StartThread(t), UNCHANGED test
    PROVE  CallsOK' /\ Sharing'
<1> USE DEF StartThread, test, call
<1>1. MainHas' <=> MainHas  BY DEF MainHas
<1>2. AllJoined => AllJoined'
  BY TestAssumption DEF AllJoined
<1>3. CallsOK'
  BY <1>1, <1>2 DEF TestInv, CallsOK, AllocsOK, FetchedOK, PhasesOK
<1>4. Sharing'
  BY <1>1, SharingKept DEF TestInv, Held
<1>5. QED  BY <1>3, <1>4

LEMMA AllocateTest ==
    ASSUME TestInv, NEW t \in ThreadIds, Allocate(t, Pool), UNCHANGED test,
           t \in Workers => t \notin done /\ Cardinality(allocs[t]) < ALLOCS_PER_THREAD,
           t = Main => AllJoined /\ inUse = {}
    PROVE  CallsOK' /\ Sharing'
<1> USE DEF Allocate, test
<1>1. MainHas' <=> MainHas  BY DEF MainHas
<1>2. /\ pc' = [pc EXCEPT ![t] = IF local_free_list_[t] = <<>> THEN "fetch" ELSE "take"]
      /\ \A u \in ThreadIds : u # t => pc'[u] = pc[u] /\ pool'[u] = pool[u]
      /\ pc'[t] = IF local_free_list_[t] = <<>> THEN "fetch" ELSE "take"
      /\ pool'[t] = Pool
  BY DEF Goto, TestInv, LocalInv, LocalTypeOK
<1>3. FetchedOK'
  BY <1>2 DEF TestInv, CallsOK, FetchedOK
<1>4. AllocsOK'
  BY DEF TestInv, CallsOK, AllocsOK
<1>5. PhasesOK'
  BY <1>1, <1>2, TestAssumption DEF TestInv, CallsOK, PhasesOK, AllJoined
<1>6. Sharing'
  BY <1>1, SharingKept DEF TestInv, Held
<1>7. QED  BY <1>3, <1>4, <1>5, <1>6 DEF CallsOK

(* A worker's share grows by the block that it fetches. *)
LEMMA FetchOneTest ==
    ASSUME TestParameters, TestInv, NEW t \in ThreadIds, FetchOne(t), UNCHANGED test
    PROVE  CallsOK' /\ Sharing'
<1> USE DEF FetchOne, MayFetch, test
<1>1. /\ Lengthened(t) /\ pc[t] = "fetch" /\ pool[t] = Pool
      /\ local_free_list_' \in [ThreadIds -> Seq(Blocks)]
  BY FetchOneStep DEF TestInv, CallsOK, FetchedOK, LocalInv, LocalTypeOK
<1>2. /\ fetched'[t] = fetched[t] + 1 /\ fetched[t] \in Nat /\ fetched[t] < BLOCKS_TO_FETCH
      /\ \A u \in ThreadIds : u # t => fetched'[u] = fetched[u]
  BY DEF TestInv, LocalInv, LocalTypeOK
<1>3. FetchedOK'
  BY <1>1, <1>2, FetchAssumption DEF TestInv, CallsOK, FetchedOK, Lengthened
<1>4. AllocsOK'
  BY DEF TestInv, CallsOK, AllocsOK
<1>5. CASE t = Main
  <2>1. AllJoined /\ MainHas'
    BY <1>1, <1>5 DEF TestInv, CallsOK, PhasesOK, MainHas, Lengthened
  <2>2. PhasesOK'
    BY <2>1 DEF TestInv, CallsOK, PhasesOK, AllJoined
  <2>3. \A w \in Workers : Held(w)' = Held(w)
    BY <1>1, <1>5, TestAssumption DEF Held, Lengthened
  <2>4. Sharing'
    BY <2>1, <2>3, SharingKept DEF TestInv
  <2>5. QED  BY <1>3, <1>4, <2>2, <2>4 DEF CallsOK
<1>6. CASE t \in Workers
  <2>1. /\ t # Main /\ Main \in ThreadIds /\ t \notin done
        /\ Cardinality(allocs[t]) < ALLOCS_PER_THREAD
        /\ Cardinality(allocs[t]) \in Nat
    BY <1>1, <1>6, TestAssumption, FS_CardinalityType
       DEF TestInv, CallsOK, PhasesOK, AllocsOK
  <2>2. MainHas' <=> MainHas
    BY <1>1, <2>1 DEF MainHas, Lengthened
  <2>3. PhasesOK'
    BY <2>2 DEF TestInv, CallsOK, PhasesOK, AllJoined
  <2>4. PICK g \in [Workers -> SUBSET (1 .. BlockCount[Pool])] : Shares(g)
    BY DEF TestInv, Sharing
  <2> DEFINE n == central_pool_[Pool]
  <2>5. /\ n \in 1 .. BlockCount[Pool] /\ life[Pool] = "alive"
        /\ central_pool_'[Pool] = n - 1 /\ BlockCount[Pool] \in Nat
    <3>1. BlockCount[Pool] \in Nat /\ n \in Nat /\ n <= BlockCount[Pool]
      BY BlockCountAssumption, TestAssumption DEF TestInv, LocalInv, LocalTypeOK, Lives
    <3>2. n > 0  BY <1>1
    <3>3. life[Pool] = "alive"
      BY <1>1 DEF TestInv, LocalInv, Lives
    <3>4. central_pool_'[Pool] = n - 1
      BY <1>1, TestAssumption DEF TestInv, LocalInv, LocalTypeOK
    <3>5. QED  BY <3>1, <3>2, <3>3, <3>4
  <2>6. PICK h \in [Workers -> SUBSET (1 .. BlockCount[Pool])] :
          h[t] = g[t] \cup {n} /\ \A w \in Workers : w # t => h[w] = g[w]
    <3>1. [g EXCEPT ![t] = @ \cup {n}] \in [Workers -> SUBSET (1 .. BlockCount[Pool])]
      BY <2>4, <2>5, <1>6
    <3>2. QED  BY <3>1, <2>4, <1>6
  <2>7. Held(t)' = Held(t) + 1 /\ \A w \in Workers : w # t => Held(w)' = Held(w)
    <3>1. Len(local_free_list_'[t]) = Len(local_free_list_[t]) + 1 /\ Len(local_free_list_[t]) \in Nat
          /\ allocs' = allocs
      BY <1>1 DEF Lengthened
    <3>2. \A w \in Workers : w # t => local_free_list_'[w] = local_free_list_[w]
      BY <1>1, TestAssumption DEF Lengthened
    <3>3. QED  BY <3>1, <3>2, <2>1 DEF Held
  <2>8. /\ IsFiniteSet(g[t]) /\ Cardinality(g[t]) \in Nat /\ Cardinality(g[t]) <= Held(t)
    BY <2>1, <2>4, <1>6, FS_CardinalityType DEF Shares
  <2>9. IsFiniteSet(h[t]) /\ Cardinality(h[t]) <= Cardinality(g[t]) + 1
        /\ Cardinality(h[t]) \in Nat
    <3>1. /\ IsFiniteSet(g[t] \cup {n})
          /\ Cardinality(g[t] \cup {n}) = IF n \in g[t] THEN Cardinality(g[t])
                                           ELSE Cardinality(g[t]) + 1
      BY <2>8, FS_AddElement
    <3>2. QED  BY <3>1, <2>6, <2>8
  <2>10. Cardinality(h[t]) <= Held(t)' /\ Cardinality(h[t]) <= Most
    <3>1. Held(t) = Cardinality(allocs[t]) + fetched[t]
      BY <1>1 DEF TestInv, CallsOK, FetchedOK, Held
    <3>2. Cardinality(h[t]) <= Cardinality(allocs[t]) + fetched[t] + 1
      BY <3>1, <2>1, <1>2, <2>8, <2>9
    <3>3. Cardinality(h[t]) <= Most
      BY <3>2, <2>1, <1>2, <2>9, FetchAssumption DEF Most, TestParameters
    <3>4. QED  BY <3>1, <3>2, <3>3, <2>1, <1>2, <2>7
  <2>11. ASSUME ~MainHas', NEW k \in 1 .. BlockCount[Pool], central_pool_'[Pool] < k
         PROVE  \E w \in Workers : k \in h[w]
    <3>1. CASE k = n  BY <3>1, <2>6, <1>6
    <3>2. CASE k # n
      <4>1. n < k  BY <3>2, <2>5, <2>11
      <4>2. PICK w \in Workers : k \in g[w]
        BY <4>1, <2>2, <2>4, <2>5, <2>11 DEF Shares
      <4>3. QED  BY <4>2, <2>6
    <3>3. QED  BY <3>1, <3>2
  <2>12. Shares(h)'
    BY <2>4, <2>6, <2>7, <2>9, <2>10, <2>11 DEF Shares
  <2>13. QED  BY <1>3, <1>4, <2>3, <2>6, <2>12 DEF Sharing, CallsOK
<1>7. QED  BY <1>5, <1>6, TestAssumption

(* The loop of fetch_from_central_pool() ends with a full batch or with the *)
(* pool exhausted: then it has fetched something as well, for the shares of *)
(* the workers do not exhaust the pool.                                     *)
LEMMA FetchEndTest ==
    ASSUME TestParameters, TestInv, NEW t \in ThreadIds, FetchEnd(t), UNCHANGED test
    PROVE  CallsOK' /\ Sharing'
<1> USE DEF FetchEnd, test
<1>1. /\ pc[t] = "fetch" /\ pool[t] = Pool /\ fetched[t] = Len(local_free_list_[t])
      /\ fetched[t] \in Nat /\ fetched[t] <= BLOCKS_TO_FETCH
      /\ life[Pool] = "alive" /\ central_pool_[Pool] \in Nat
  BY TestAssumption DEF TestInv, CallsOK, FetchedOK, LocalInv, LocalTypeOK, Lives
<1>2. local_free_list_[t] # <<>>
  <2> SUFFICES ASSUME local_free_list_[t] = <<>> PROVE FALSE
    OBVIOUS
  <2>1. fetched[t] = 0
    BY <1>1
  <2>2. central_pool_[Pool] = 0
    BY <2>1, <1>1, FetchAssumption DEF MayFetch, TestParameters
  <2>3. ~MainHas
    <3>1. CASE t = Main
      BY <3>1, <1>1 DEF TestInv, CallsOK, PhasesOK, MainHas
    <3>2. CASE t \in Workers
      BY <3>2, <1>1 DEF TestInv, CallsOK, PhasesOK, AllJoined
    <3>3. QED  BY <3>1, <3>2, TestAssumption
  <2>4. PICK g \in [Workers -> SUBSET (1 .. BlockCount[Pool])] : Shares(g)
    BY DEF TestInv, Sharing
  <2>5. PICK n \in 1 .. BlockCount[Pool] : \A w \in Workers : n \notin g[w]
    BY <2>4, PoolOutlastsWorkers DEF Shares
  <2>6. QED  BY <1>1, <2>2, <2>3, <2>4, <2>5 DEF Shares
<1>3. MainHas' <=> MainHas  BY DEF MainHas
<1>4. FetchedOK'
  BY <1>1, <1>2, FetchAssumption DEF TestInv, CallsOK, FetchedOK, Goto, LocalInv, LocalTypeOK
<1>5. AllocsOK'
  BY DEF TestInv, CallsOK, AllocsOK
<1>6. PhasesOK'
  BY <1>1, <1>3 DEF TestInv, CallsOK, PhasesOK, AllJoined, Goto, LocalInv, LocalTypeOK
<1>7. Sharing'
  BY <1>3, SharingKept DEF TestInv, Held
<1>8. QED  BY <1>4, <1>5, <1>6, <1>7 DEF CallsOK

(* A worker takes a block, for its vector. *)
LEMMA TakingTest ==
    ASSUME TestInv, NEW t \in Workers, Taking(t)
    PROVE  LocalInv' /\ CallsOK' /\ Sharing'
<1> DEFINE b == Head(local_free_list_[t])
<1>1. Take(t) /\ t \in ThreadIds /\ t # Main /\ Main \in ThreadIds
  BY TestAssumption DEF Taking
<1>2. LocalInv' /\ b \notin inUse /\ inUse' = inUse \cup {b} /\ Shortened(t)
  BY <1>1, TakeStep DEF TestInv
<1> HIDE DEF b
<1>3. /\ allocs' = [allocs EXCEPT ![t] = @ \cup {b}]
      /\ done \subseteq done' /\ done' \subseteq done \cup {t}
      /\ t \notin done' => Cardinality(allocs'[t]) # ALLOCS_PER_THREAD
  BY <1>2 DEF Taking
<1>4. /\ pc[t] = "take" /\ pc' = [pc EXCEPT ![t] = "idle"]
      /\ UNCHANGED <<central_pool_, life, running, pool, fetched>>
  BY <1>1 DEF Take, Goto
<1>5. /\ t \notin done /\ Cardinality(allocs[t]) < ALLOCS_PER_THREAD /\ IsFiniteSet(allocs[t])
      /\ allocs \in [Workers -> SUBSET inUse] /\ t \in running
      /\ ~AllJoined /\ ~MainHas /\ pc[Main] = "idle" /\ Cardinality(allocs[t]) \in Nat
  BY <1>4, FS_CardinalityType DEF TestInv, CallsOK, PhasesOK, AllocsOK, AllJoined
<1>6. /\ allocs'[t] = allocs[t] \cup {b}
      /\ \A w \in Workers : w # t => allocs'[w] = allocs[w]
      /\ allocs' \in [Workers -> SUBSET inUse']
  BY <1>2, <1>3, <1>5
<1>7. /\ IsFiniteSet(allocs'[t]) /\ Cardinality(allocs'[t]) = Cardinality(allocs[t]) + 1
  BY <1>2, <1>5, <1>6, FS_AddElement
<1>8. AllocsOK'
  <2>1. \A w \in Workers : IsFiniteSet(allocs'[w])
    BY <1>6, <1>7 DEF TestInv, CallsOK, AllocsOK
  <2>2. \A w \in Workers : b \notin allocs[w]
    BY <1>2, <1>5
  <2>3. \A v, w \in Workers : v # w => allocs'[v] \cap allocs'[w] = {}
    BY <2>2, <1>6 DEF TestInv, CallsOK, AllocsOK
  <2>4. done' \subseteq Workers
    BY <1>3 DEF TestInv, CallsOK, AllocsOK
  <2>5. QED  BY <2>1, <2>3, <2>4, <1>6 DEF AllocsOK
<1>9. /\ \A u \in ThreadIds : u # t => pc'[u] = pc[u] /\ local_free_list_'[u] = local_free_list_[u]
      /\ pc'[t] = "idle"
  BY <1>1, <1>2, <1>4 DEF Shortened, TestInv, LocalInv, LocalTypeOK
<1>10. FetchedOK'
  <2>1. fetched[t] = 0  BY <1>1, <1>4 DEF TestInv, CallsOK, FetchedOK
  <2>2. QED  BY <2>1, <1>4, <1>9 DEF TestInv, CallsOK, FetchedOK
<1>11. ~MainHas'
  <2>1. local_free_list_'[Main] = <<>>
    BY <1>1, <1>5, <1>9 DEF MainHas
  <2>2. \A c \in inUse' : \E w \in Workers : c \in allocs'[w]
    BY <1>2, <1>5, <1>6 DEF MainHas
  <2>3. QED  BY <2>1, <2>2 DEF MainHas
<1>12. PhasesOK'
  <2>1. \A w \in Workers : pc'[w] # "idle" =>
          w \notin done' /\ Cardinality(allocs'[w]) < ALLOCS_PER_THREAD
    BY <1>3, <1>6, <1>9, TestAssumption DEF TestInv, CallsOK, PhasesOK
  <2>2. pc'[Main] = "idle"
    BY <1>1, <1>5, <1>9
  <2>3. \A w \in Workers : allocs'[w] # {} \/ pc'[w] # "idle" => w \in running'
    BY <1>4, <1>5, <1>6, <1>9, TestAssumption DEF TestInv, CallsOK, PhasesOK
  <2>4. QED  BY <2>1, <2>2, <2>3, <1>11 DEF PhasesOK
<1>13. \A w \in Workers : Held(w)' = Held(w)
  <2>1. Held(t)' = Held(t)
    <3>1. /\ Len(local_free_list_[t]) \in Nat
          /\ Len(local_free_list_'[t]) = Len(local_free_list_[t]) - 1
      BY <1>2 DEF Shortened
    <3>2. QED  BY <3>1, <1>5, <1>7 DEF Held
  <2>2. ASSUME NEW w \in Workers, w # t PROVE Held(w)' = Held(w)
    BY <2>2, <1>6, <1>9, TestAssumption DEF Held
  <2>3. QED  BY <2>1, <2>2
<1>14. Sharing'
  BY <1>3, <1>4, <1>5, <1>13, SharingKept DEF TestInv
<1>15. QED  BY <1>2, <1>8, <1>10, <1>12, <1>14 DEF CallsOK

(* The main thread takes the block that the pool has left for it.           *)
LEMMA MainTakesTest ==
    ASSUME TestInv, Take(Main), AllJoined, UNCHANGED test
    PROVE  LocalInv' /\ CallsOK' /\ Sharing'
<1> DEFINE b == Head(local_free_list_[Main])
<1> USE DEF test
<1>1. Main \in ThreadIds /\ Main \notin Workers
  BY TestAssumption
<1>2. LocalInv' /\ b \notin inUse /\ inUse' = inUse \cup {b} /\ Shortened(Main)
  BY <1>1, TakeStep DEF TestInv
<1> HIDE DEF b
<1>3. /\ pc[Main] = "take" /\ pc' = [pc EXCEPT ![Main] = "idle"]
      /\ UNCHANGED <<central_pool_, life, running, pool, fetched>>
  BY DEF Take, Goto
<1>4. /\ \A u \in ThreadIds : u # Main => pc'[u] = pc[u] /\ local_free_list_'[u] = local_free_list_[u]
      /\ pc'[Main] = "idle"
  BY <1>1, <1>2, <1>3 DEF Shortened, TestInv, LocalInv, LocalTypeOK
<1>5. allocs \in [Workers -> SUBSET inUse]
  BY DEF TestInv, CallsOK, AllocsOK
<1>6. MainHas' /\ AllJoined'
  <2>1. \A w \in Workers : b \notin allocs[w]
    BY <1>2, <1>5
  <2>2. QED  BY <2>1, <1>2, <1>3 DEF MainHas, AllJoined
<1>7. AllocsOK'
  BY <1>2, <1>5 DEF TestInv, CallsOK, AllocsOK
<1>8. FetchedOK'
  BY <1>1, <1>3, <1>4 DEF TestInv, CallsOK, FetchedOK
<1>9. PhasesOK'
  BY <1>1, <1>3, <1>4, <1>6, TestAssumption DEF TestInv, CallsOK, PhasesOK
<1>10. \A w \in Workers : Held(w)' = Held(w)
  BY <1>1, <1>4, TestAssumption DEF Held
<1>11. Sharing'
  BY <1>6, <1>10, SharingKept DEF TestInv
<1>12. QED  BY <1>2, <1>7, <1>8, <1>9, <1>11 DEF CallsOK

(* A worker gives back a block of its vector: it lands in the worker's list. *)
LEMMA GivingBackTest ==
    ASSUME TestInv, NEW t \in Workers, GivingBack(t)
    PROVE  LocalInv' /\ CallsOK' /\ Sharing'
<1>1. PICK b \in allocs[t] : Deallocate(t, b) /\ allocs' = [allocs EXCEPT ![t] = @ \ {b}]
  BY DEF GivingBack
<1>2. t \in ThreadIds /\ t # Main /\ Main \in ThreadIds /\ t \in done /\ done' = done
  BY TestAssumption DEF GivingBack
<1>3. /\ b \in inUse /\ inUse' = inUse \ {b} /\ Push(t, b)
      /\ UNCHANGED <<central_pool_, life, running, pc, pool, fetched>>
  BY <1>1 DEF Deallocate, call
<1>4. LocalInv' /\ Lengthened(t)
  BY <1>2, <1>3, GivenBackStep DEF TestInv, call
<1>5. \A u \in ThreadIds : u # t => local_free_list_'[u] = local_free_list_[u]
  BY <1>4 DEF Lengthened
<1>6. /\ allocs \in [Workers -> SUBSET inUse]
      /\ \A w \in Workers : w # t => allocs'[w] = allocs[w] /\ b \notin allocs[w]
      /\ allocs'[t] = allocs[t] \ {b} /\ IsFiniteSet(allocs[t])
  BY <1>1 DEF TestInv, CallsOK, AllocsOK
<1>7. AllocsOK'
  <2>1. allocs' \in [Workers -> SUBSET inUse']
    BY <1>1, <1>3, <1>6
  <2>2. IsFiniteSet(allocs'[t])
    BY <1>6, FS_RemoveElement
  <2>3. QED  BY <2>1, <2>2, <1>2, <1>6 DEF TestInv, CallsOK, AllocsOK
<1>8. FetchedOK'
  BY <1>2, <1>3, <1>5, TestAssumption DEF TestInv, CallsOK, FetchedOK, PhasesOK
<1>9. MainHas' <=> MainHas
  <2>1. local_free_list_'[Main] = local_free_list_[Main]
    BY <1>2, <1>5
  <2>2. ASSUME NEW c \in inUse, \A w \in Workers : c \notin allocs[w]
        PROVE  c \in inUse' /\ \A w \in Workers : c \notin allocs'[w]
    BY <2>2, <1>3, <1>6
  <2>3. ASSUME NEW c \in inUse', \A w \in Workers : c \notin allocs'[w]
        PROVE  c \in inUse /\ \A w \in Workers : c \notin allocs[w]
    BY <2>3, <1>3, <1>6
  <2>4. QED  BY <2>1, <2>2, <2>3 DEF MainHas
<1>10. PhasesOK'
  BY <1>2, <1>3, <1>6, <1>9 DEF TestInv, CallsOK, PhasesOK, AllJoined
<1>11. \A w \in Workers : w \notin done' => Held(w)' = Held(w)
  BY <1>2, <1>5, <1>6, TestAssumption DEF Held
<1>12. Sharing'
  BY <1>2, <1>3, <1>9, <1>11, SharingKept DEF TestInv
<1>13. QED  BY <1>4, <1>7, <1>8, <1>10, <1>12 DEF CallsOK

(* The main thread gives its block back: it lands in its own list.          *)
LEMMA MainGivesBackTest ==
    ASSUME TestInv, NEW b \in inUse, Deallocate(Main, b), Joined, UNCHANGED test
    PROVE  LocalInv' /\ CallsOK' /\ Sharing'
<1> USE DEF test
<1>1. Main \in ThreadIds /\ Main \notin Workers /\ AllJoined
      /\ \A w \in Workers : allocs[w] = {} /\ w \notin running
  BY TestAssumption DEF Joined, AllJoined, TestInv, CallsOK, PhasesOK
<1>2. /\ inUse' = inUse \ {b} /\ Push(Main, b) /\ pc[Main] = "idle"
      /\ UNCHANGED <<central_pool_, life, running, pc, pool, fetched>>
  BY DEF Deallocate, call
<1>3. LocalInv' /\ Lengthened(Main)
  BY <1>1, <1>2, GivenBackStep DEF TestInv, call
<1>4. \A u \in ThreadIds : u # Main => local_free_list_'[u] = local_free_list_[u]
  BY <1>3 DEF Lengthened
<1>5. MainHas' /\ AllJoined'
  BY <1>1, <1>2, <1>3 DEF MainHas, AllJoined, Lengthened
<1>6. AllocsOK'
  BY <1>1 DEF TestInv, CallsOK, AllocsOK
<1>7. FetchedOK'
  BY <1>2, <1>4 DEF TestInv, CallsOK, FetchedOK
<1>8. PhasesOK'
  BY <1>2, <1>5 DEF TestInv, CallsOK, PhasesOK
<1>9. \A w \in Workers : Held(w)' = Held(w)
  BY <1>1, <1>4, TestAssumption DEF Held
<1>10. Sharing'
  BY <1>5, <1>9, SharingKept DEF TestInv
<1>11. QED  BY <1>3, <1>6, <1>7, <1>8, <1>10 DEF CallsOK

(* A worker exits when its vector is empty; its list is gone.               *)
LEMMA ExitingTest ==
    ASSUME TestInv, NEW t \in Workers, Exiting(t)
    PROVE  LocalInv' /\ CallsOK' /\ Sharing'
<1> USE DEF Exiting, ExitThread, call, test
<1>1. t \in ThreadIds /\ t # Main /\ Main \in ThreadIds /\ t \in done
  BY TestAssumption
<1>2. LocalInv'
  BY <1>1, ExitThreadStep DEF TestInv
<1>3. \A u \in ThreadIds : u # t => local_free_list_'[u] = local_free_list_[u]
  BY <1>1 DEF TestInv, LocalInv, LocalTypeOK
<1>4. MainHas' <=> MainHas
  BY <1>1, <1>3 DEF MainHas
<1>5. AllocsOK'
  BY DEF TestInv, CallsOK, AllocsOK
<1>6. FetchedOK'
  BY <1>3 DEF TestInv, CallsOK, FetchedOK
<1>7. PhasesOK'
  BY <1>4 DEF TestInv, CallsOK, PhasesOK, AllJoined
<1>8. \A w \in Workers : w \notin done' => Held(w)' = Held(w)
  BY <1>1, <1>3, TestAssumption DEF Held
<1>9. Sharing'
  BY <1>4, <1>8, SharingKept DEF TestInv
<1>10. QED  BY <1>2, <1>5, <1>6, <1>7, <1>9 DEF CallsOK

LEMMA NextTest == TestParameters /\ TestInv /\ [TestNext]_testVars => TestInv'
<1> SUFFICES ASSUME TestParameters, TestInv, [TestNext]_testVars PROVE TestInv'
  OBVIOUS
<1>1. /\ LocalInv /\ Main \in ThreadIds /\ Pool \in Pools
      /\ \A t \in Workers : t \in ThreadIds /\ t # Main
  BY TestAssumption DEF TestInv
<1>2. CASE Setup
  <2>1. CASE life[Pool] = "unborn" /\ CreatePool(Pool)
    <3>1. LocalInv'  BY <1>1, <2>1, UnbornIsUnheld, CreatePoolStep
    <3>2. QED  BY <1>2, <2>1, <3>1, CreateTest DEF TestInv, Setup
  <2>2. ASSUME NEW t \in ThreadIds \ (running \cup done), StartThread(t) PROVE TestInv'
    <3>1. LocalInv'  BY <1>1, <2>2, StartThreadStep
    <3>2. QED  BY <1>2, <2>2, <3>1, StartTest DEF TestInv, Setup
  <2>3. QED  BY <1>2, <2>1, <2>2 DEF Setup
<1>3. CASE MainCalls
  <2>1. Joined /\ UNCHANGED test /\ AllJoined
    BY <1>3 DEF MainCalls, Joined, AllJoined
  <2>2. CASE inUse = {} /\ local_free_list_[Main] = <<>> /\ Allocate(Main, Pool)
    <3>1. LocalInv'  BY <1>1, <2>2, AllocateStep
    <3>2. QED  BY <1>1, <2>1, <2>2, <3>1, AllocateTest, TestAssumption DEF TestInv
  <2>3. CASE FetchOne(Main)
    <3>1. LocalInv'  BY <1>1, <2>3, FetchOneStep
    <3>2. QED  BY <1>1, <2>1, <2>3, <3>1, FetchOneTest DEF TestInv
  <2>4. CASE FetchEnd(Main)
    <3>1. LocalInv'  BY <1>1, <2>4, FetchEndStep
    <3>2. QED  BY <1>1, <2>1, <2>4, <3>1, FetchEndTest DEF TestInv
  <2>5. CASE Take(Main)
    BY <2>1, <2>5, MainTakesTest DEF TestInv
  <2>6. ASSUME NEW b \in inUse, Deallocate(Main, b) PROVE TestInv'
    BY <2>1, <2>6, MainGivesBackTest DEF TestInv
  <2>7. CASE inUse = {} /\ local_free_list_[Main] # <<>> /\ DestroyPool(Pool)
    <3>1. LocalInv'  BY <1>1, <2>7, DestroyPoolStep
    <3>2. QED  BY <2>1, <2>7, <3>1, DestroyTest DEF TestInv
  <2>8. QED  BY <1>3, <2>2, <2>3, <2>4, <2>5, <2>6, <2>7 DEF MainCalls
<1>4. ASSUME NEW t \in Workers, AllocateNext(t) PROVE TestInv'
  <2>1. LocalInv'  BY <1>1, <1>4, AllocateStep DEF AllocateNext
  <2>2. QED  BY <1>1, <1>4, <2>1, AllocateTest DEF AllocateNext, TestInv
<1>5. ASSUME NEW t \in Workers, Fetching(t) PROVE TestInv'
  <2>1. CASE FetchOne(t)
    <3>1. LocalInv'  BY <1>1, <2>1, FetchOneStep
    <3>2. QED  BY <1>1, <1>5, <2>1, <3>1, FetchOneTest DEF Fetching, TestInv
  <2>2. CASE FetchEnd(t)
    <3>1. LocalInv'  BY <1>1, <2>2, FetchEndStep
    <3>2. QED  BY <1>1, <1>5, <2>2, <3>1, FetchEndTest DEF Fetching, TestInv
  <2>3. QED  BY <1>5, <2>1, <2>2 DEF Fetching
<1>6. ASSUME NEW t \in Workers, Taking(t) \/ GivingBack(t) \/ Exiting(t) PROVE TestInv'
  BY <1>6, TakingTest, GivingBackTest, ExitingTest DEF TestInv
<1>7. CASE UNCHANGED testVars
  <2> USE <1>7 DEF testVars, test, vars, call
  <2>1. LocalInv'  BY <1>1, UnchangedStep
  <2>2. MainHas' <=> MainHas  BY DEF MainHas
  <2>3. CallsOK'
    BY <2>2 DEF TestInv, CallsOK, AllocsOK, FetchedOK, PhasesOK, AllJoined
  <2>4. Sharing'
    BY <2>2, SharingKept DEF TestInv, Held
  <2>5. QED  BY <2>1, <2>3, <2>4 DEF TestInv
<1>8. QED  BY <1>2, <1>3, <1>4, <1>5, <1>6, <1>7 DEF TestNext

(* The asserts of the threaded test hold: with NUM_THREADS *                *)
(* (BLOCKS_TO_FETCH - 1) blocks to spare, no allocate() of a worker or of   *)
(* the main thread returns nullptr, for any number of threads and           *)
(* allocations and however the batches of the threads interleave.           *)
THEOREM SparesAreEnough == TestParameters /\ TestSpec => []AssertionsHold
<1> SUFFICES ASSUME TestParameters PROVE TestSpec => []AssertionsHold
  OBVIOUS
<1>1. TestInit => TestInv
  BY InitTest
<1>2. TestInv /\ [TestNext]_testVars => TestInv'
  BY NextTest
<1>3. TestInv => AssertionsHold
  BY DEF TestInv, CallsOK, FetchedOK, AssertionsHold
<1>4. QED  BY <1>1, <1>2, <1>3, PTL DEF TestSpec

----------------------------------------------------------------------------
(* The linked pool of MCPools, which is used beside the others. *)
LinkedProofs == INSTANCE LockFreePool_proofs WITH
    Allocators <- {t1, t2}, Freers <- {}, BlockCount <- 3, pc <- at, inUse <- left,
    local_free_list_ <- list, fetched <- got, life <- alive, running <- awake

(* Whichever pool is used, the linked one does what the pool with sequences *)
(* for lists does: fetch_from_central_pool(), allocate() and deallocate()   *)
(* move the same blocks, whatever stale links are read on the way.          *)
THEOREM LinksImplementLists == Payload \notin Nat /\ UsesSpec => ThreadLocalSpec
<1> SUFFICES ASSUME Payload \notin Nat PROVE UsesSpec => ThreadLocalSpec
  OBVIOUS
<1>1. UsesInit => LinkedProofs!LinkedInit
  BY DEF UsesInit,
         LinkedProofs!Init, Linked!Init, LinkedProofs!LinkedInit,
         Linked!LinkedInit, LinkedProofs!Threads, Linked!Threads,
         LinkedProofs!NoBlock, Linked!NoBlock, LinkedProofs!Blocks,
         Linked!Blocks, LinkedProofs!InitialHead, Linked!InitialHead,
         LinkedProofs!InitialLinks, Linked!InitialLinks,
         LinkedProofs!InitialList, Linked!InitialList
<1>2. [UsesNext]_uses => [LinkedProofs!LinkedNext]_LinkedProofs!linkedVars
  BY DEF UsesNext, uses, linked,
         LinkedProofs!Threads, Linked!Threads, LinkedProofs!Blocks,
         Linked!Blocks, LinkedProofs!NoBlock, Linked!NoBlock, LinkedProofs!vars,
         Linked!vars, LinkedProofs!locals, Linked!locals, LinkedProofs!own,
         Linked!own, LinkedProofs!calls, Linked!calls, LinkedProofs!world,
         Linked!world, LinkedProofs!linkedVars, Linked!linkedVars,
         LinkedProofs!LinkedNext, Linked!LinkedNext, LinkedProofs!Goto,
         Linked!Goto, LinkedProofs!Step, Linked!Step, LinkedProofs!Push,
         Linked!Push, LinkedProofs!CreatePool, Linked!CreatePool,
         LinkedProofs!DestroyPool, Linked!DestroyPool, LinkedProofs!StartThread,
         Linked!StartThread, LinkedProofs!ExitThread, Linked!ExitThread,
         LinkedProofs!Enter, Linked!Enter, LinkedProofs!Allocate,
         Linked!Allocate, LinkedProofs!InAllocate, Linked!InAllocate,
         LinkedProofs!CallCentral, Linked!CallCentral, LinkedProofs!AllocLoad,
         Linked!AllocLoad, LinkedProofs!AllocReadNext, Linked!AllocReadNext,
         LinkedProofs!AllocRetry, Linked!AllocRetry, LinkedProofs!ChangedHead,
         Linked!ChangedHead, LinkedProofs!CentralGives, Linked!CentralGives,
         LinkedProofs!AllocSwap, Linked!AllocSwap, LinkedProofs!Fetched,
         Linked!Fetched, LinkedProofs!LinkIn, Linked!LinkIn,
         LinkedProofs!FetchEnd, Linked!FetchEnd, LinkedProofs!Take, Linked!Take,
         LinkedProofs!TakeNone, Linked!TakeNone, LinkedProofs!Deallocate,
         Linked!Deallocate, LinkedProofs!UserOverwrites, Linked!UserOverwrites,
         LinkedProofs!UserWrites, Linked!UserWrites
<1>3. LinkedProofs!LinkedSpec => LinkedProofs!ThreadLocalSpec
  BY FetchAssumption, LinkedProofs!LinkedImplementsThreadLocal
<1>4. LinkedProofs!ThreadLocal!Init => Linked!ThreadLocal!Init
  BY Zenon
     DEF LinkedProofs!ThreadLocal!Init, Linked!ThreadLocal!Init,
         LinkedProofs!Threads, Linked!Threads, LinkedProofs!Blocks,
         Linked!Blocks, LinkedProofs!NoBlock, Linked!NoBlock,
         LinkedProofs!ThePool, Linked!ThePool, LinkedProofs!AsBlock,
         Linked!AsBlock, LinkedProofs!ListOf, Linked!ListOf,
         LinkedProofs!ListFrom, Linked!ListFrom, LinkedProofs!ListIn,
         Linked!ListIn, LinkedProofs!Followed, Linked!Followed
<1>5. [LinkedProofs!ThreadLocal!Next]_LinkedProofs!ThreadLocal!vars
      => [Linked!ThreadLocal!Next]_Linked!ThreadLocal!vars
  BY Zenon
     DEF LinkedProofs!ThreadLocal!vars, Linked!ThreadLocal!vars,
         LinkedProofs!ThreadLocal!call, Linked!ThreadLocal!call,
         LinkedProofs!ThreadLocal!Next, Linked!ThreadLocal!Next,
         LinkedProofs!ThreadLocal!Goto, Linked!ThreadLocal!Goto,
         LinkedProofs!ThreadLocal!Push, Linked!ThreadLocal!Push,
         LinkedProofs!ThreadLocal!CreatePool, Linked!ThreadLocal!CreatePool,
         LinkedProofs!ThreadLocal!DestroyPool, Linked!ThreadLocal!DestroyPool,
         LinkedProofs!ThreadLocal!StartThread, Linked!ThreadLocal!StartThread,
         LinkedProofs!ThreadLocal!ExitThread, Linked!ThreadLocal!ExitThread,
         LinkedProofs!ThreadLocal!Allocate, Linked!ThreadLocal!Allocate,
         LinkedProofs!ThreadLocal!InAllocate, Linked!ThreadLocal!InAllocate,
         LinkedProofs!ThreadLocal!MayFetch, Linked!ThreadLocal!MayFetch,
         LinkedProofs!ThreadLocal!FetchOne, Linked!ThreadLocal!FetchOne,
         LinkedProofs!ThreadLocal!FetchEnd, Linked!ThreadLocal!FetchEnd,
         LinkedProofs!ThreadLocal!Take, Linked!ThreadLocal!Take,
         LinkedProofs!ThreadLocal!TakeNone, Linked!ThreadLocal!TakeNone,
         LinkedProofs!ThreadLocal!Deallocate, Linked!ThreadLocal!Deallocate,
         LinkedProofs!ThreadLocal!Blocks, Linked!ThreadLocal!Blocks,
         LinkedProofs!Threads, Linked!Threads, LinkedProofs!Blocks,
         Linked!Blocks, LinkedProofs!NoBlock, Linked!NoBlock,
         LinkedProofs!ThePool, Linked!ThePool, LinkedProofs!AsBlock,
         Linked!AsBlock, LinkedProofs!ListOf, Linked!ListOf,
         LinkedProofs!ListFrom, Linked!ListFrom, LinkedProofs!ListIn,
         Linked!ListIn, LinkedProofs!Followed, Linked!Followed
<1>6. QED
  BY <1>1, <1>2, <1>3, <1>4, <1>5, PTL
     DEF UsesSpec, ThreadLocalSpec, LinkedProofs!LinkedSpec, LinkedProofs!ThreadLocalSpec,
         LinkedProofs!ThreadLocal!Spec, Linked!ThreadLocalSpec, Linked!ThreadLocal!Spec
=============================================================================
