------------------------ MODULE LockFreePool_proofs ------------------------
(***************************************************************************)
(* The lock-free pool is sound in the uses the thread-local pool makes of  *)
(* it: no block is given back, or one thread only allocates.  The thread-  *)
(* local pool linked on top of it is the one with sequences for lists.     *)
(***************************************************************************)
EXTENDS ThreadLocalPoolLinked, Integers, SequenceTheorems, FiniteSetTheorems,
        WellFoundedInduction, TLAPS

(* One thread allocates, or nothing is given back. *)
OneAllocator == \A t, u \in Allocators : t = u
SafeUse == OneAllocator \/ Freers = {}

----------------------------------------------------------------------------
(* What Tail and a push to the front do to a sequence without repetition. *)
Elements(s) == {s[i] : i \in 1 .. Len(s)}
Distinct(s) == \A i, j \in 1 .. Len(s) : s[i] = s[j] => i = j

LEMMA TailOf ==
  ASSUME NEW S, NEW s \in Seq(S), s # <<>>
  PROVE  /\ Len(s) \in Nat \ {0}
         /\ s[1] \in S
         /\ Tail(s) \in Seq(S)
         /\ Len(Tail(s)) = Len(s) - 1
         /\ \A i \in 1 .. Len(s) - 1 : Tail(s)[i] = s[i + 1]
<1>1. Len(s) \in Nat \ {0}
  BY EmptySeq
<1>2. /\ Tail(s) \in Seq(S)
      /\ Len(Tail(s)) = Len(s) - 1
      /\ \A i \in 1 .. Len(Tail(s)) : Tail(s)[i] = s[i + 1]
  BY HeadTailProperties
<1>3. s[1] \in S
  BY <1>1, ElementOfSeq
<1>4. QED  BY <1>1, <1>2, <1>3, Zenon

LEMMA TailElements ==
  ASSUME NEW S, NEW s \in Seq(S), s # <<>>, Distinct(s)
  PROVE  /\ Elements(Tail(s)) = Elements(s) \ {s[1]}
         /\ Distinct(Tail(s))
<1> DEFINE t == Tail(s)
           n == Len(s)
<1>1. /\ n \in Nat \ {0} /\ Len(t) = n - 1
      /\ \A i \in 1 .. n - 1 : t[i] = s[i + 1]
  BY TailOf
<1>2. \A i, j \in 1 .. n : s[i] = s[j] => i = j
  BY DEF Distinct
<1> HIDE DEF t
<1>3. Distinct(t)
  BY <1>1, <1>2 DEF Distinct
<1>4. ASSUME NEW x PROVE x \in Elements(t) <=> x \in Elements(s) \ {s[1]}
  <2>1. ASSUME NEW i \in 1 .. n - 1, x = t[i] PROVE x \in Elements(s) \ {s[1]}
    <3>1. i + 1 \in 1 .. n /\ 1 \in 1 .. n /\ i + 1 # 1 /\ x = s[i + 1]
      BY <2>1, <1>1
    <3>2. QED  BY <3>1, <1>2 DEF Elements
  <2>2. ASSUME NEW i \in 1 .. n, x = s[i], x # s[1] PROVE x \in Elements(t)
    <3>1. i - 1 \in 1 .. n - 1 /\ (i - 1) + 1 = i
      BY <2>2, <1>1
    <3>2. t[i - 1] = x
      BY <3>1, <2>2, <1>1
    <3>3. QED  BY <3>1, <3>2, <1>1 DEF Elements
  <2>3. QED  BY <2>1, <2>2, <1>1 DEF Elements
<1>5. Elements(t) = Elements(s) \ {s[1]}
  BY <1>4
<1>6. QED  BY <1>3, <1>5 DEF t

LEMMA PushOf ==
  ASSUME NEW S, NEW s \in Seq(S), NEW b \in S
  PROVE  /\ Len(s) \in Nat
         /\ <<b>> \o s \in Seq(S)
         /\ Len(<<b>> \o s) = Len(s) + 1
         /\ (<<b>> \o s)[1] = b
         /\ \A i \in 1 .. Len(s) : (<<b>> \o s)[i + 1] = s[i]
<1> DEFINE p == <<b>>
           t == p \o s
           n == Len(s)
<1>1. p \in Seq(S) /\ Len(p) = 1 /\ p[1] = b
  OBVIOUS
<1>2. n \in Nat
  BY LenProperties
<1> HIDE DEF p
<1>3. /\ t \in Seq(S) /\ Len(t) = Len(p) + n
      /\ \A i \in 1 .. Len(p) + n : t[i] = IF i <= Len(p) THEN p[i] ELSE s[i - Len(p)]
  BY <1>1, ConcatProperties
<1> HIDE DEF t, n
<1>4. Len(t) = n + 1 /\ t[1] = b
  BY <1>1, <1>2, <1>3
<1>5. ASSUME NEW i \in 1 .. n PROVE t[i + 1] = s[i]
  <2>1. i + 1 \in 1 .. 1 + n /\ ~(i + 1 <= 1) /\ (i + 1) - 1 = i
    BY <1>2
  <2>2. QED  BY <2>1, <1>1, <1>3
<1>6. QED  BY <1>2, <1>3, <1>4, <1>5 DEF t, p, n

LEMMA PushElements ==
  ASSUME NEW S, NEW s \in Seq(S), NEW b \in S, b \notin Elements(s), Distinct(s)
  PROVE  /\ Elements(<<b>> \o s) = Elements(s) \cup {b}
         /\ Distinct(<<b>> \o s)
<1> DEFINE t == <<b>> \o s
           n == Len(s)
<1>1. /\ n \in Nat /\ Len(t) = n + 1 /\ t[1] = b
      /\ \A i \in 1 .. n : t[i + 1] = s[i]
  BY PushOf
<1> HIDE DEF t
<1>2. \A i \in 2 .. n + 1 : i - 1 \in 1 .. n /\ t[i] = s[i - 1]
  <2>1. SUFFICES ASSUME NEW i \in 2 .. n + 1 PROVE i - 1 \in 1 .. n /\ t[i] = s[i - 1]
    OBVIOUS
  <2>2. i - 1 \in 1 .. n /\ (i - 1) + 1 = i
    BY <1>1
  <2>3. QED  BY <2>2, <1>1
<1>3. \A i \in 1 .. n : s[i] # b
  BY DEF Elements
<1>4. \A i \in 1 .. n + 1 : i = 1 \/ i \in 2 .. n + 1
  BY <1>1
<1>5. Distinct(t)
  <2>1. SUFFICES ASSUME NEW i \in 1 .. n + 1, NEW j \in 1 .. n + 1, t[i] = t[j]
                 PROVE  i = j
    BY <1>1 DEF Distinct
  <2>2. CASE i = 1 \/ j = 1
    BY <2>1, <2>2, <1>1, <1>2, <1>3, <1>4
  <2>3. CASE i \in 2 .. n + 1 /\ j \in 2 .. n + 1
    <3>1. s[i - 1] = s[j - 1] /\ i - 1 \in 1 .. n /\ j - 1 \in 1 .. n
      BY <2>1, <2>3, <1>2
    <3>2. i - 1 = j - 1
      BY <3>1 DEF Distinct
    <3>3. QED  BY <3>2
  <2>4. QED  BY <2>2, <2>3, <1>4
<1>6. ASSUME NEW x PROVE x \in Elements(t) <=> x \in Elements(s) \cup {b}
  <2>1. ASSUME x \in Elements(t) PROVE x \in Elements(s) \cup {b}
    BY <2>1, <1>1, <1>2, <1>4 DEF Elements
  <2>2. ASSUME NEW i \in 1 .. n, x = s[i] PROVE x \in Elements(t)
    <3>1. i + 1 \in 1 .. n + 1 /\ t[i + 1] = x
      BY <2>2, <1>1
    <3>2. QED  BY <3>1, <1>1 DEF Elements
  <2>3. ASSUME x = b PROVE x \in Elements(t)
    <3>1. 1 \in 1 .. n + 1
      BY <1>1
    <3>2. QED  BY <3>1, <2>3, <1>1 DEF Elements
  <2>4. QED  BY <2>1, <2>2, <2>3 DEF Elements
<1>7. Elements(t) = Elements(s) \cup {b}
  BY <1>6
<1>8. QED  BY <1>5, <1>7 DEF t

----------------------------------------------------------------------------
(* A thread inside allocate() holds the block it saw at the head.  When    *)
(* threads also give blocks back there is no other allocator, and that     *)
(* block is still in the list.                                             *)
Popping(t) == pc[t] \in {"readNext", "swap"}
Pushing(t) == pc[t] \in {"writeNext", "push"}

PoppersHold ==
  \A t \in Threads : Popping(t) => /\ t \in Allocators
                                   /\ head[t] \in Blocks
                                   /\ OneAllocator => head[t] \in FreeSet

(* The link read in allocate() is that of the block while the block is free. *)
LinkIsCurrent ==
  \A t \in Threads :
    pc[t] = "swap" /\ head[t] \in FreeSet => link[t] = next[head[t]]

(* A block inside deallocate() is neither free nor in use, and in one call. *)
PushersOwn ==
  \A t \in Threads : Pushing(t) => /\ t \in Freers
                                   /\ block[t] \in Blocks \ (inUse \cup FreeSet)
                                   /\ \A u \in Threads :
                                        Pushing(u) /\ block[u] = block[t] => u = t
PushersLink ==
  \A t \in Threads : pc[t] = "push" => next[block[t]] = head[t]

Inv == /\ SafeUse
       /\ TypeOK
       /\ FreeListIntact
       /\ PoppersHold
       /\ LinkIsCurrent
       /\ PushersOwn
       /\ PushersLink

LEMMA FreeListElements ==
  ASSUME FreeListIntact
  PROVE  FreeSet = Elements(free) /\ Distinct(free)
BY DEF FreeListIntact, FreeSet, Elements, Distinct

LEMMA InitInv == SafeUse /\ Init => Inv
<1> SUFFICES ASSUME SafeUse, Init PROVE Inv
  OBVIOUS
<1>1. BlockCount \in Nat /\ NoBlock \notin Blocks
  BY BlockCountAssumption DEF Blocks, NoBlock
<1>2. free = [i \in 1 .. BlockCount |-> BlockCount + 1 - i]
  BY DEF Init, InitialHead, InitialLinks, InitialList, Blocks
<1>3. \A i \in 1 .. BlockCount : BlockCount + 1 - i \in Blocks
  BY <1>1 DEF Blocks
<1>4. free \in Seq(Blocks) /\ Len(free) = BlockCount
  <2>1. free \in [1 .. BlockCount -> Blocks]
    BY <1>2, <1>3
  <2>2. QED  BY <2>1, <1>1
<1>5. TypeOK
  <2>1. \A b \in Blocks : b - 1 \in Blocks \cup {NoBlock}
    BY <1>1 DEF Blocks, NoBlock
  <2>2. next \in [Blocks -> Words]
    BY <2>1 DEF Init, InitialHead, InitialLinks, InitialList, Words
  <2>3. BlockCount \in Blocks \cup {NoBlock}
    BY <1>1 DEF Blocks, NoBlock
  <2>4. free_list_head_ \in Blocks \cup {NoBlock}
    BY <2>3 DEF Init, InitialHead, InitialLinks, InitialList
  <2>5. /\ pc \in [Threads -> {"idle", "readNext", "swap", "writeNext", "push"}]
        /\ head \in [Threads -> Blocks \cup {NoBlock}]
        /\ link \in [Threads -> Words]
        /\ block \in [Threads -> Blocks \cup {NoBlock}]
        /\ inUse \in SUBSET Blocks
    BY DEF Init, InitialHead, InitialLinks, InitialList, Words
  <2>6. QED  BY <1>4, <2>2, <2>4, <2>5 DEF TypeOK
<1>6. FreeListIntact
  <2>1. \A i \in 1 .. BlockCount : free[i] = BlockCount + 1 - i /\ free[i] \in Blocks
    BY <1>2, <1>3
  <2>2. free_list_head_ = IF free = <<>> THEN NoBlock ELSE free[1]
    <3>1. CASE BlockCount = 0
      <4>1. free = <<>>
        BY <1>4, <3>1, EmptySeq
      <4>2. QED  BY <4>1, <3>1 DEF Init, InitialHead, InitialLinks, InitialList, NoBlock
    <3>2. CASE BlockCount # 0
      <4>1. free # <<>> /\ 1 \in 1 .. BlockCount /\ BlockCount + 1 - 1 = BlockCount
        BY <1>1, <1>4, <3>2
      <4>2. QED  BY <4>1, <2>1, Zenon DEF Init, InitialHead, InitialLinks, InitialList
    <3>3. QED  BY <3>1, <3>2
  <2>3. ASSUME NEW i \in 1 .. Len(free)
        PROVE  next[free[i]] = IF i = Len(free) THEN NoBlock ELSE free[i + 1]
    <3>1. next[free[i]] = BlockCount - i
      BY <2>1, <2>3, <1>1, <1>4 DEF Init, InitialHead, InitialLinks, InitialList
    <3>2. CASE i = Len(free)
      BY <3>1, <3>2, <1>1, <1>4 DEF NoBlock
    <3>3. CASE i # Len(free)
      <4>1. i + 1 \in 1 .. BlockCount /\ BlockCount + 1 - (i + 1) = BlockCount - i
        BY <3>3, <2>3, <1>1, <1>4
      <4>2. QED  BY <4>1, <3>1, <3>3, <2>1
    <3>4. QED  BY <3>2, <3>3
  <2>4. \A i, j \in 1 .. Len(free) : free[i] = free[j] => i = j
    BY <2>1, <1>1, <1>4
  <2>5. QED  BY <2>2, <2>3, <2>4, Zenon DEF Init, InitialHead, InitialLinks, InitialList, FreeListIntact
<1>7. QED
  BY <1>5, <1>6 DEF Inv, Init, PoppersHold, LinkIsCurrent, PushersOwn, PushersLink,
     Popping, Pushing

----------------------------------------------------------------------------
(* A thread starts allocate(): the block at the head is free. *)
LEMMA AllocLoadStep ==
  ASSUME Inv, NEW t \in Allocators, AllocLoad(t)
  PROVE  Inv'
<1> USE DEF AllocLoad, Goto
<1>1. t \in Threads /\ free_list_head_ \in Blocks
  BY DEF Inv, TypeOK, Threads
<1>2. free_list_head_ \in FreeSet
  <2>1. free # <<>> /\ free_list_head_ = free[1] /\ free \in Seq(Blocks)
    BY DEF Inv, FreeListIntact, TypeOK
  <2>2. 1 \in 1 .. Len(free)
    BY <2>1, TailOf
  <2>3. QED  BY <2>1, <2>2 DEF FreeSet
<1>3. TypeOK' /\ FreeListIntact' /\ FreeSet' = FreeSet
  BY <1>1 DEF Inv, TypeOK, FreeListIntact, FreeSet
<1>4. PoppersHold'
  BY <1>1, <1>2, <1>3 DEF Inv, TypeOK, PoppersHold, Popping
<1>5. LinkIsCurrent'
  BY <1>1, <1>3 DEF Inv, TypeOK, LinkIsCurrent
<1>6. PushersOwn' /\ PushersLink'
  BY <1>1, <1>3 DEF Inv, TypeOK, PushersOwn, PushersLink, Pushing
<1>7. QED  BY <1>3, <1>4, <1>5, <1>6 DEF Inv, SafeUse, OneAllocator

LEMMA AllocReadNextStep ==
  ASSUME Inv, NEW t \in Allocators, AllocReadNext(t)
  PROVE  Inv'
<1> USE DEF AllocReadNext, Goto
<1>1. t \in Threads /\ next[head[t]] \in Words
  BY DEF Inv, TypeOK, Threads
<1>2. TypeOK' /\ FreeListIntact' /\ FreeSet' = FreeSet
  BY <1>1 DEF Inv, TypeOK, FreeListIntact, FreeSet
<1>3. PoppersHold' /\ LinkIsCurrent'
  BY <1>1, <1>2 DEF Inv, TypeOK, PoppersHold, LinkIsCurrent, Popping
<1>4. PushersOwn' /\ PushersLink'
  BY <1>1, <1>2 DEF Inv, TypeOK, PushersOwn, PushersLink, Pushing
<1>5. QED  BY <1>2, <1>3, <1>4 DEF Inv, SafeUse, OneAllocator

(* The swap of allocate() takes the first free block out of the list: the   *)
(* link it stores is the one of that block, so the second becomes the head. *)
LEMMA AllocSwapTakes ==
  ASSUME Inv, NEW t \in Allocators, AllocSwap(t)
  PROVE  /\ head[t] \in FreeSet
         /\ FreeSet' = FreeSet \ {head[t]}
         /\ FreeListIntact'
         /\ free' \in Seq(Blocks)
         /\ free_list_head_' \in Blocks \cup {NoBlock}
<1> USE DEF AllocSwap
<1>1. t \in Threads /\ head[t] \in Blocks /\ NoBlock \notin Blocks
  BY DEF Inv, TypeOK, Threads, PoppersHold, Popping, Blocks, NoBlock
<1>2. free # <<>> /\ head[t] = free[1] /\ free \in Seq(Blocks) /\ free' = Tail(free)
  BY <1>1 DEF Inv, FreeListIntact, TypeOK
<1>3. /\ Len(free) \in Nat \ {0} /\ free' \in Seq(Blocks) /\ Len(free') = Len(free) - 1
      /\ \A i \in 1 .. Len(free) - 1 : free'[i] = free[i + 1]
  BY <1>2, TailOf
<1>4. Elements(free') = Elements(free) \ {free[1]} /\ Distinct(free')
  BY <1>2, TailElements, FreeListElements DEF Inv
<1>5. FreeSet = Elements(free) /\ FreeSet' = Elements(free')
  BY FreeListElements DEF Inv, FreeSet, Elements
<1>6. head[t] \in FreeSet
  <2>1. 1 \in 1 .. Len(free)
    BY <1>3
  <2>2. QED  BY <2>1, <1>2 DEF FreeSet
<1>7. free_list_head_' = next[free[1]]
  BY <1>1, <1>2, <1>6 DEF Inv, LinkIsCurrent
<1>8. next[free[1]] = IF 1 = Len(free) THEN NoBlock ELSE free[2]
  <2>1. 1 \in 1 .. Len(free) /\ 1 + 1 = 2
    BY <1>3
  <2>2. QED  BY <2>1 DEF Inv, FreeListIntact
<1>9. free_list_head_' = IF free' = <<>> THEN NoBlock ELSE free'[1]
  <2>1. CASE Len(free) = 1
    <3>1. free' = <<>>
      BY <2>1, <1>3, EmptySeq
    <3>2. QED  BY <3>1, <2>1, <1>7, <1>8
  <2>2. CASE Len(free) # 1
    <3>1. 1 \in 1 .. Len(free) - 1 /\ 1 + 1 = 2 /\ Len(free') # 0
      BY <2>2, <1>3
    <3>2. free' # <<>> /\ free'[1] = free[2]
      BY <3>1, <1>3
    <3>3. QED  BY <3>2, <2>2, <1>7, <1>8
  <2>3. QED  BY <2>1, <2>2
<1>10. ASSUME NEW i \in 1 .. Len(free')
       PROVE  next'[free'[i]] = IF i = Len(free') THEN NoBlock ELSE free'[i + 1]
  <2>1. i \in 1 .. Len(free) - 1 /\ i + 1 \in 1 .. Len(free) /\ free'[i] = free[i + 1]
    BY <1>3, <1>10
  <2>2. next[free[i + 1]] = IF i + 1 = Len(free) THEN NoBlock ELSE free[i + 1 + 1]
    BY <2>1 DEF Inv, FreeListIntact
  <2>3. CASE i = Len(free')
    BY <2>1, <2>2, <2>3, <1>3
  <2>4. CASE i # Len(free')
    <3>1. i + 1 \in 1 .. Len(free) - 1 /\ i + 1 # Len(free)
      <4>1. \A n \in Nat \ {0} : \A m, k : m = n - 1 /\ k \in 1 .. m /\ k # m
                                 => k + 1 \in 1 .. n - 1 /\ k + 1 # n
        OBVIOUS
      <4>2. QED  BY <4>1, <1>3, <1>10, <2>4, Zenon
    <3>2. QED  BY <3>1, <2>1, <2>2, <2>4, <1>3, Zenon
  <2>5. QED  BY <2>3, <2>4
<1>11. FreeSet' \cap inUse' = {}
  <2>1. FreeSet \cap inUse = {}
    BY DEF Inv, FreeListIntact
  <2>2. FreeSet' = FreeSet \ {head[t]} /\ inUse' = inUse \cup {head[t]}
    BY <1>2, <1>4, <1>5
  <2>3. QED  BY <2>1, <2>2
<1>12. FreeListIntact'
  BY <1>4, <1>9, <1>10, <1>11 DEF FreeListIntact, Distinct
<1>13. free_list_head_' \in Blocks \cup {NoBlock}
  <2>1. free' # <<>> => free'[1] \in Blocks
    BY <1>3, TailOf
  <2>2. QED  BY <2>1, <1>9
<1>14. QED  BY <1>2, <1>3, <1>4, <1>5, <1>6, <1>12, <1>13

LEMMA AllocSwapStep ==
  ASSUME Inv, NEW t \in Allocators, AllocSwap(t)
  PROVE  Inv'
<1> USE DEF AllocSwap, Goto
<1>1. t \in Threads /\ head[t] \in Blocks
  BY DEF Inv, TypeOK, Threads, PoppersHold, Popping
<1>2. /\ head[t] \in FreeSet /\ FreeSet' = FreeSet \ {head[t]}
      /\ FreeListIntact' /\ free' \in Seq(Blocks)
      /\ free_list_head_' \in Blocks \cup {NoBlock}
  BY AllocSwapTakes
<1>3. TypeOK'
  BY <1>1, <1>2 DEF Inv, TypeOK
<1>4. PoppersHold'
  <2>1. ASSUME NEW u \in Threads, Popping(u)', OneAllocator PROVE head'[u] \in FreeSet'
    <3>1. u # t /\ u \in Allocators
      BY <2>1, <1>1 DEF Inv, TypeOK, PoppersHold, Popping
    <3>2. QED  BY <3>1, <2>1 DEF OneAllocator
  <2>2. QED  BY <1>1, <2>1 DEF Inv, TypeOK, PoppersHold, Popping, OneAllocator
<1>5. LinkIsCurrent'
  BY <1>1, <1>2 DEF Inv, TypeOK, LinkIsCurrent
<1>6. PushersOwn' /\ PushersLink'
  BY <1>1, <1>2 DEF Inv, TypeOK, PushersOwn, PushersLink, Pushing
<1>7. QED  BY <1>2, <1>3, <1>4, <1>5, <1>6 DEF Inv, SafeUse, OneAllocator

LEMMA AllocRetryStep ==
  ASSUME Inv, NEW t \in Allocators, AllocRetry(t)
  PROVE  Inv'
<1> USE DEF AllocRetry, Goto
<1>1. t \in Threads
  BY DEF Threads
<1>2. free_list_head_ # NoBlock => free_list_head_ \in FreeSet /\ free_list_head_ \in Blocks
  <2>1. SUFFICES ASSUME free_list_head_ # NoBlock PROVE free_list_head_ \in FreeSet
    BY DEF Inv, TypeOK
  <2>2. free # <<>> /\ free_list_head_ = free[1] /\ free \in Seq(Blocks)
    BY <2>1 DEF Inv, FreeListIntact, TypeOK
  <2>3. 1 \in 1 .. Len(free)
    BY <2>2, TailOf
  <2>4. QED  BY <2>2, <2>3 DEF FreeSet
<1>3. TypeOK' /\ FreeListIntact' /\ FreeSet' = FreeSet
  BY <1>1 DEF Inv, TypeOK, FreeListIntact, FreeSet
<1>4. PoppersHold'
  BY <1>1, <1>2, <1>3 DEF Inv, TypeOK, PoppersHold, Popping, OneAllocator
<1>5. LinkIsCurrent'
  BY <1>1, <1>3 DEF Inv, TypeOK, LinkIsCurrent
<1>6. PushersOwn' /\ PushersLink'
  BY <1>1, <1>3 DEF Inv, TypeOK, PushersOwn, PushersLink, Pushing
<1>7. QED  BY <1>3, <1>4, <1>5, <1>6 DEF Inv, SafeUse, OneAllocator

----------------------------------------------------------------------------
(* A block that is given back was in use, so no list and no call has it. *)
LEMMA FreeLoadStep ==
  ASSUME Inv, NEW t \in Freers, NEW b \in Blocks, FreeLoad(t, b)
  PROVE  Inv'
<1> USE DEF FreeLoad, Goto
<1>1. t \in Threads /\ b \notin FreeSet
  BY DEF Inv, FreeListIntact, Threads
<1>2. TypeOK' /\ FreeListIntact' /\ FreeSet' = FreeSet
  BY <1>1 DEF Inv, TypeOK, FreeListIntact, FreeSet
<1>3. PoppersHold' /\ LinkIsCurrent'
  BY <1>1, <1>2 DEF Inv, TypeOK, PoppersHold, LinkIsCurrent, Popping
<1>4. \A u \in Threads : Pushing(u) => block[u] # b
  BY DEF Inv, PushersOwn
<1>5. PushersOwn'
  BY <1>1, <1>2, <1>4 DEF Inv, TypeOK, PushersOwn, Pushing
<1>6. PushersLink'
  BY <1>1, <1>2, <1>4 DEF Inv, TypeOK, PushersLink, Pushing
<1>7. QED  BY <1>2, <1>3, <1>5, <1>6 DEF Inv, SafeUse, OneAllocator

(* Writing the first word of a block outside the list leaves the list alone. *)
LEMMA WriteOutside ==
  ASSUME Inv, NEW b \in Blocks \ FreeSet, NEW w \in Words,
         next' = [next EXCEPT ![b] = w],
         UNCHANGED <<free_list_head_, inUse, free>>
  PROVE  FreeListIntact' /\ FreeSet' = FreeSet /\ next' \in [Blocks -> Words]
<1>1. \A i \in 1 .. Len(free) : free[i] \in FreeSet
  BY DEF FreeSet
<1>2. FreeSet \subseteq Blocks
  BY ElementOfSeq DEF FreeSet, Inv, TypeOK
<1>3. \A i \in 1 .. Len(free) : next'[free[i]] = next[free[i]]
  BY <1>1, <1>2 DEF Inv, TypeOK
<1>4. FreeSet' = FreeSet
  BY DEF FreeSet
<1>5. QED  BY <1>3, <1>4 DEF Inv, TypeOK, FreeListIntact

LEMMA FreeWriteNextStep ==
  ASSUME Inv, NEW t \in Freers, FreeWriteNext(t)
  PROVE  Inv'
<1> USE DEF FreeWriteNext, Goto
<1>1. /\ t \in Threads /\ block[t] \in Blocks \ (inUse \cup FreeSet)
      /\ head[t] \in Words /\ head[t] \in Blocks \cup {NoBlock}
  BY DEF Inv, TypeOK, Threads, PushersOwn, Pushing, Words
<1>2. FreeListIntact' /\ FreeSet' = FreeSet /\ next' \in [Blocks -> Words]
  BY <1>1, WriteOutside
<1>3. TypeOK'
  BY <1>1, <1>2 DEF Inv, TypeOK
<1>4. PoppersHold' /\ LinkIsCurrent'
  BY <1>1, <1>2 DEF Inv, TypeOK, PoppersHold, LinkIsCurrent, Popping
<1>5. PushersOwn'
  BY <1>1, <1>2 DEF Inv, TypeOK, PushersOwn, Pushing
<1>6. \A u \in Threads : u # t /\ Pushing(u) => block[u] # block[t]
  BY <1>1 DEF Inv, PushersOwn, Pushing
<1>7. PushersLink'
  BY <1>1, <1>6 DEF Inv, TypeOK, PushersLink, Pushing
<1>8. QED  BY <1>2, <1>3, <1>4, <1>5, <1>7 DEF Inv, SafeUse, OneAllocator

(* The swap of deallocate() puts the block in front of the list. *)
LEMMA FreeSwapPuts ==
  ASSUME Inv, NEW t \in Freers, FreeSwap(t)
  PROVE  /\ block[t] \in Blocks \ (inUse \cup FreeSet)
         /\ FreeSet' = FreeSet \cup {block[t]}
         /\ FreeListIntact'
         /\ free' \in Seq(Blocks)
<1> DEFINE b == block[t]
           n == Len(free)
<1>1. /\ t \in Threads /\ b \in Blocks \ (inUse \cup FreeSet)
      /\ next[b] = free_list_head_
  BY DEF FreeSwap, Inv, TypeOK, Threads, PushersOwn, PushersLink, Pushing
<1>2. /\ free \in Seq(Blocks) /\ free' = <<b>> \o free
      /\ next' = next /\ inUse' = inUse /\ free_list_head_' = b
  BY DEF FreeSwap, Inv, TypeOK
<1> HIDE DEF b
<1>3. /\ n \in Nat /\ free' \in Seq(Blocks) /\ Len(free') = n + 1 /\ free'[1] = b
      /\ \A i \in 1 .. n : free'[i + 1] = free[i]
  BY <1>1, <1>2, PushOf
<1>4. FreeSet = Elements(free) /\ Distinct(free) /\ FreeSet' = Elements(free')
  BY FreeListElements DEF Inv, FreeSet, Elements
<1>5. Elements(free') = Elements(free) \cup {b} /\ Distinct(free')
  BY <1>1, <1>2, <1>4, PushElements
<1>6. /\ free_list_head_ = IF free = <<>> THEN NoBlock ELSE free[1]
      /\ \A i \in 1 .. n : next[free[i]] = IF i = n THEN NoBlock ELSE free[i + 1]
      /\ FreeSet \cap inUse = {}
  BY DEF Inv, FreeListIntact
<1>7. free_list_head_' = IF free' = <<>> THEN NoBlock ELSE free'[1]
  <2>1. free' # <<>>
    BY <1>3, EmptySeq
  <2>2. QED  BY <2>1, <1>2, <1>3
<1>8. ASSUME NEW i \in 1 .. n + 1
      PROVE  next[free'[i]] = IF i = n + 1 THEN NoBlock ELSE free'[i + 1]
  <2>1. CASE i = 1 /\ n = 0
    <3>1. free = <<>>
      BY <2>1, <1>2, EmptySeq
    <3>2. QED  BY <3>1, <2>1, <1>1, <1>3, <1>6
  <2>2. CASE i = 1 /\ n # 0
    <3>1. free # <<>> /\ 1 \in 1 .. n /\ 1 # n + 1
      BY <2>2, <1>3
    <3>2. free'[1 + 1] = free[1]
      BY <3>1, <1>3
    <3>3. QED  BY <3>1, <3>2, <2>2, <1>1, <1>3, <1>6
  <2>3. CASE i # 1
    <3>1. i - 1 \in 1 .. n /\ (i - 1) + 1 = i /\ (i - 1 = n <=> i = n + 1)
      BY <2>3, <1>3
    <3>2. free'[i] = free[i - 1]
      BY <3>1, <1>3
    <3>3. next[free'[i]] = IF i - 1 = n THEN NoBlock ELSE free[i]
      BY <3>1, <3>2, <1>6
    <3>4. i # n + 1 => free'[i + 1] = free[i]
      <4>1. i # n + 1 => i \in 1 .. n
        BY <1>3
      <4>2. QED  BY <4>1, <1>3
    <3>5. QED  BY <3>1, <3>3, <3>4
  <2>4. QED  BY <2>1, <2>2, <2>3
<1>9. FreeSet' \cap inUse' = {}
  BY <1>1, <1>2, <1>4, <1>5, <1>6
<1>10. FreeListIntact'
  BY <1>2, <1>3, <1>5, <1>7, <1>8, <1>9 DEF FreeListIntact, Distinct
<1>11. QED  BY <1>1, <1>3, <1>4, <1>5, <1>10 DEF b

LEMMA FreeSwapStep ==
  ASSUME Inv, NEW t \in Freers, FreeSwap(t)
  PROVE  Inv'
<1>1. /\ t \in Threads /\ block[t] \in Blocks \ (inUse \cup FreeSet)
      /\ FreeSet' = FreeSet \cup {block[t]}
      /\ FreeListIntact' /\ free' \in Seq(Blocks)
  BY FreeSwapPuts DEF Threads
<1> USE DEF FreeSwap, Goto
<1>2. OneAllocator
  BY DEF Inv, SafeUse
<1>3. TypeOK'
  BY <1>1 DEF Inv, TypeOK
<1>4. PoppersHold' /\ LinkIsCurrent'
  BY <1>1, <1>2 DEF Inv, TypeOK, PoppersHold, LinkIsCurrent, Popping
<1>5. \A u \in Threads : u # t /\ Pushing(u) => block[u] # block[t]
  BY <1>1 DEF Inv, PushersOwn, Pushing
<1>6. PushersOwn' /\ PushersLink'
  BY <1>1, <1>5 DEF Inv, TypeOK, PushersOwn, PushersLink, Pushing
<1>7. QED  BY <1>1, <1>3, <1>4, <1>6 DEF Inv, SafeUse, OneAllocator

LEMMA FreeRetryStep ==
  ASSUME Inv, NEW t \in Freers, FreeRetry(t)
  PROVE  Inv'
<1> USE DEF FreeRetry, Goto
<1>1. t \in Threads
  BY DEF Threads
<1>2. TypeOK' /\ FreeListIntact' /\ FreeSet' = FreeSet
  BY <1>1 DEF Inv, TypeOK, FreeListIntact, FreeSet
<1>3. PoppersHold' /\ LinkIsCurrent'
  BY <1>1, <1>2 DEF Inv, TypeOK, PoppersHold, LinkIsCurrent, Popping
<1>4. PushersOwn' /\ PushersLink'
  BY <1>1, <1>2 DEF Inv, TypeOK, PushersOwn, PushersLink, Pushing
<1>5. QED  BY <1>2, <1>3, <1>4 DEF Inv, SafeUse, OneAllocator

LEMMA UserWritesStep ==
  ASSUME Inv, NEW b \in Blocks, UserWrites(b)
  PROVE  Inv'
<1> USE DEF UserWrites, locals
<1>1. b \in Blocks \ FreeSet /\ Payload \in Words
  BY DEF Inv, FreeListIntact, Words
<1>2. FreeListIntact' /\ FreeSet' = FreeSet /\ next' \in [Blocks -> Words]
  BY <1>1, WriteOutside
<1>3. TypeOK'
  BY <1>2 DEF Inv, TypeOK
<1>4. PoppersHold' /\ LinkIsCurrent'
  BY <1>1, <1>2 DEF Inv, TypeOK, PoppersHold, LinkIsCurrent, Popping
<1>5. PushersOwn' /\ PushersLink'
  BY <1>2 DEF Inv, TypeOK, PushersOwn, PushersLink, Pushing
<1>6. QED  BY <1>2, <1>3, <1>4, <1>5 DEF Inv, SafeUse, OneAllocator

LEMMA Inductive == SafeUse /\ Spec => []Inv
<1>1. Inv /\ [Next]_vars => Inv'
  <2> SUFFICES ASSUME Inv, [Next]_vars PROVE Inv'
    OBVIOUS
  <2>1. ASSUME NEW t \in Allocators, Allocating(t) PROVE Inv'
    BY <2>1, AllocLoadStep, AllocReadNextStep, AllocSwapStep, AllocRetryStep DEF Allocating
  <2>2. ASSUME NEW t \in Freers, Freeing(t) PROVE Inv'
    BY <2>2, FreeLoadStep, FreeWriteNextStep, FreeSwapStep, FreeRetryStep DEF Freeing
  <2>3. ASSUME NEW b \in Blocks, UserWrites(b) PROVE Inv'
    BY <2>3, UserWritesStep
  <2>4. CASE UNCHANGED vars
    BY <2>4 DEF vars, locals, Inv, SafeUse, OneAllocator, TypeOK, FreeListIntact, FreeSet,
       PoppersHold, LinkIsCurrent, PushersOwn, PushersLink, Popping, Pushing
  <2>5. QED  BY <2>1, <2>2, <2>3, <2>4 DEF Next
<1>2. QED  BY <1>1, InitInv, PTL DEF Spec

----------------------------------------------------------------------------
(* What a user wrote into a block never becomes the head of the list, when  *)
(* one thread allocates or no block is given back.                          *)
THEOREM TypeCorrect == SafeUse /\ Spec => []TypeOK
<1>1. Inv => TypeOK
  BY DEF Inv
<1>2. QED  BY <1>1, Inductive, PTL

(* Then the linked list is always the list of the free blocks, whatever     *)
(* blocks the two compare-and-swap loops find moved under them.             *)
THEOREM ListStaysIntact == SafeUse /\ Spec => []FreeListIntact
<1>1. Inv => FreeListIntact
  BY DEF Inv
<1>2. QED  BY <1>1, Inductive, PTL

(* Then no block has two users: the pool implements the block allocator.    *)
THEOREM ImplementsAllocator == SafeUse /\ Spec => AllocatorSpec
<1>1. SafeUse /\ Init => Allocator!Init
  <2> SUFFICES ASSUME SafeUse, Init PROVE Allocator!Init
    OBVIOUS
  <2>1. \A b \in Blocks : BlockCount + 1 - b \in Blocks
                          /\ BlockCount + 1 - (BlockCount + 1 - b) = b
    BY BlockCountAssumption DEF Blocks
  <2>2. \A b \in Blocks : free[b] = BlockCount + 1 - b
    BY DEF Init, InitialHead, InitialLinks, InitialList
  <2>3. Len(free) = BlockCount
    <3>1. free \in [1 .. BlockCount -> Blocks]
      BY <2>1 DEF Init, InitialHead, InitialLinks, InitialList, Blocks
    <3>2. QED  BY <3>1, BlockCountAssumption
  <2>4. FreeSet \subseteq Blocks
    BY <2>1, <2>2, <2>3 DEF FreeSet, Blocks
  <2>5. ASSUME NEW b \in Blocks PROVE b \in FreeSet
    <3>1. BlockCount + 1 - b \in 1 .. Len(free) /\ free[BlockCount + 1 - b] = b
      BY <2>1, <2>2, <2>3 DEF Blocks
    <3>2. QED  BY <3>1 DEF FreeSet
  <2>6. QED  BY <2>4, <2>5 DEF Init, InitialHead, InitialLinks, InitialList, Allocator!Init
<1>2. Inv /\ [Next]_vars => [Allocator!Next]_(Allocator!vars)
  <2> SUFFICES ASSUME Inv, [Next]_vars PROVE [Allocator!Next]_(Allocator!vars)
    OBVIOUS
  <2> USE DEF Allocator!vars, Allocator!Next
  <2>1. ASSUME free' = free, inUse' = inUse PROVE UNCHANGED <<FreeSet, inUse>>
    BY <2>1 DEF FreeSet
  <2>2. ASSUME NEW t \in Allocators, AllocSwap(t) PROVE Allocator!Allocate
    <3>1. inUse' = inUse \cup {head[t]}
      BY <2>2 DEF AllocSwap
    <3>2. QED  BY <3>1, <2>2, AllocSwapTakes DEF Allocator!Allocate
  <2>3. ASSUME NEW t \in Freers, NEW b \in Blocks, FreeLoad(t, b)
        PROVE  Allocator!GiveBack
    <3>1. b \in inUse /\ inUse' = inUse \ {b} /\ free' = free
      BY <2>3 DEF FreeLoad
    <3>2. FreeSet' = FreeSet
      BY <3>1 DEF FreeSet
    <3>3. QED  BY <3>1, <3>2 DEF Allocator!GiveBack
  <2>4. ASSUME NEW t \in Freers, FreeSwap(t) PROVE Allocator!TakeIn
    <3>1. inUse' = inUse
      BY <2>4 DEF FreeSwap
    <3>2. QED  BY <3>1, <2>4, FreeSwapPuts DEF Allocator!TakeIn
  <2>5. ASSUME NEW t \in Allocators, Allocating(t), ~AllocSwap(t)
        PROVE  free' = free /\ inUse' = inUse
    BY <2>5 DEF Allocating, AllocLoad, AllocReadNext, AllocRetry
  <2>6. ASSUME NEW t \in Freers, FreeWriteNext(t) \/ FreeRetry(t)
        PROVE  free' = free /\ inUse' = inUse
    BY <2>6 DEF FreeWriteNext, FreeRetry
  <2>7. ASSUME NEW b \in Blocks, UserWrites(b)
        PROVE  free' = free /\ inUse' = inUse
    BY <2>7 DEF UserWrites
  <2>8. CASE UNCHANGED vars
    BY <2>8, <2>1 DEF vars
  <2>9. QED  BY <2>1, <2>2, <2>3, <2>4, <2>5, <2>6, <2>7, <2>8 DEF Next, Freeing
<1>3. QED  BY <1>1, <1>2, Inductive, PTL DEF Spec, AllocatorSpec, Allocator!Spec

----------------------------------------------------------------------------
(***************************************************************************)
(* The thread-local pool with its links implements the thread-local pool   *)
(* whose lists are sequences, for any number of threads and blocks.        *)
(***************************************************************************)

(* A set of numbers has a least one. *)
LEMMA Least ==
    ASSUME NEW T, T \subseteq Nat, T # {}
    PROVE  \E n \in T : \A m \in T : ~(m < n)
<1> DEFINE R == {ss \in Nat \X Nat : ss[1] < ss[2]}
<1>1. IsWellFoundedOn(R, Nat)
  BY NatLessThanWellFounded, Zenon DEF OpToRel
<1> HIDE DEF R
<1>2. \E n \in T : \A m \in T : ~(<<m, n>> \in R)
  BY <1>1, WFMin
<1>3. QED  BY <1>2 DEF R

----------------------------------------------------------------------------
(* Links from b that pass through the blocks of s and end there. *)
Chain(links, b, s) ==
    /\ s \in Seq(Blocks) /\ Distinct(s)
    /\ b = IF s = <<>> THEN NoBlock ELSE s[1]
    /\ \A i \in 1 .. Len(s) : links[s[i]] = IF i = Len(s) THEN NoBlock ELSE s[i + 1]

(* There are no more blocks in a list than there are. *)
LEMMA ShortList ==
    ASSUME NEW s \in Seq(Blocks), Distinct(s)
    PROVE  Len(s) \in 0 .. BlockCount
<1>1. Len(s) \in Nat /\ s \in [1 .. Len(s) -> Blocks] /\ BlockCount \in Nat
  BY LenProperties, BlockCountAssumption
<1>2. \A n \in Nat : IsFiniteSet(1 .. n) /\ Cardinality(1 .. n) = n
  <2>1. SUFFICES ASSUME NEW n \in Nat PROVE IsFiniteSet(1 .. n) /\ Cardinality(1 .. n) = n
    OBVIOUS
  <2>2. IsFiniteSet(1 .. n) /\ Cardinality(1 .. n) = IF 1 > n THEN 0 ELSE n - 1 + 1
    BY FS_Interval
  <2>3. QED  BY <2>2
<1>3. s \in Injection(1 .. Len(s), Blocks)
  BY <1>1 DEF Distinct, Injection, IsInjective
<1>4. Cardinality(1 .. Len(s)) <= Cardinality(Blocks)
  BY <1>1, <1>2, <1>3, FS_Injection DEF Blocks
<1>5. QED  BY <1>1, <1>2, <1>4 DEF Blocks

(* What is followed from b is what the links say, one block at a time. *)
FollowsLinks(links, b, at) ==
    at = [i \in 1 .. BlockCount + 2 |->
            IF i = 1 THEN b ELSE IF at[i - 1] \in Blocks THEN links[at[i - 1]] ELSE NoBlock]

LEMMA FollowedFollows ==
    ASSUME NEW links, NEW b, NEW w, FollowsLinks(links, b, w)
    PROVE  Followed(links, b) = w
<1> DEFINE at == Followed(links, b)
           N  == BlockCount + 2
<1>1. at = CHOOSE g : FollowsLinks(links, b, g)
  BY DEF Followed, FollowsLinks
<1>2. FollowsLinks(links, b, at)
  BY <1>1, Zenon
<1> HIDE DEF at
<1>3. N \in Nat
  BY BlockCountAssumption
<1>4. /\ DOMAIN at = 1 .. N /\ DOMAIN w = 1 .. N
      /\ at = [i \in 1 .. N |-> at[i]] /\ w = [i \in 1 .. N |-> w[i]]
  BY <1>2 DEF FollowsLinks
<1>5. \A i \in 1 .. N : at[i] = IF i = 1 THEN b ELSE IF at[i - 1] \in Blocks
                                              THEN links[at[i - 1]] ELSE NoBlock
  BY <1>2, Zenon DEF FollowsLinks
<1>6. \A i \in 1 .. N : w[i] = IF i = 1 THEN b ELSE IF w[i - 1] \in Blocks
                                             THEN links[w[i - 1]] ELSE NoBlock
  BY Zenon DEF FollowsLinks
<1> HIDE DEF N
<1>7. \A i \in 1 .. N : at[i] = w[i]
  <2> DEFINE D == {i \in 1 .. N : at[i] # w[i]}
  <2>1. SUFFICES ASSUME D # {} PROVE FALSE
    OBVIOUS
  <2>2. D \subseteq Nat
    BY <1>3
  <2>3. PICK n \in D : \A m \in D : ~(m < n)
    BY <2>1, <2>2, Least
  <2>4. n \in 1 .. N /\ at[n] # w[n]
    OBVIOUS
  <2>5. n # 1
    BY <2>4, <1>5, <1>6
  <2>6. n - 1 \in 1 .. N /\ n - 1 < n
    BY <2>4, <2>5, <1>3
  <2>7. at[n - 1] = w[n - 1]
    BY <2>3, <2>6
  <2>8. QED  BY <2>4, <2>5, <2>7, <1>5, <1>6
<1>8. QED  BY <1>4, <1>7 DEF at

(* ListIn finds the blocks of a chain. *)
LEMMA ChainIsList ==
    ASSUME NEW links, NEW b, NEW s, Chain(links, b, s)
    PROVE  ListIn(links, b) = s
<1> DEFINE n == Len(s)
           w == [i \in 1 .. BlockCount + 2 |-> IF i <= n THEN s[i] ELSE NoBlock]
           Fits(m) == /\ \A i \in 1 .. m : w[i] \in Blocks
                      /\ m = BlockCount + 1 \/ w[m + 1] \notin Blocks
<1>1. /\ n \in 0 .. BlockCount /\ BlockCount \in Nat /\ NoBlock \notin Blocks
      /\ \A i \in 1 .. n : s[i] \in Blocks
  BY ShortList, BlockCountAssumption, ElementOfSeq DEF Chain, Blocks, NoBlock
<1>2. FollowsLinks(links, b, w)
  <2>1. ASSUME NEW i \in 1 .. BlockCount + 2
        PROVE  w[i] = IF i = 1 THEN b ELSE IF w[i - 1] \in Blocks THEN links[w[i - 1]] ELSE NoBlock
    <3>1. CASE i = 1
      <4>1. CASE n = 0
        <5>1. s = <<>>  BY <4>1, EmptySeq DEF Chain
        <5>2. QED  BY <5>1, <4>1, <3>1, <1>1 DEF Chain
      <4>2. CASE n # 0
        <5>1. s # <<>> /\ 1 <= n  BY <4>2, <1>1
        <5>2. QED  BY <5>1, <3>1, <1>1 DEF Chain
      <4>3. QED  BY <4>1, <4>2
    <3>2. CASE i # 1 /\ i - 1 <= n
      <4>1. i - 1 \in 1 .. n /\ i - 1 \in 1 .. BlockCount + 2 /\ (i - 1) + 1 = i
        BY <3>2, <1>1
      <4>2. w[i - 1] = s[i - 1] /\ s[i - 1] \in Blocks
        BY <4>1, <1>1
      <4>3. links[s[i - 1]] = IF i - 1 = n THEN NoBlock ELSE s[i]
        BY <4>1 DEF Chain
      <4>4. w[i] = IF i - 1 = n THEN NoBlock ELSE s[i]
        BY <3>2, <1>1
      <4>5. QED  BY <3>2, <4>2, <4>3, <4>4
    <3>3. CASE i # 1 /\ ~(i - 1 <= n)
      <4>1. i - 1 \in 1 .. BlockCount + 2 /\ ~(i <= n)
        BY <3>3, <1>1
      <4>2. w[i - 1] = NoBlock /\ w[i] = NoBlock
        BY <4>1, <3>3
      <4>3. QED  BY <4>2, <3>3, <1>1
    <3>4. QED  BY <3>1, <3>2, <3>3
  <2>2. w = [i \in 1 .. BlockCount + 2 |-> w[i]]
    OBVIOUS
  <2> HIDE DEF w
  <2>3. QED  BY <2>1, <2>2, Zenon DEF FollowsLinks
<1>3. Followed(links, b) = w
  BY <1>2, FollowedFollows
<1>4. ListIn(links, b) = LET length == CHOOSE m \in 0 .. BlockCount + 1 : Fits(m)
                         IN  [i \in 1 .. length |-> w[i]]
  BY <1>3 DEF ListIn
<1>5. Fits(n) /\ n \in 0 .. BlockCount + 1
  <2>1. n + 1 \in 1 .. BlockCount + 2 /\ ~(n + 1 <= n) /\ n \in 0 .. BlockCount + 1
    BY <1>1
  <2>2. w[n + 1] \notin Blocks
    BY <2>1, <1>1
  <2>3. \A i \in 1 .. n : i \in 1 .. BlockCount + 2
    BY <1>1
  <2>4. \A i \in 1 .. n : w[i] \in Blocks
    BY <2>3, <1>1
  <2>5. QED  BY <2>1, <2>2, <2>4, Zenon
<1>6. \A m \in 0 .. BlockCount + 1 : Fits(m) => m = n
  <2>1. SUFFICES ASSUME NEW m \in 0 .. BlockCount + 1, Fits(m) PROVE m = n
    BY Zenon
  <2>2. CASE m < n
    <3>1. m + 1 \in 1 .. n /\ m + 1 \in 1 .. BlockCount + 2 /\ m # BlockCount + 1
      BY <2>2, <1>1
    <3>2. w[m + 1] = s[m + 1]
      BY <3>1
    <3>3. QED  BY <2>1, <3>1, <3>2, <1>1, Zenon
  <2>3. CASE n < m
    <3>1. n + 1 \in 1 .. m /\ n + 1 \in 1 .. BlockCount + 2
      BY <2>3, <1>1
    <3>2. w[n + 1] = NoBlock
      BY <3>1, <1>1
    <3>3. QED  BY <2>1, <3>1, <3>2, <1>1, Zenon
  <2>4. QED  BY <2>2, <2>3, <1>1
<1> HIDE DEF Fits
<1>7. (CHOOSE m \in 0 .. BlockCount + 1 : Fits(m)) = n
  BY <1>5, <1>6
<1>8. ListIn(links, b) = [i \in 1 .. n |-> w[i]]
  BY <1>4, <1>7, Zenon
<1>9. s = [i \in 1 .. n |-> s[i]]
  BY LenProperties DEF Chain
<1>10. \A i \in 1 .. n : w[i] = s[i]
  BY <1>1
<1> HIDE DEF w
<1>11. QED  BY <1>8, <1>9, <1>10

(* What a list is after a push, after a pop and when it is left alone. *)
LEMMA ChainEnds ==
    ASSUME NEW links, NEW b, NEW s, Chain(links, b, s)
    PROVE  /\ s \in Seq(Blocks) /\ Distinct(s)
           /\ b = NoBlock => s = <<>>
           /\ b # NoBlock => s # <<>> /\ b = s[1] /\ b \in Blocks /\ b \in Elements(s)
<1>1. s \in Seq(Blocks) /\ Distinct(s) /\ NoBlock \notin Blocks
  BY DEF Chain, Blocks, NoBlock
<1>2. ASSUME s # <<>> PROVE b = s[1] /\ b \in Blocks /\ b \in Elements(s)
  <2>1. Len(s) \in Nat \ {0} /\ s[1] \in Blocks
    BY <1>1, <1>2, TailOf
  <2>2. 1 \in 1 .. Len(s)
    BY <2>1
  <2>3. QED  BY <1>2, <2>1, <2>2 DEF Chain, Elements
<1>3. s = <<>> => b = NoBlock
  BY DEF Chain
<1>4. QED  BY <1>1, <1>2, <1>3

LEMMA ChainSame ==
    ASSUME NEW links, NEW b, NEW s, Chain(links, b, s),
           NEW links2, \A c \in Elements(s) : links2[c] = links[c]
    PROVE  Chain(links2, b, s)
BY DEF Chain, Elements

LEMMA ChainPush ==
    ASSUME NEW links, NEW b, NEW s, Chain(links, b, s),
           NEW links2, \A c \in Elements(s) : links2[c] = links[c],
           NEW c \in Blocks, c \notin Elements(s), links2[c] = b
    PROVE  Chain(links2, c, <<c>> \o s)
<1> DEFINE r == <<c>> \o s
           n == Len(s)
<1>1. s \in Seq(Blocks) /\ Distinct(s)
  BY DEF Chain
<1>2. /\ n \in Nat /\ r \in Seq(Blocks) /\ Len(r) = n + 1 /\ r[1] = c
      /\ \A i \in 1 .. n : r[i + 1] = s[i]
  BY <1>1, PushOf
<1>3. Distinct(r)
  BY <1>1, PushElements
<1> HIDE DEF r
<1>4. r # <<>>
  BY <1>2, EmptySeq
<1>5. ASSUME NEW i \in 1 .. Len(r)
      PROVE  links2[r[i]] = IF i = Len(r) THEN NoBlock ELSE r[i + 1]
  <2>1. CASE i = 1
    <3>1. CASE n = 0
      <4>1. s = <<>>  BY <3>1, <1>1, EmptySeq
      <4>2. QED  BY <4>1, <3>1, <2>1, <1>2 DEF Chain
    <3>2. CASE n # 0
      <4>1. s # <<>> /\ 1 \in 1 .. n /\ i # Len(r)  BY <3>2, <2>1, <1>2
      <4>2. b = s[1] /\ r[1 + 1] = s[1]  BY <4>1, <1>2 DEF Chain
      <4>3. QED  BY <4>1, <4>2, <2>1, <1>2
    <3>3. QED  BY <3>1, <3>2
  <2>2. CASE i # 1
    <3>1. i - 1 \in 1 .. n /\ (i - 1) + 1 = i /\ (i - 1 = n <=> i = Len(r))
      BY <2>2, <1>2
    <3>2. r[i] = s[i - 1] /\ s[i - 1] \in Elements(s)
      BY <3>1, <1>2 DEF Elements
    <3>3. links[s[i - 1]] = IF i - 1 = n THEN NoBlock ELSE s[i]
      BY <3>1 DEF Chain
    <3>4. i # Len(r) => i \in 1 .. n
      BY <1>2
    <3>5. i # Len(r) => r[i + 1] = s[i]
      BY <3>4, <1>2
    <3>6. QED  BY <3>1, <3>2, <3>3, <3>5
  <2>3. QED  BY <2>1, <2>2
<1>6. QED  BY <1>2, <1>3, <1>4, <1>5 DEF Chain, r

LEMMA ChainPop ==
    ASSUME NEW links, NEW b, NEW s, Chain(links, b, s), b # NoBlock
    PROVE  /\ Chain(links, links[b], Tail(s))
           /\ Elements(Tail(s)) = Elements(s) \ {b}
<1> DEFINE r == Tail(s)
           n == Len(s)
<1>1. s \in Seq(Blocks) /\ Distinct(s) /\ s # <<>> /\ b = s[1]
  BY ChainEnds
<1>2. /\ n \in Nat \ {0} /\ r \in Seq(Blocks) /\ Len(r) = n - 1
      /\ \A i \in 1 .. n - 1 : r[i] = s[i + 1]
  BY <1>1, TailOf
<1>3. Elements(r) = Elements(s) \ {b} /\ Distinct(r)
  BY <1>1, TailElements
<1> HIDE DEF r
<1>4. links[b] = IF r = <<>> THEN NoBlock ELSE r[1]
  <2>1. 1 \in 1 .. n /\ 1 + 1 = 2
    BY <1>2
  <2>2. links[b] = IF 1 = n THEN NoBlock ELSE s[2]
    BY <1>1, <2>1 DEF Chain
  <2>3. CASE n = 1
    <3>1. r = <<>>  BY <2>3, <1>2, EmptySeq
    <3>2. QED  BY <3>1, <2>2, <2>3
  <2>4. CASE n # 1
    <3>1. 1 \in 1 .. n - 1 /\ Len(r) # 0  BY <2>4, <1>2
    <3>2. r # <<>> /\ r[1] = s[2]  BY <3>1, <1>2, <2>1
    <3>3. QED  BY <3>2, <2>2, <2>4
  <2>5. QED  BY <2>3, <2>4
<1>5. ASSUME NEW i \in 1 .. Len(r)
      PROVE  links[r[i]] = IF i = Len(r) THEN NoBlock ELSE r[i + 1]
  <2>1. i + 1 \in 1 .. n /\ r[i] = s[i + 1] /\ (i + 1 = n <=> i = Len(r))
    BY <1>2
  <2>2. links[s[i + 1]] = IF i + 1 = n THEN NoBlock ELSE s[i + 1 + 1]
    BY <2>1 DEF Chain
  <2>3. i # Len(r) => i + 1 \in 1 .. n - 1
    BY <2>1, <1>2
  <2>4. i # Len(r) => r[i + 1] = s[i + 1 + 1]
    BY <2>3, <1>2
  <2>5. QED  BY <2>1, <2>2, <2>4
<1>6. QED  BY <1>2, <1>3, <1>4, <1>5, Zenon DEF Chain, r

(* The central list: every block is linked to the one below it. *)
LEMMA ChainDown ==
    ASSUME NEW links, NEW n \in 0 .. BlockCount, \A b \in 1 .. n : links[b] = b - 1
    PROVE  Len(ListIn(links, n)) = n
<1> DEFINE s == [i \in 1 .. n |-> n + 1 - i]
<1>1. BlockCount \in Nat /\ n \in Nat
  BY BlockCountAssumption
<1>2. \A i \in 1 .. n : s[i] \in Blocks /\ s[i] \in 1 .. n /\ s[i] = n + 1 - i
  BY <1>1 DEF Blocks
<1>3. s \in Seq(Blocks) /\ Len(s) = n
  <2>1. s \in [1 .. n -> Blocks]
    BY <1>2
  <2> HIDE DEF s
  <2>2. QED  BY <2>1, <1>1
<1> HIDE DEF s
<1>4. Distinct(s)
  BY <1>1, <1>2, <1>3 DEF Distinct
<1>5. n = IF s = <<>> THEN NoBlock ELSE s[1]
  <2>1. CASE n = 0
    <3>1. s = <<>>  BY <2>1, <1>3, EmptySeq
    <3>2. QED  BY <3>1, <2>1 DEF NoBlock
  <2>2. CASE n # 0
    <3>1. s # <<>> /\ 1 \in 1 .. n /\ n + 1 - 1 = n  BY <2>2, <1>1, <1>3, EmptySeq
    <3>2. QED  BY <3>1, <1>2
  <2>3. QED  BY <2>1, <2>2
<1>6. ASSUME NEW i \in 1 .. n PROVE links[s[i]] = IF i = n THEN NoBlock ELSE s[i + 1]
  <2>1. links[s[i]] = s[i] - 1 /\ s[i] = n + 1 - i
    BY <1>2
  <2>2. links[s[i]] = n - i
    BY <2>1, <1>1
  <2>3. CASE i = n
    BY <2>2, <2>3, <1>1 DEF NoBlock
  <2>4. CASE i # n
    <3>1. i + 1 \in 1 .. n /\ n + 1 - (i + 1) = n - i  BY <2>4, <1>1
    <3>2. QED  BY <3>1, <2>2, <2>4, <1>2
  <2>5. QED  BY <2>3, <2>4
<1>7. Chain(links, n, s)
  BY <1>3, <1>4, <1>5, <1>6 DEF Chain
<1>8. QED  BY <1>3, <1>7, ChainIsList

----------------------------------------------------------------------------
(* The blocks of the list of a thread, as its links say. *)
List(t)      == ListIn(next, local_free_list_[t])
InList(t, b) == b \in Elements(List(t))

(* A block that a thread has been given by the central pool but has not yet *)
(* put in its list is its own all the same.                                 *)
Bringing(t, b) == step[t] = "link" /\ head[t] = b
Owns(t, b)     == InList(t, b) \/ Bringing(t, b)

LinkedTypeOK ==
    /\ free_list_head_ \in 0 .. BlockCount
    /\ next \in [Blocks -> Words]
    /\ pc \in [Threads -> {"idle", "readNext", "swap"}]
    /\ head \in [Threads -> Blocks \cup {NoBlock}]
    /\ link \in [Threads -> Words]
    /\ local_free_list_ \in [Threads -> Blocks \cup {NoBlock}]
    /\ step \in [Threads -> {"idle", "fetch", "link", "take"}]
    /\ fetched \in [Threads -> Nat]
    /\ users \in SUBSET Blocks
    /\ life \in {"unborn", "alive", "destroyed"}

(* The central pool holds the blocks up to its head, each linked to the one *)
(* below it; a pool that is not created yet has them all.                   *)
CentralLinked == /\ \A b \in 1 .. free_list_head_ : next[b] = b - 1
                 /\ life = "unborn" => free_list_head_ = BlockCount

(* What a thread inside central_pool_.allocate() has read is out of date,   *)
(* or is the link of the block it read it from.                             *)
InCalls == \A t \in Threads :
    /\ step[t] # "idle" => life = "alive"
    /\ step[t] # "fetch" => pc[t] = "idle"
    /\ pc[t] # "idle" \/ step[t] = "link" => head[t] \in Blocks
                                             /\ fetched[t] < BLOCKS_TO_FETCH
    /\ pc[t] = "swap" /\ head[t] <= free_list_head_ => link[t] = head[t] - 1

ListsLinked == \A t \in Threads : Chain(next, local_free_list_[t], List(t))

OneOwner ==
    /\ \A t \in Threads, b \in Blocks : Owns(t, b) => free_list_head_ < b /\ b \notin users
    /\ \A t, u \in Threads, b \in Blocks : Owns(t, b) /\ Owns(u, b) => t = u
    /\ \A b \in users : free_list_head_ < b
    /\ \A t \in Threads, b \in Blocks : ~(InList(t, b) /\ Bringing(t, b))

LinkedInv == LinkedTypeOK /\ CentralLinked /\ InCalls /\ ListsLinked /\ OneOwner

(* A list whose head and links are left alone stays the list it was. *)
LEMMA ListKept ==
    ASSUME ListsLinked, NEW t \in Threads, local_free_list_'[t] = local_free_list_[t],
           \A c \in Elements(List(t)) : next'[c] = next[c]
    PROVE  List(t)' = List(t) /\ Chain(next', local_free_list_'[t], List(t)')
<1>1. Chain(next', local_free_list_[t], List(t))
  BY ChainSame DEF ListsLinked
<1>2. ListIn(next', local_free_list_[t]) = List(t)
  BY <1>1, ChainIsList
<1>3. List(t)' = List(t)
  BY <1>2 DEF List
<1>4. QED  BY <1>1, <1>3

LEMMA ListsKept ==
    ASSUME ListsLinked, next' = next, local_free_list_' = local_free_list_
    PROVE  ListsLinked' /\ \A t \in Threads : List(t)' = List(t)
<1>1. \A t \in Threads : List(t)' = List(t) /\ Chain(next', local_free_list_'[t], List(t)')
  BY ListKept
<1>2. QED  BY <1>1 DEF ListsLinked

LEMMA Listed ==
    ASSUME ListsLinked, NEW t \in Threads
    PROVE  /\ List(t) \in Seq(Blocks) /\ Distinct(List(t))
           /\ local_free_list_[t] = NoBlock <=> List(t) = <<>>
           /\ local_free_list_[t] # NoBlock =>
                /\ List(t)[1] = local_free_list_[t] /\ local_free_list_[t] \in Blocks
                /\ InList(t, local_free_list_[t])
           /\ \A b : InList(t, b) => b \in Blocks
<1>1. Chain(next, local_free_list_[t], List(t))
  BY DEF ListsLinked
<1>2. \A b : InList(t, b) => b \in Blocks
  BY <1>1, ElementOfSeq DEF Chain, InList, Elements
<1>3. QED  BY <1>1, <1>2, ChainEnds DEF InList

LEMMA LinkedInitInv == LinkedInit => LinkedInv
<1> SUFFICES ASSUME LinkedInit PROVE LinkedInv
  OBVIOUS
<1> USE DEF LinkedInit, Init, InitialHead, InitialLinks
<1>1. BlockCount \in Nat /\ NoBlock \notin Blocks
  BY BlockCountAssumption DEF Blocks, NoBlock
<1>2. \A t \in Threads : Chain(next, local_free_list_[t], <<>>)
  BY EmptySeq DEF Chain, Distinct
<1>3. \A t \in Threads : List(t) = <<>>
  BY <1>2, ChainIsList DEF List
<1>4. ListsLinked
  BY <1>2, <1>3 DEF ListsLinked
<1>5. \A t \in Threads, b \in Blocks : ~Owns(t, b)
  BY <1>3 DEF Owns, InList, Bringing, Elements
<1>6. OneOwner
  BY <1>5 DEF OneOwner, Owns
<1>7. \A b \in Blocks : b - 1 \in Blocks \cup {NoBlock} /\ next[b] = b - 1
  BY <1>1 DEF Blocks, NoBlock
<1>8. LinkedTypeOK
  <2>1. next \in [Blocks -> Words]
    BY <1>7 DEF Words
  <2>2. QED  BY <2>1, <1>1 DEF LinkedTypeOK, Words
<1>9. CentralLinked
  BY <1>1, <1>7 DEF CentralLinked, Blocks
<1>10. InCalls
  BY DEF InCalls
<1>11. QED  BY <1>4, <1>6, <1>8, <1>9, <1>10 DEF LinkedInv

----------------------------------------------------------------------------
(* Steps that move no block. *)
LEMMA BlocksStay ==
    ASSUME LinkedInv, next' = next, local_free_list_' = local_free_list_,
           users' = users, free_list_head_' = free_list_head_,
           \A t \in Threads : /\ step'[t] = "link" <=> step[t] = "link"
                              /\ step[t] = "link" => head'[t] = head[t]
    PROVE  /\ ListsLinked' /\ OneOwner'
           /\ \A t \in Threads : List(t)' = List(t)
<1>1. ListsLinked' /\ \A t \in Threads : List(t)' = List(t)
  BY ListsKept DEF LinkedInv
<1>2. \A t \in Threads, b \in Blocks : /\ InList(t, b)' <=> InList(t, b)
                                       /\ Bringing(t, b)' <=> Bringing(t, b)
  BY <1>1 DEF InList, Bringing
<1>3. OneOwner'
  BY <1>2 DEF LinkedInv, OneOwner, Owns
<1>4. QED  BY <1>1, <1>3

LEMMA PoolsAndThreadsStep ==
    ASSUME LinkedInv,
           CreatePool \/ DestroyPool \/ \E t \in Threads : StartThread(t)
    PROVE  LinkedInv' /\ \A t \in Threads : List(t)' = List(t)
<1> USE DEF CreatePool, DestroyPool, StartThread, vars, locals, calls
<1>1. ListsLinked' /\ OneOwner' /\ \A t \in Threads : List(t)' = List(t)
  BY BlocksStay
<1>2. LinkedTypeOK'
  BY DEF LinkedInv, LinkedTypeOK
<1>3. CentralLinked'
  BY DEF LinkedInv, CentralLinked
<1>4. InCalls'
  BY DEF LinkedInv, LinkedTypeOK, InCalls
<1>5. QED  BY <1>1, <1>2, <1>3, <1>4 DEF LinkedInv

LEMMA EnterStep ==
    ASSUME LinkedInv, NEW t \in Threads, Allocate(t)
    PROVE  LinkedInv' /\ \A u \in Threads : List(u)' = List(u)
<1> USE DEF Allocate, Enter, Step, vars, locals, world
<1>1. ListsLinked' /\ OneOwner' /\ \A u \in Threads : List(u)' = List(u)
  BY BlocksStay DEF LinkedInv, LinkedTypeOK
<1>2. LinkedTypeOK'
  BY DEF LinkedInv, LinkedTypeOK
<1>3. CentralLinked'
  BY DEF LinkedInv, CentralLinked
<1>4. InCalls'
  BY DEF LinkedInv, LinkedTypeOK, InCalls
<1>5. QED  BY <1>1, <1>2, <1>3, <1>4 DEF LinkedInv

(* The thread reads the head and the link of the block there.  The link it  *)
(* reads is the one of that block as long as the block is in the pool.      *)
LEMMA CallCentralStep ==
    ASSUME LinkedInv, NEW t \in Threads, CallCentral(t)
    PROVE  LinkedInv' /\ \A u \in Threads : List(u)' = List(u)
<1> USE DEF own, calls, world
<1>1. /\ UNCHANGED <<free_list_head_, next, own>>
      /\ step[t] = "fetch"
      /\ \A u \in Threads \ {t} : head'[u] = head[u] /\ pc'[u] = pc[u] /\ link'[u] = link[u]
  BY DEF CallCentral, AllocLoad, AllocReadNext, AllocRetry, Goto, LinkedInv, LinkedTypeOK
<1>2. ListsLinked' /\ OneOwner' /\ \A u \in Threads : List(u)' = List(u)
  BY <1>1, BlocksStay
<1>3. CentralLinked'
  BY <1>1 DEF LinkedInv, CentralLinked
<1>4. free_list_head_ = NoBlock \/ free_list_head_ \in Blocks
  BY BlockCountAssumption DEF LinkedInv, LinkedTypeOK, Blocks, NoBlock
<1>5. CASE AllocLoad(t) /\ fetched[t] < BLOCKS_TO_FETCH
  <2>1. LinkedTypeOK'
    BY <1>1, <1>4, <1>5 DEF LinkedInv, LinkedTypeOK, AllocLoad, Goto
  <2>2. InCalls'
    BY <1>1, <1>4, <1>5 DEF LinkedInv, LinkedTypeOK, InCalls, AllocLoad, Goto
  <2>3. QED  BY <1>2, <1>3, <2>1, <2>2 DEF LinkedInv
<1>6. CASE AllocReadNext(t)
  <2>1. LinkedTypeOK'
    BY <1>1, <1>6 DEF LinkedInv, LinkedTypeOK, AllocReadNext, Goto
  <2>2. head[t] <= free_list_head_ => next[head[t]] = head[t] - 1
    BY <1>6 DEF LinkedInv, LinkedTypeOK, CentralLinked, AllocReadNext, Blocks
  <2>3. InCalls'
    BY <1>1, <1>6, <2>2 DEF LinkedInv, LinkedTypeOK, InCalls, AllocReadNext, Goto
  <2>4. QED  BY <1>2, <1>3, <2>1, <2>3 DEF LinkedInv
<1>7. CASE AllocRetry(t)
  <2>1. LinkedTypeOK'
    BY <1>1, <1>4, <1>7 DEF LinkedInv, LinkedTypeOK, AllocRetry, Goto
  <2>2. InCalls'
    BY <1>1, <1>4, <1>7 DEF LinkedInv, LinkedTypeOK, InCalls, AllocRetry, Goto
  <2>3. QED  BY <1>2, <1>3, <2>1, <2>2 DEF LinkedInv
<1>8. QED  BY <1>5, <1>6, <1>7 DEF CallCentral

LEMMA FetchEndStep ==
    ASSUME LinkedInv, NEW t \in Threads, FetchEnd(t)
    PROVE  LinkedInv' /\ \A u \in Threads : List(u)' = List(u)
<1> USE DEF FetchEnd, Step, vars, locals, world
<1>1. ListsLinked' /\ OneOwner' /\ \A u \in Threads : List(u)' = List(u)
  BY BlocksStay DEF LinkedInv, LinkedTypeOK
<1>2. LinkedTypeOK'
  BY DEF LinkedInv, LinkedTypeOK
<1>3. CentralLinked'
  BY DEF LinkedInv, CentralLinked
<1>4. InCalls'
  BY DEF LinkedInv, LinkedTypeOK, InCalls
<1>5. QED  BY <1>1, <1>2, <1>3, <1>4 DEF LinkedInv

LEMMA TakeNoneStep ==
    ASSUME LinkedInv, NEW t \in Threads, TakeNone(t)
    PROVE  LinkedInv' /\ \A u \in Threads : List(u)' = List(u)
<1> USE DEF TakeNone, Step, vars, locals, world
<1>1. ListsLinked' /\ OneOwner' /\ \A u \in Threads : List(u)' = List(u)
  BY BlocksStay DEF LinkedInv, LinkedTypeOK
<1>2. LinkedTypeOK'
  BY DEF LinkedInv, LinkedTypeOK
<1>3. CentralLinked'
  BY DEF LinkedInv, CentralLinked
<1>4. InCalls'
  BY DEF LinkedInv, LinkedTypeOK, InCalls
<1>5. QED  BY <1>1, <1>2, <1>3, <1>4 DEF LinkedInv

----------------------------------------------------------------------------
(* Steps that move a block.  First the central pool, whose head goes to a   *)
(* thread: the compare-and-swap stores the link of that very block.         *)
LEMMA CentralGivesStep ==
    ASSUME LinkedInv, NEW t \in Threads, CentralGives(t)
    PROVE  /\ LinkedInv'
           /\ \A u \in Threads : List(u)' = List(u)
           /\ free_list_head_ \in Blocks /\ head[t] = free_list_head_
           /\ free_list_head_' = free_list_head_ - 1
           /\ step[t] = "fetch" /\ life = "alive" /\ fetched[t] < BLOCKS_TO_FETCH
<1> USE DEF CentralGives, AllocSwap, Goto, Step, world
<1>1. /\ step[t] = "fetch" /\ pc[t] = "swap" /\ life = "alive"
      /\ head[t] \in Blocks /\ head[t] = free_list_head_ /\ fetched[t] < BLOCKS_TO_FETCH
  BY DEF LinkedInv, InCalls
<1>2. free_list_head_ \in Nat /\ head[t] <= free_list_head_
  BY <1>1, BlockCountAssumption DEF Blocks
<1>3. free_list_head_' = free_list_head_ - 1 /\ free_list_head_' < free_list_head_
  BY <1>1, <1>2 DEF LinkedInv, InCalls
<1>4. ListsLinked' /\ \A u \in Threads : List(u)' = List(u)
  BY ListsKept DEF LinkedInv
<1>5. LinkedTypeOK'
  <2>1. free_list_head_' \in 0 .. BlockCount
    BY <1>1, <1>2, <1>3, BlockCountAssumption DEF Blocks
  <2>2. QED  BY <2>1 DEF LinkedInv, LinkedTypeOK
<1>6. CentralLinked'
  BY <1>1, <1>2, <1>3 DEF LinkedInv, CentralLinked
<1>7. InCalls'
  <2>1. ASSUME NEW u \in Threads, head[u] <= free_list_head_' PROVE head[u] <= free_list_head_
    <3>1. head[u] \in Nat
      BY BlockCountAssumption DEF LinkedInv, LinkedTypeOK, Blocks, NoBlock
    <3>2. QED  BY <3>1, <2>1, <1>2, <1>3
  <2>2. QED  BY <1>1, <2>1 DEF LinkedInv, LinkedTypeOK, InCalls
<1>8. OneOwner'
  <2>1. \A u \in Threads, b \in Blocks :
           Owns(u, b)' <=> Owns(u, b) \/ (u = t /\ b = free_list_head_)
    BY <1>1, <1>4 DEF LinkedInv, LinkedTypeOK, Owns, InList, Bringing
  <2>2. \A b \in Blocks : free_list_head_ < b => free_list_head_' < b
    BY <1>2, <1>3 DEF Blocks
  <2>3. ~(free_list_head_ < free_list_head_)
    BY <1>2
  <2>4. \A u \in Threads, b \in Blocks : Owns(u, b)' => free_list_head_' < b /\ b \notin users'
    BY <1>3, <2>1, <2>2, <2>3 DEF LinkedInv, OneOwner
  <2>5. \A u, v \in Threads, b \in Blocks : Owns(u, b)' /\ Owns(v, b)' => u = v
    BY <2>1, <2>3 DEF LinkedInv, OneOwner
  <2>6. \A b \in users' : free_list_head_' < b
    BY <2>2 DEF LinkedInv, OneOwner, LinkedTypeOK
  <2>7. ASSUME NEW u \in Threads, NEW b \in Blocks, InList(u, b)', Bringing(u, b)' PROVE FALSE
    <3>1. InList(u, b)
      BY <2>7, <1>4 DEF InList
    <3>2. Bringing(u, b) \/ b = free_list_head_
      BY <2>7, <1>1 DEF Bringing, LinkedInv, LinkedTypeOK
    <3>3. QED  BY <3>1, <3>2, <2>3 DEF LinkedInv, OneOwner, Owns
  <2>8. QED  BY <2>4, <2>5, <2>6, <2>7 DEF OneOwner
<1>9. QED  BY <1>1, <1>3, <1>4, <1>5, <1>6, <1>7, <1>8 DEF LinkedInv

(* A block that is on no list goes to the front of one. *)
LEMMA PushStep ==
    ASSUME LinkedInv, NEW t \in Threads, NEW b \in Blocks, Push(t, b),
           \A u \in Threads : ~InList(u, b)
    PROVE  /\ ListsLinked'
           /\ List(t)' = <<b>> \o List(t)
           /\ \A u \in Threads \ {t} : List(u)' = List(u)
           /\ \A u \in Threads, c \in Blocks : InList(u, c)' <=> InList(u, c) \/ (u = t /\ c = b)
<1> USE DEF Push
<1>1. /\ next'[b] = local_free_list_[t] /\ local_free_list_'[t] = b
      /\ \A u \in Threads \ {t} : local_free_list_'[u] = local_free_list_[u]
      /\ \A u \in Threads : \A c \in Elements(List(u)) : next'[c] = next[c]
  <2>1. \A u \in Threads : \A c \in Elements(List(u)) : c \in Blocks /\ c # b
    BY Listed DEF LinkedInv, InList
  <2>2. QED  BY <2>1 DEF LinkedInv, LinkedTypeOK
<1>2. ASSUME NEW u \in Threads \ {t}
      PROVE  List(u)' = List(u) /\ Chain(next', local_free_list_'[u], List(u)')
  BY <1>1, ListKept DEF LinkedInv
<1>3. Chain(next', b, <<b>> \o List(t))
  <2>1. Chain(next, local_free_list_[t], List(t)) /\ b \notin Elements(List(t))
    BY DEF LinkedInv, ListsLinked, InList
  <2>2. next'[b] = local_free_list_[t] /\ b \in Blocks
        /\ \A c \in Elements(List(t)) : next'[c] = next[c]
    BY <1>1, Zenon
  <2>3. QED  BY <2>1, <2>2, ChainPush, Zenon
<1>4. List(t)' = <<b>> \o List(t)
  <2>1. ListIn(next', b) = <<b>> \o List(t)
    BY <1>3, ChainIsList
  <2>2. QED  BY <2>1, <1>1 DEF List
<1>5. ListsLinked'
  BY <1>1, <1>2, <1>3, <1>4 DEF ListsLinked
<1>6. Elements(<<b>> \o List(t)) = Elements(List(t)) \cup {b}
  <2>1. List(t) \in Seq(Blocks) /\ Distinct(List(t)) /\ b \notin Elements(List(t))
    BY Listed DEF LinkedInv, InList
  <2>2. QED  BY <2>1, PushElements
<1>7. \A u \in Threads, c \in Blocks : InList(u, c)' <=> InList(u, c) \/ (u = t /\ c = b)
  <2>1. \A c : InList(t, c)' <=> InList(t, c) \/ c = b
    BY <1>4, <1>6 DEF InList
  <2>2. \A u \in Threads \ {t} : \A c : InList(u, c)' <=> InList(u, c)
    BY <1>2 DEF InList
  <2>3. QED  BY <2>1, <2>2
<1>8. QED  BY <1>2, <1>4, <1>5, <1>7

LEMMA LinkInStep ==
    ASSUME LinkedInv, NEW t \in Threads, LinkIn(t)
    PROVE  /\ LinkedInv'
           /\ head[t] \in Blocks /\ step[t] = "link"
           /\ List(t)' = <<head[t]>> \o List(t)
           /\ \A u \in Threads \ {t} : List(u)' = List(u)
<1> USE DEF LinkIn, Fetched, Step, world
<1>1. step[t] = "link" /\ head[t] \in Blocks /\ Bringing(t, head[t]) /\ Owns(t, head[t])
  BY DEF LinkedInv, InCalls, Bringing, Owns
<1>2. free_list_head_ < head[t] /\ head[t] \notin users
  BY <1>1 DEF LinkedInv, OneOwner
<1>3. \A u \in Threads : ~InList(u, head[t])
  BY <1>1 DEF LinkedInv, OneOwner, Owns
<1>4. /\ ListsLinked'
      /\ List(t)' = <<head[t]>> \o List(t)
      /\ \A u \in Threads \ {t} : List(u)' = List(u)
      /\ \A u \in Threads, c \in Blocks : InList(u, c)' <=> InList(u, c) \/ (u = t /\ c = head[t])
  BY <1>1, <1>3, PushStep
<1> USE DEF Push, locals
<1>5. \A u \in Threads, c \in Blocks : Owns(u, c)' <=> Owns(u, c)
  <2>1. \A u \in Threads, c \in Blocks : Bringing(u, c)' <=> Bringing(u, c) /\ u # t
    BY DEF Bringing, LinkedInv, LinkedTypeOK
  <2>2. \A c \in Blocks : Bringing(t, c) <=> c = head[t]
    BY <1>1 DEF Bringing
  <2>3. QED  BY <1>4, <2>1, <2>2 DEF Owns
<1>6. OneOwner'
  <2>1. \A u \in Threads, c \in Blocks : ~(InList(u, c)' /\ Bringing(u, c)')
    BY <1>4 DEF Bringing, LinkedInv, LinkedTypeOK, OneOwner
  <2>2. QED  BY <1>5, <2>1 DEF LinkedInv, OneOwner
<1>7. LinkedTypeOK'
  BY <1>1 DEF LinkedInv, LinkedTypeOK, Words
<1>8. CentralLinked'
  BY <1>1, <1>2, BlockCountAssumption DEF LinkedInv, LinkedTypeOK, CentralLinked, Blocks
<1>9. InCalls'
  BY <1>1 DEF LinkedInv, LinkedTypeOK, InCalls
<1>10. QED  BY <1>1, <1>4, <1>6, <1>7, <1>8, <1>9 DEF LinkedInv

LEMMA DeallocateStep ==
    ASSUME LinkedInv, NEW t \in Threads, NEW b \in Blocks, Deallocate(t, b)
    PROVE  /\ LinkedInv'
           /\ List(t)' = <<b>> \o List(t)
           /\ \A u \in Threads \ {t} : List(u)' = List(u)
<1> USE DEF Deallocate, calls, world
<1>1. /\ b \in users /\ free_list_head_ < b
      /\ \A u \in Threads : ~Owns(u, b)
  BY DEF LinkedInv, OneOwner
<1>2. \A u \in Threads : ~InList(u, b)
  BY <1>1 DEF Owns
<1>3. /\ ListsLinked'
      /\ List(t)' = <<b>> \o List(t)
      /\ \A u \in Threads \ {t} : List(u)' = List(u)
      /\ \A u \in Threads, c \in Blocks : InList(u, c)' <=> InList(u, c) \/ (u = t /\ c = b)
  BY <1>2, PushStep
<1> USE DEF Push, locals
<1>4. \A u \in Threads, c \in Blocks : Bringing(u, c)' <=> Bringing(u, c)
  BY DEF Bringing
<1>5. \A u \in Threads, c \in Blocks : Owns(u, c)' <=> Owns(u, c) \/ (u = t /\ c = b)
  BY <1>3, <1>4 DEF Owns
<1>6. OneOwner'
  <2>1. \A u \in Threads, c \in Blocks : ~(InList(u, c)' /\ Bringing(u, c)')
    BY <1>1, <1>3, <1>4 DEF LinkedInv, OneOwner, Owns
  <2>2. QED  BY <1>1, <1>5, <2>1 DEF LinkedInv, OneOwner
<1>7. LinkedTypeOK'
  BY DEF LinkedInv, LinkedTypeOK, Words
<1>8. CentralLinked'
  BY <1>1, BlockCountAssumption DEF LinkedInv, LinkedTypeOK, CentralLinked, Blocks
<1>9. InCalls'
  BY DEF LinkedInv, LinkedTypeOK, InCalls
<1>10. QED  BY <1>3, <1>6, <1>7, <1>8, <1>9 DEF LinkedInv

LEMMA TakeStep ==
    ASSUME LinkedInv, NEW t \in Threads, Take(t)
    PROVE  /\ LinkedInv'
           /\ List(t) # <<>> /\ List(t)[1] = local_free_list_[t]
           /\ List(t)' = Tail(List(t))
           /\ \A u \in Threads \ {t} : List(u)' = List(u)
<1> USE DEF Take, Step, vars, locals, world
<1> DEFINE b == local_free_list_[t]
<1>1. /\ List(t) # <<>> /\ List(t)[1] = b /\ b \in Blocks /\ InList(t, b)
      /\ local_free_list_'[t] = next[b] /\ next[b] \in Words
  BY Listed DEF LinkedInv, LinkedTypeOK
<1>2. Chain(next, next[b], Tail(List(t))) /\ Elements(Tail(List(t))) = Elements(List(t)) \ {b}
  BY <1>1, ChainPop DEF LinkedInv, ListsLinked
<1>3. List(t)' = Tail(List(t))
  <2>1. ListIn(next, next[b]) = Tail(List(t))
    BY <1>2, ChainIsList
  <2>2. QED  BY <2>1, <1>1 DEF List
<1>4. \A u \in Threads \ {t} : List(u)' = List(u) /\ Chain(next', local_free_list_'[u], List(u)')
  BY ListKept DEF LinkedInv, LinkedTypeOK
<1>5. ListsLinked'
  BY <1>1, <1>2, <1>3, <1>4 DEF ListsLinked
<1>6. \A u \in Threads, c \in Blocks :
         /\ InList(u, c)' <=> InList(u, c) /\ ~(u = t /\ c = b)
         /\ Bringing(u, c)' <=> Bringing(u, c)
  <2>1. \A c : InList(t, c)' <=> InList(t, c) /\ c # b
    BY <1>2, <1>3 DEF InList
  <2>2. \A u \in Threads \ {t} : \A c : InList(u, c)' <=> InList(u, c)
    BY <1>4 DEF InList
  <2>3. \A u \in Threads, c \in Blocks : Bringing(u, c)' <=> Bringing(u, c)
    BY DEF Bringing, LinkedInv, LinkedTypeOK
  <2>4. QED  BY <2>1, <2>2, <2>3
<1>7. Owns(t, b) /\ free_list_head_ < b /\ ~Bringing(t, b) /\ \A u \in Threads \ {t} : ~Owns(u, b)
  BY <1>1 DEF LinkedInv, OneOwner, Owns
<1> HIDE DEF b
<1>8. users' = users \cup {b}
  BY DEF b
<1>9. OneOwner'
  <2>1. \A u \in Threads, c \in Blocks : Owns(u, c)' <=> Owns(u, c) /\ c # b
    BY <1>6, <1>7 DEF Owns
  <2>2. \A u \in Threads, c \in Blocks : Owns(u, c)' => free_list_head_' < c /\ c \notin users'
    BY <2>1, <1>8 DEF LinkedInv, OneOwner
  <2>3. \A c \in users' : free_list_head_' < c
    BY <1>7, <1>8 DEF LinkedInv, OneOwner
  <2>4. QED  BY <2>1, <2>2, <2>3, <1>6 DEF LinkedInv, OneOwner
<1>10. LinkedTypeOK'
  <2>1. next[b] \in Blocks \cup {NoBlock}
    <3>1. List(t)' \in Seq(Blocks) /\ Chain(next, next[b], List(t)')
      BY <1>2, <1>3 DEF Chain, b
    <3>2. QED  BY <3>1, ChainEnds
  <2>2. QED  BY <2>1, <1>1, <1>8 DEF LinkedInv, LinkedTypeOK, b
<1>11. CentralLinked' /\ InCalls'
  BY DEF LinkedInv, LinkedTypeOK, CentralLinked, InCalls
<1>12. QED  BY <1>1, <1>3, <1>4, <1>5, <1>9, <1>10, <1>11 DEF LinkedInv, b

(* The blocks of a thread that exits are no one's any more. *)
LEMMA ExitThreadStep ==
    ASSUME LinkedInv, NEW t \in Threads, ExitThread(t)
    PROVE  /\ LinkedInv'
           /\ List(t)' = <<>>
           /\ \A u \in Threads \ {t} : List(u)' = List(u)
<1> USE DEF ExitThread, vars, locals, calls
<1>1. Chain(next, NoBlock, <<>>)
  BY EmptySeq DEF Chain, Distinct
<1>2. local_free_list_'[t] = NoBlock
  BY DEF LinkedInv, LinkedTypeOK
<1>3. List(t)' = <<>>
  BY <1>1, <1>2, ChainIsList DEF List
<1>4. \A u \in Threads \ {t} : List(u)' = List(u) /\ Chain(next', local_free_list_'[u], List(u)')
  BY ListKept DEF LinkedInv, LinkedTypeOK
<1>5. ListsLinked'
  BY <1>1, <1>2, <1>3, <1>4 DEF ListsLinked
<1>6. \A u \in Threads, c \in Blocks : /\ InList(u, c)' => InList(u, c)
                                       /\ Bringing(u, c)' <=> Bringing(u, c)
  <2>1. \A c : ~InList(t, c)'
    BY <1>3 DEF InList, Elements
  <2>2. \A u \in Threads \ {t} : \A c : InList(u, c)' <=> InList(u, c)
    BY <1>4 DEF InList
  <2>3. QED  BY <2>1, <2>2 DEF Bringing
<1>7. OneOwner'
  BY <1>6 DEF LinkedInv, OneOwner, Owns
<1>8. LinkedTypeOK' /\ CentralLinked' /\ InCalls'
  BY DEF LinkedInv, LinkedTypeOK, CentralLinked, InCalls
<1>9. QED  BY <1>3, <1>4, <1>5, <1>7, <1>8 DEF LinkedInv

(* What a user writes into its block is a link of no list. *)
LEMMA UserOverwritesStep ==
    ASSUME LinkedInv, NEW b \in Blocks, UserOverwrites(b)
    PROVE  LinkedInv' /\ \A u \in Threads : List(u)' = List(u)
<1> USE DEF UserOverwrites, UserWrites, locals, own, calls, world
<1>1. b \in users /\ free_list_head_ < b /\ \A u \in Threads : ~InList(u, b)
  BY DEF LinkedInv, OneOwner, Owns
<1>2. \A u \in Threads : \A c \in Elements(List(u)) : next'[c] = next[c]
  <2>1. \A u \in Threads : \A c \in Elements(List(u)) : c \in Blocks /\ c # b
    BY <1>1, Listed DEF LinkedInv, InList
  <2>2. QED  BY <2>1 DEF LinkedInv, LinkedTypeOK
<1>3. \A u \in Threads : List(u)' = List(u) /\ Chain(next', local_free_list_'[u], List(u)')
  BY <1>2, ListKept DEF LinkedInv
<1>4. ListsLinked'
  BY <1>3 DEF ListsLinked
<1>5. \A u \in Threads, c \in Blocks : /\ InList(u, c)' <=> InList(u, c)
                                       /\ Bringing(u, c)' <=> Bringing(u, c)
  BY <1>3 DEF InList, Bringing
<1>6. OneOwner'
  BY <1>5 DEF LinkedInv, OneOwner, Owns
<1>7. LinkedTypeOK'
  BY DEF LinkedInv, LinkedTypeOK, Words
<1>8. CentralLinked'
  BY <1>1, BlockCountAssumption DEF LinkedInv, LinkedTypeOK, CentralLinked, Blocks
<1>9. InCalls'
  BY DEF LinkedInv, LinkedTypeOK, InCalls
<1>10. QED  BY <1>3, <1>4, <1>6, <1>7, <1>8, <1>9 DEF LinkedInv

LEMMA LinkedNextInv == LinkedInv /\ [LinkedNext]_linkedVars => LinkedInv'
<1> SUFFICES ASSUME LinkedInv, [LinkedNext]_linkedVars PROVE LinkedInv'
  OBVIOUS
<1>1. CASE CreatePool \/ DestroyPool
  BY <1>1, PoolsAndThreadsStep
<1>2. ASSUME NEW t \in Threads, StartThread(t) PROVE LinkedInv'
  BY <1>2, PoolsAndThreadsStep
<1>3. ASSUME NEW t \in Threads, ExitThread(t) PROVE LinkedInv'
  BY <1>3, ExitThreadStep
<1>4. ASSUME NEW t \in Threads, Allocate(t) PROVE LinkedInv'
  BY <1>4, EnterStep
<1>5. ASSUME NEW t \in Threads, InAllocate(t) PROVE LinkedInv'
  BY <1>5, CallCentralStep, CentralGivesStep, LinkInStep, FetchEndStep, TakeStep, TakeNoneStep
     DEF InAllocate
<1>6. ASSUME NEW t \in Threads, NEW b \in Blocks, Deallocate(t, b) PROVE LinkedInv'
  BY <1>6, DeallocateStep
<1>7. ASSUME NEW b \in Blocks, UserOverwrites(b) PROVE LinkedInv'
  BY <1>7, UserOverwritesStep
<1>8. CASE UNCHANGED linkedVars
  <2> USE <1>8 DEF linkedVars, vars, locals, own, calls, world
  <2>1. ListsLinked' /\ OneOwner'
    BY BlocksStay
  <2>2. LinkedTypeOK' /\ CentralLinked' /\ InCalls'
    BY DEF LinkedInv, LinkedTypeOK, CentralLinked, InCalls
  <2>3. QED  BY <2>1, <2>2 DEF LinkedInv
<1>9. QED  BY <1>1, <1>2, <1>3, <1>4, <1>5, <1>6, <1>7, <1>8 DEF LinkedNext

(* The links of the thread-local pool are in order in every state: the      *)
(* central list is intact, the lists of the threads end, and no block is on *)
(* two of them, twice on one, still in the centre or with a user.           *)
THEOREM LinkedSafety == LinkedSpec => []LinkedInv
<1>1. LinkedInit => LinkedInv
  BY LinkedInitInv
<1>2. LinkedInv /\ [LinkedNext]_linkedVars => LinkedInv'
  BY LinkedNextInv
<1>3. QED  BY <1>1, <1>2, PTL DEF LinkedSpec

----------------------------------------------------------------------------
(* The abstract pool, as the links show it: the variables of               *)
(* ThreadLocalPool under the refinement mapping.                           *)
AsBlocks(s) == [i \in 1 .. Len(s) |-> AsBlock(s[i])]
Whole(t)    == IF step[t] = "link" THEN <<head[t]>> \o List(t) ELSE List(t)

Centre == [p \in {ThePool} |-> IF life # "alive" THEN 0 ELSE Len(ListFrom(free_list_head_))]
Life   == [p \in {ThePool} |-> life]
Lists  == [t \in Threads |-> ListOf(t)]
At     == [t \in Threads |-> IF step[t] = "link" THEN "fetch" ELSE step[t]]
PoolOf == [t \in Threads |-> ThePool]
Got    == [t \in Threads |-> IF step[t] = "link" THEN fetched[t] + 1 ELSE fetched[t]]
Used   == {AsBlock(b) : b \in users}

LEMMA ListOfIs == \A t : ListOf(t) = AsBlocks(Whole(t))
BY DEF ListOf, AsBlocks, Whole, List, ListFrom

LEMMA AsBlocksSeq ==
    ASSUME NEW s \in Seq(Blocks)
    PROVE  /\ AsBlocks(s) \in Seq({AsBlock(b) : b \in Blocks})
           /\ Len(AsBlocks(s)) = Len(s)
           /\ \A i \in 1 .. Len(s) : AsBlocks(s)[i] = AsBlock(s[i])
           /\ AsBlocks(s) = <<>> <=> s = <<>>
<1> DEFINE T == {AsBlock(b) : b \in Blocks}
           n == Len(s)
           r == AsBlocks(s)
<1>1. n \in Nat /\ \A i \in 1 .. n : s[i] \in Blocks
  BY LenProperties, ElementOfSeq
<1>2. r = [i \in 1 .. n |-> AsBlock(s[i])]
  BY DEF AsBlocks
<1>3. \A i \in 1 .. n : AsBlock(s[i]) \in T
  BY <1>1
<1> HIDE DEF T, r, n
<1>4. r \in [1 .. n -> T] /\ \A i \in 1 .. n : r[i] = AsBlock(s[i])
  BY <1>2, <1>3
<1>5. r \in Seq(T) /\ Len(r) = n
  BY <1>1, <1>4
<1>6. r = <<>> <=> s = <<>>
  BY <1>5, <1>1, EmptySeq DEF n
<1>7. QED  BY <1>4, <1>5, <1>6 DEF T, r, n

LEMMA AsBlocksPushed ==
    ASSUME NEW s \in Seq(Blocks), NEW b \in Blocks
    PROVE  AsBlocks(<<b>> \o s) = <<AsBlock(b)>> \o AsBlocks(s)
<1> DEFINE T == {AsBlock(c) : c \in Blocks}
           n == Len(s)
           p == <<b>> \o s
           x == AsBlocks(p)
           e == AsBlock(b)
           a == AsBlocks(s)
           y == <<e>> \o a
<1>1. /\ n \in Nat /\ p \in Seq(Blocks) /\ Len(p) = n + 1 /\ p[1] = b
      /\ \A i \in 1 .. n : p[i + 1] = s[i]
  BY PushOf
<1> HIDE DEF p
<1>2. x \in Seq(T) /\ Len(x) = n + 1 /\ \A i \in 1 .. n + 1 : x[i] = AsBlock(p[i])
  BY <1>1, AsBlocksSeq
<1>3. a \in Seq(T) /\ Len(a) = n /\ \A i \in 1 .. n : a[i] = AsBlock(s[i])
  BY AsBlocksSeq
<1>4. e \in T
  OBVIOUS
<1> HIDE DEF T, x, a, e
<1>5. y \in Seq(T) /\ Len(y) = n + 1 /\ y[1] = e /\ \A i \in 1 .. n : y[i + 1] = a[i]
  BY <1>3, <1>4, PushOf
<1> HIDE DEF y
<1>6. \A i \in 1 .. n + 1 : x[i] = y[i]
  <2>1. SUFFICES ASSUME NEW i \in 1 .. n + 1 PROVE x[i] = y[i]
    OBVIOUS
  <2>2. CASE i = 1
    BY <2>2, <1>1, <1>2, <1>5 DEF e
  <2>3. CASE i # 1
    <3>1. i - 1 \in 1 .. n /\ (i - 1) + 1 = i  BY <2>3, <1>1
    <3>2. p[i] = s[i - 1] /\ y[i] = a[i - 1]  BY <3>1, <1>1, <1>5
    <3>3. QED  BY <3>1, <3>2, <1>2, <1>3
  <2>4. QED  BY <2>2, <2>3
<1>7. x = y
  BY <1>2, <1>5, <1>6, SeqEqual
<1>8. QED  BY <1>7 DEF x, y, e, a, p

LEMMA AsBlocksTaken ==
    ASSUME NEW s \in Seq(Blocks), s # <<>>
    PROVE  /\ AsBlocks(s) # <<>> /\ Head(AsBlocks(s)) = AsBlock(s[1])
           /\ AsBlocks(Tail(s)) = Tail(AsBlocks(s))
<1> DEFINE T == {AsBlock(c) : c \in Blocks}
           n == Len(s)
           p == Tail(s)
           x == AsBlocks(p)
           a == AsBlocks(s)
           y == Tail(a)
<1>1. /\ n \in Nat \ {0} /\ p \in Seq(Blocks) /\ Len(p) = n - 1
      /\ \A i \in 1 .. n - 1 : p[i] = s[i + 1]
  BY TailOf
<1> HIDE DEF p
<1>2. x \in Seq(T) /\ Len(x) = n - 1 /\ \A i \in 1 .. n - 1 : x[i] = AsBlock(p[i])
  BY <1>1, AsBlocksSeq
<1>3. a \in Seq(T) /\ Len(a) = n /\ a # <<>> /\ \A i \in 1 .. n : a[i] = AsBlock(s[i])
  BY AsBlocksSeq
<1> HIDE DEF T, x, a
<1>4. y \in Seq(T) /\ Len(y) = n - 1 /\ \A i \in 1 .. n - 1 : y[i] = a[i + 1]
  BY <1>3, TailOf
<1>5. Head(a) = AsBlock(s[1])
  <2>1. 1 \in 1 .. n  BY <1>1
  <2>2. Head(a) = a[1]  BY <1>3
  <2>3. QED  BY <2>1, <2>2, <1>3
<1> HIDE DEF y
<1>6. \A i \in 1 .. n - 1 : x[i] = y[i]
  <2>1. SUFFICES ASSUME NEW i \in 1 .. n - 1 PROVE x[i] = y[i]
    OBVIOUS
  <2>2. i + 1 \in 1 .. n  BY <1>1
  <2>3. QED  BY <2>2, <1>1, <1>2, <1>3, <1>4
<1>7. x = y
  BY <1>1, <1>2, <1>4, <1>6, SeqEqual
<1>8. QED  BY <1>3, <1>5, <1>7 DEF x, y, a, p

----------------------------------------------------------------------------
(* Every step is a step of the abstract pool or leaves it as it is. *)
LEMMA ListOfIsNext == \A t : ListOf(t)' = AsBlocks(Whole(t)')
BY DEF ListOf, AsBlocks, Whole, List, ListFrom

LEMMA WholeIs ==
    ASSUME LinkedInv, NEW t \in Threads
    PROVE  /\ List(t) \in Seq(Blocks) /\ Whole(t) \in Seq(Blocks)
           /\ List(t) = <<>> <=> local_free_list_[t] = NoBlock
           /\ step[t] = "link" => head[t] \in Blocks
           /\ Lists[t] = AsBlocks(Whole(t))
<1>1. List(t) \in Seq(Blocks) /\ (List(t) = <<>> <=> local_free_list_[t] = NoBlock)
  BY Listed DEF LinkedInv
<1>2. step[t] = "link" => head[t] \in Blocks
  BY DEF LinkedInv, InCalls
<1>3. Whole(t) \in Seq(Blocks)
  BY <1>1, <1>2, PushOf DEF Whole
<1>4. Lists[t] = AsBlocks(Whole(t))
  BY ListOfIs DEF Lists
<1>5. QED  BY <1>1, <1>2, <1>3, <1>4

CentreIsHead ==
    Centre = [p \in {ThePool} |-> IF life # "alive" THEN 0 ELSE free_list_head_]

LEMMA CentreIs == LinkedInv => CentreIsHead
<1> SUFFICES ASSUME LinkedInv PROVE CentreIsHead
  OBVIOUS
<1>1. Len(ListIn(next, free_list_head_)) = free_list_head_
  BY ChainDown DEF LinkedInv, LinkedTypeOK, CentralLinked
<1>2. QED  BY <1>1 DEF ListFrom, Centre, CentreIsHead

LEMMA CentreIsNext == LinkedInv' => CentreIsHead'
BY CentreIs, PTL

LEMMA ListsAre ==
    ASSUME \A u \in Threads : Whole(u)' = Whole(u)
    PROVE  Lists' = Lists
BY ListOfIs, ListOfIsNext DEF Lists

LEMMA ListsBecome ==
    ASSUME NEW t \in Threads, \A u \in Threads \ {t} : Whole(u)' = Whole(u),
           NEW s, s = AsBlocks(Whole(t)')
    PROVE  Lists' = [Lists EXCEPT ![t] = s]
<1>1. \A u \in Threads : ListOf(u)' = IF u = t THEN s ELSE ListOf(u)
  BY ListOfIs, ListOfIsNext
<1> HIDE DEF ListOf
<1>2. QED  BY <1>1 DEF Lists

LEMMA InitRefines == LinkedInit => ThreadLocal!Init
<1> SUFFICES ASSUME LinkedInit PROVE ThreadLocal!Init
  OBVIOUS
<1>1. LinkedInv
  BY LinkedInitInv
<1>2. life = "unborn" /\ \A t \in Threads : step[t] = "idle" /\ local_free_list_[t] = NoBlock /\ fetched[t] = 0
  BY DEF LinkedInit
<1>3. \A t \in Threads : Lists[t] = <<>>
  <2>1. SUFFICES ASSUME NEW t \in Threads PROVE Lists[t] = <<>>
    OBVIOUS
  <2>2. Whole(t) = <<>> /\ Whole(t) \in Seq(Blocks)
    BY <1>1, <1>2, WholeIs DEF Whole
  <2>3. QED  BY <1>1, <2>2, WholeIs, AsBlocksSeq
<1>4. Centre = [p \in {ThePool} |-> 0] /\ Life = [p \in {ThePool} |-> "unborn"]
  BY <1>2 DEF Centre, Life
<1>5. Lists = [t \in Threads |-> <<>>]
  BY <1>3 DEF Lists
<1>6. At = [t \in Threads |-> "idle"] /\ Got = [t \in Threads |-> 0] /\ Used = {}
  BY <1>2 DEF At, Got, Used, LinkedInit
<1>7. PoolOf = [t \in Threads |-> CHOOSE p \in {ThePool} : TRUE]
  BY DEF PoolOf
<1>8. running = {}
  BY DEF LinkedInit
<1>9. QED
  BY <1>4, <1>5, <1>6, <1>7, <1>8 DEF ThreadLocal!Init, Centre, Life, Lists, At, Got, Used, PoolOf

LEMMA CreatePoolRefines ==
    ASSUME LinkedInv, LinkedInv', CreatePool
    PROVE  ThreadLocal!CreatePool(ThePool)
<1> USE DEF CreatePool, vars, locals, calls
<1>1. \A u \in Threads : List(u)' = List(u)
  BY PoolsAndThreadsStep
<1>2. Lists' = Lists
  BY <1>1, ListsAre DEF Whole
<1>3. Centre' = [Centre EXCEPT ![ThePool] = [p \in {ThePool} |-> BlockCount][ThePool]]
  BY CentreIs, CentreIsNext DEF CentreIsHead, LinkedInv, CentralLinked
<1>4. Life[ThePool] = "unborn" /\ Life' = [Life EXCEPT ![ThePool] = "alive"]
  BY DEF Life
<1>5. At' = At /\ PoolOf' = PoolOf /\ Got' = Got /\ Used' = Used /\ running' = running
  BY DEF At, PoolOf, Got, Used
<1>6. QED
  BY <1>2, <1>3, <1>4, <1>5
     DEF ThreadLocal!CreatePool, ThreadLocal!call, Centre, Life, Lists, At, Got, Used, PoolOf

LEMMA DestroyPoolRefines ==
    ASSUME LinkedInv, LinkedInv', DestroyPool
    PROVE  ThreadLocal!DestroyPool(ThePool)
<1> USE DEF DestroyPool, vars, locals, calls
<1>1. \A u \in Threads : List(u)' = List(u)
  BY PoolsAndThreadsStep
<1>2. Lists' = Lists
  BY <1>1, ListsAre DEF Whole
<1>3. Centre' = [Centre EXCEPT ![ThePool] = 0]
  BY CentreIs, CentreIsNext DEF CentreIsHead
<1>4. Life[ThePool] = "alive" /\ Life' = [Life EXCEPT ![ThePool] = "destroyed"]
  BY DEF Life
<1>5. At' = At /\ PoolOf' = PoolOf /\ Got' = Got /\ Used' = Used /\ running' = running
  BY DEF At, PoolOf, Got, Used
<1>6. (\A t \in Threads : At[t] # "idle" => PoolOf[t] # ThePool) /\ \A b \in Used : b.pool # ThePool
  BY DEF At, Used
<1>7. QED
  BY <1>2, <1>3, <1>4, <1>5, <1>6
     DEF ThreadLocal!DestroyPool, ThreadLocal!call, Centre, Life, Lists, At, Got, Used, PoolOf

LEMMA StartThreadRefines ==
    ASSUME LinkedInv, NEW t \in Threads, StartThread(t)
    PROVE  ThreadLocal!StartThread(t)
<1> USE DEF StartThread, vars, locals, calls
<1>1. \A u \in Threads : List(u)' = List(u)
  BY PoolsAndThreadsStep
<1>2. Lists' = Lists
  BY <1>1, ListsAre DEF Whole
<1>3. Centre' = Centre
  BY DEF Centre, ListFrom
<1>4. Life' = Life /\ At' = At /\ PoolOf' = PoolOf /\ Got' = Got /\ Used' = Used
  BY DEF Life, At, PoolOf, Got, Used
<1>5. QED
  BY <1>2, <1>3, <1>4
     DEF ThreadLocal!StartThread, ThreadLocal!call, Centre, Life, Lists, At, Got, Used, PoolOf

LEMMA ExitThreadRefines ==
    ASSUME LinkedInv, LinkedInv', NEW t \in Threads, ExitThread(t)
    PROVE  ThreadLocal!ExitThread(t)
<1> USE DEF ExitThread, vars, locals, calls
<1>1. List(t)' = <<>> /\ \A u \in Threads \ {t} : List(u)' = List(u)
  BY ExitThreadStep
<1>2. Lists' = [Lists EXCEPT ![t] = <<>>]
  <2>1. \A u \in Threads \ {t} : Whole(u)' = Whole(u)
    BY <1>1 DEF Whole
  <2>2. Whole(t)' = <<>>
    BY <1>1 DEF Whole
  <2>3. AsBlocks(<<>>) = <<>>
    BY EmptySeq, AsBlocksSeq
  <2>4. QED  BY <2>1, <2>2, <2>3, ListsBecome
<1>3. Centre' = Centre
  BY DEF Centre, ListFrom
<1>4. Life' = Life /\ At' = At /\ PoolOf' = PoolOf /\ Got' = Got /\ Used' = Used
  BY DEF Life, At, PoolOf, Got, Used
<1>5. At[t] = "idle"
  BY DEF At
<1>6. QED
  BY <1>2, <1>3, <1>4, <1>5
     DEF ThreadLocal!ExitThread, ThreadLocal!call, Centre, Life, Lists, At, Got, Used, PoolOf

LEMMA AllocateRefines ==
    ASSUME LinkedInv, NEW t \in Threads, Allocate(t)
    PROVE  ThreadLocal!Allocate(t, ThePool)
<1> USE DEF Allocate, Enter, Step, vars, locals, world
<1>1. \A u \in Threads : List(u)' = List(u)
  BY EnterStep
<1>2. Lists' = Lists
  <2>1. \A u \in Threads : step'[u] = "link" <=> step[u] = "link"
    BY DEF LinkedInv, LinkedTypeOK
  <2>2. QED  BY <1>1, <2>1, ListsAre DEF Whole
<1>3. Centre' = Centre
  BY DEF Centre, ListFrom
<1>4. Life' = Life /\ Life[ThePool] = "alive" /\ Got' = Got /\ Used' = Used
  BY DEF Life, Got, Used, LinkedInv, LinkedTypeOK
<1>5. Lists[t] = <<>> <=> local_free_list_[t] = NoBlock
  <2>1. Whole(t) = List(t)
    BY DEF Whole
  <2>2. /\ Lists[t] = AsBlocks(List(t)) /\ List(t) \in Seq(Blocks)
        /\ List(t) = <<>> <=> local_free_list_[t] = NoBlock
    BY <2>1, WholeIs
  <2>3. AsBlocks(List(t)) = <<>> <=> List(t) = <<>>
    BY <2>2, AsBlocksSeq
  <2>4. QED  BY <2>2, <2>3, Zenon
<1>6. At[t] = "idle" /\ At' = [At EXCEPT ![t] = IF Lists[t] = <<>> THEN "fetch" ELSE "take"]
  BY <1>5 DEF At, LinkedInv, LinkedTypeOK
<1>7. PoolOf' = [PoolOf EXCEPT ![t] = ThePool]
  BY DEF PoolOf
<1>8. QED
  BY <1>2, <1>3, <1>4, <1>6, <1>7
     DEF ThreadLocal!Allocate, ThreadLocal!Goto, Centre, Life, Lists, At, Got, Used, PoolOf

(* The loads of central_pool_.allocate() and its failed swaps go unseen. *)
LEMMA CallCentralRefines ==
    ASSUME LinkedInv, NEW t \in Threads, CallCentral(t)
    PROVE  UNCHANGED ThreadLocal!vars
<1> USE DEF own, calls, world
<1>1. /\ UNCHANGED <<free_list_head_, next, own>>
      /\ step[t] = "fetch"
      /\ \A u \in Threads \ {t} : head'[u] = head[u]
  BY DEF CallCentral, AllocLoad, AllocReadNext, AllocRetry, Goto, LinkedInv, LinkedTypeOK
<1>2. \A u \in Threads : List(u)' = List(u)
  BY CallCentralStep
<1>3. Lists' = Lists
  BY <1>1, <1>2, ListsAre DEF Whole
<1>4. /\ Centre' = Centre /\ Life' = Life /\ At' = At /\ PoolOf' = PoolOf
      /\ Got' = Got /\ Used' = Used /\ running' = running
  BY <1>1 DEF Centre, ListFrom, Life, At, PoolOf, Got, Used
<1>5. QED
  BY <1>3, <1>4
     DEF ThreadLocal!vars, ThreadLocal!call, Centre, Life, Lists, At, Got, Used, PoolOf

(* The swap that succeeds is the step in which a block is fetched ... *)
LEMMA CentralGivesRefines ==
    ASSUME LinkedInv, LinkedInv', NEW t \in Threads, CentralGives(t)
    PROVE  ThreadLocal!FetchOne(t)
<1> USE DEF CentralGives, AllocSwap, Step, world
<1>1. /\ \A u \in Threads : List(u)' = List(u)
      /\ free_list_head_ \in Blocks /\ head[t] = free_list_head_
      /\ free_list_head_' = free_list_head_ - 1
      /\ step[t] = "fetch" /\ life = "alive" /\ fetched[t] < BLOCKS_TO_FETCH
  BY CentralGivesStep
<1>2. Centre = [p \in {ThePool} |-> free_list_head_]
  BY <1>1, CentreIs DEF CentreIsHead
<1>3. Centre' = [p \in {ThePool} |-> free_list_head_ - 1]
  BY <1>1, CentreIsNext DEF CentreIsHead
<1>4. Whole(t)' = <<free_list_head_>> \o List(t) /\ Whole(t) = List(t)
  BY <1>1 DEF Whole, LinkedInv, LinkedTypeOK
<1>5. \A u \in Threads \ {t} : Whole(u)' = Whole(u)
  BY <1>1 DEF Whole, LinkedInv, LinkedTypeOK
<1>6. AsBlocks(Whole(t)') = <<AsBlock(free_list_head_)>> \o AsBlocks(List(t))
  BY <1>1, <1>4, WholeIs, AsBlocksPushed
<1>7. Lists' = [Lists EXCEPT ![t] = <<[pool |-> PoolOf[t], nr |-> Centre[PoolOf[t]]]>> \o @]
  <2>1. Lists' = [Lists EXCEPT ![t] = <<AsBlock(free_list_head_)>> \o AsBlocks(List(t))]
    BY <1>5, <1>6, ListsBecome
  <2>2. Lists[t] = AsBlocks(List(t)) /\ Lists = [u \in Threads |-> Lists[u]]
    BY <1>4, WholeIs DEF Lists
  <2>3. AsBlock(free_list_head_) = [pool |-> PoolOf[t], nr |-> Centre[PoolOf[t]]]
    BY <1>2 DEF AsBlock, PoolOf
  <2>4. QED  BY <2>1, <2>2, <2>3
<1>8. Centre' = [Centre EXCEPT ![PoolOf[t]] = @ - 1] /\ Centre[PoolOf[t]] > 0
  BY <1>1, <1>2, <1>3, BlockCountAssumption DEF PoolOf, Blocks
<1>9. /\ At[t] = "fetch" /\ Got[t] < BLOCKS_TO_FETCH
      /\ Got' = [Got EXCEPT ![t] = @ + 1] /\ At' = At
  <2>1. /\ step'[t] = "link" /\ fetched' = fetched
        /\ \A u \in Threads \ {t} : step'[u] = step[u]
    BY DEF LinkedInv, LinkedTypeOK
  <2>2. At[t] = "fetch" /\ Got[t] < BLOCKS_TO_FETCH /\ Got[t] = fetched[t]
    BY <1>1 DEF At, Got
  <2>3. At' = At
    BY <2>1, <1>1 DEF At
  <2>4. \A u \in Threads : (IF step'[u] = "link" THEN fetched'[u] + 1 ELSE fetched'[u])
                            = IF u = t THEN Got[t] + 1 ELSE Got[u]
    BY <2>1, <2>2 DEF Got
  <2>5. Got' = [Got EXCEPT ![t] = @ + 1]
    BY <2>4 DEF Got
  <2>6. QED  BY <2>2, <2>3, <2>5
<1>10. Life' = Life /\ PoolOf' = PoolOf /\ Used' = Used
  BY DEF Life, PoolOf, Used
<1>11. QED
  BY <1>7, <1>8, <1>9, <1>10
     DEF ThreadLocal!FetchOne, ThreadLocal!MayFetch, ThreadLocal!Push,
         Centre, Life, Lists, At, Got, Used, PoolOf

(* ... and the links are put in order after that. *)
LEMMA LinkInRefines ==
    ASSUME LinkedInv, NEW t \in Threads, LinkIn(t)
    PROVE  UNCHANGED ThreadLocal!vars
<1>1. /\ head[t] \in Blocks /\ step[t] = "link" /\ LinkedInv'
      /\ List(t)' = <<head[t]>> \o List(t)
      /\ \A u \in Threads \ {t} : List(u)' = List(u)
  BY LinkInStep
<1> USE DEF LinkIn, Fetched, Step, Push, world, locals
<1>2. Whole(t)' = Whole(t)
  BY <1>1 DEF Whole, LinkedInv, LinkedTypeOK
<1>3. \A u \in Threads \ {t} : Whole(u)' = Whole(u)
  BY <1>1 DEF Whole, LinkedInv, LinkedTypeOK
<1>4. Lists' = Lists
  BY <1>2, <1>3, ListsAre
<1>5. Centre' = Centre
  BY <1>1, CentreIs, CentreIsNext DEF CentreIsHead
<1>6. At' = At /\ Got' = Got
  BY <1>1 DEF At, Got, LinkedInv, LinkedTypeOK
<1>7. Life' = Life /\ PoolOf' = PoolOf /\ Used' = Used /\ running' = running
  BY DEF Life, PoolOf, Used
<1>8. QED
  BY <1>4, <1>5, <1>6, <1>7
     DEF ThreadLocal!vars, ThreadLocal!call, Centre, Life, Lists, At, Got, Used, PoolOf

LEMMA FetchEndRefines ==
    ASSUME BLOCKS_TO_FETCH \in Nat, LinkedInv, NEW t \in Threads, FetchEnd(t)
    PROVE  ThreadLocal!FetchEnd(t)
<1> USE DEF FetchEnd, Step, vars, locals, world
<1>1. \A u \in Threads : List(u)' = List(u)
  BY FetchEndStep
<1>2. /\ step'[t] = "take" /\ fetched'[t] = 0
      /\ \A u \in Threads \ {t} : step'[u] = step[u] /\ fetched'[u] = fetched[u]
  BY DEF LinkedInv, LinkedTypeOK
<1>3. Lists' = Lists
  BY <1>1, <1>2, ListsAre DEF Whole
<1>4. At[t] = "fetch" /\ Got[t] = fetched[t] /\ PoolOf[t] = ThePool
  BY DEF At, Got, PoolOf
<1>5. ~(Got[t] < BLOCKS_TO_FETCH /\ Centre[PoolOf[t]] > 0)
  <2>1. Centre[ThePool] = 0 \/ Centre[ThePool] = free_list_head_
    BY CentreIs DEF CentreIsHead
  <2>2. QED  BY <2>1, <1>4 DEF NoBlock
<1>6. At' = [At EXCEPT ![t] = "take"] /\ Got' = [Got EXCEPT ![t] = 0]
  <2>1. \A u \in Threads : (IF step'[u] = "link" THEN "fetch" ELSE step'[u])
                           = IF u = t THEN "take" ELSE At[u]
    BY <1>2 DEF At
  <2>2. At' = [u \in Threads |-> IF u = t THEN "take" ELSE At[u]]
    BY <2>1 DEF At
  <2>3. \A u \in Threads : (IF step'[u] = "link" THEN fetched'[u] + 1 ELSE fetched'[u])
                           = IF u = t THEN 0 ELSE Got[u]
    BY <1>2 DEF Got
  <2>4. Got' = [u \in Threads |-> IF u = t THEN 0 ELSE Got[u]]
    BY <2>3 DEF Got
  <2>5. QED  BY <2>2, <2>4 DEF At, Got
<1>7. Centre' = Centre /\ Life' = Life /\ PoolOf' = PoolOf /\ Used' = Used
  BY DEF Centre, ListFrom, Life, PoolOf, Used
<1>8. QED
  BY <1>3, <1>4, <1>5, <1>6, <1>7
     DEF ThreadLocal!FetchEnd, ThreadLocal!MayFetch, ThreadLocal!Goto,
         Centre, Life, Lists, At, Got, Used, PoolOf

LEMMA TakeRefines ==
    ASSUME LinkedInv, NEW t \in Threads, Take(t)
    PROVE  ThreadLocal!Take(t)
<1>1. /\ List(t) # <<>> /\ List(t)[1] = local_free_list_[t]
      /\ List(t)' = Tail(List(t))
      /\ \A u \in Threads \ {t} : List(u)' = List(u)
  BY TakeStep
<1> USE DEF Take, Step, vars, locals, world
<1>2. /\ step[t] = "take" /\ step'[t] = "idle"
      /\ \A u \in Threads \ {t} : step'[u] = step[u]
  BY DEF LinkedInv, LinkedTypeOK
<1>3. Whole(t) = List(t) /\ Whole(t)' = Tail(List(t)) /\ List(t) \in Seq(Blocks)
  BY <1>1, <1>2, WholeIs DEF Whole
<1>4. \A u \in Threads \ {t} : Whole(u)' = Whole(u)
  BY <1>1, <1>2 DEF Whole
<1>5. /\ Lists[t] = AsBlocks(List(t)) /\ Lists[t] # <<>>
      /\ Head(Lists[t]) = AsBlock(local_free_list_[t])
      /\ AsBlocks(Whole(t)') = Tail(Lists[t])
  <2>1. Lists[t] = AsBlocks(List(t))
    BY <1>3, WholeIs
  <2>2. QED  BY <2>1, <1>1, <1>3, AsBlocksTaken
<1>6. Lists' = [Lists EXCEPT ![t] = Tail(@)]
  <2>1. Lists' = [Lists EXCEPT ![t] = Tail(Lists[t])]
    BY <1>4, <1>5, ListsBecome
  <2>2. QED  BY <2>1
<1>7. Used' = Used \cup {Head(Lists[t])}
  BY <1>5 DEF Used
<1>8. At[t] = "take" /\ At' = [At EXCEPT ![t] = "idle"] /\ Got' = Got
  BY <1>2 DEF At, Got
<1>9. Centre' = Centre /\ Life' = Life /\ PoolOf' = PoolOf
  BY DEF Centre, ListFrom, Life, PoolOf
<1>10. QED
  BY <1>5, <1>6, <1>7, <1>8, <1>9
     DEF ThreadLocal!Take, ThreadLocal!Goto, Centre, Life, Lists, At, Got, Used, PoolOf

LEMMA TakeNoneRefines ==
    ASSUME LinkedInv, NEW t \in Threads, TakeNone(t)
    PROVE  ThreadLocal!TakeNone(t)
<1> USE DEF TakeNone, Step, vars, locals, world
<1>1. \A u \in Threads : List(u)' = List(u)
  BY TakeNoneStep
<1>2. /\ step[t] = "take" /\ step'[t] = "idle"
      /\ \A u \in Threads \ {t} : step'[u] = step[u]
  BY DEF LinkedInv, LinkedTypeOK
<1>3. Lists' = Lists
  BY <1>1, <1>2, ListsAre DEF Whole
<1>4. Lists[t] = <<>>
  <2>1. Whole(t) = <<>> /\ Whole(t) \in Seq(Blocks)
    BY <1>2, WholeIs DEF Whole
  <2>2. QED  BY <2>1, WholeIs, AsBlocksSeq
<1>5. At[t] = "take" /\ At' = [At EXCEPT ![t] = "idle"] /\ Got' = Got
  BY <1>2 DEF At, Got
<1>6. Centre' = Centre /\ Life' = Life /\ PoolOf' = PoolOf /\ Used' = Used
  BY DEF Centre, ListFrom, Life, PoolOf, Used
<1>7. QED
  BY <1>3, <1>4, <1>5, <1>6
     DEF ThreadLocal!TakeNone, ThreadLocal!Goto, Centre, Life, Lists, At, Got, Used, PoolOf

LEMMA DeallocateRefines ==
    ASSUME LinkedInv, LinkedInv', NEW t \in Threads, NEW b \in Blocks, Deallocate(t, b)
    PROVE  ThreadLocal!Deallocate(t, AsBlock(b))
<1>1. List(t)' = <<b>> \o List(t) /\ \A u \in Threads \ {t} : List(u)' = List(u)
  BY DeallocateStep
<1> USE DEF Deallocate, Push, locals, calls, world
<1>2. Whole(t) = List(t) /\ Whole(t)' = <<b>> \o List(t) /\ List(t) \in Seq(Blocks)
  BY <1>1, WholeIs DEF Whole
<1>3. \A u \in Threads \ {t} : Whole(u)' = Whole(u)
  BY <1>1 DEF Whole
<1>4. AsBlocks(Whole(t)') = <<AsBlock(b)>> \o Lists[t]
  <2>1. Lists[t] = AsBlocks(List(t))
    BY <1>2, WholeIs
  <2>2. QED  BY <2>1, <1>2, AsBlocksPushed
<1>5. Lists' = [Lists EXCEPT ![t] = <<AsBlock(b)>> \o @]
  <2>1. Lists' = [Lists EXCEPT ![t] = <<AsBlock(b)>> \o Lists[t]]
    BY <1>3, <1>4, ListsBecome
  <2>2. QED  BY <2>1
<1>6. AsBlock(b) \in Used /\ Used' = Used \ {AsBlock(b)}
  <2>1. \A c, d : AsBlock(c) = AsBlock(d) => c = d
    BY DEF AsBlock
  <2>2. QED  BY <2>1 DEF Used
<1>7. Centre' = Centre
  BY CentreIs, CentreIsNext DEF CentreIsHead
<1>8. /\ At[t] = "idle" /\ At' = At /\ Got' = Got /\ Life' = Life /\ PoolOf' = PoolOf
      /\ running' = running
  BY DEF At, Got, Life, PoolOf
<1>9. QED
  BY <1>5, <1>6, <1>7, <1>8
     DEF ThreadLocal!Deallocate, ThreadLocal!Push, ThreadLocal!call,
         Centre, Life, Lists, At, Got, Used, PoolOf

LEMMA UserOverwritesRefines ==
    ASSUME LinkedInv, LinkedInv', NEW b \in Blocks, UserOverwrites(b)
    PROVE  UNCHANGED ThreadLocal!vars
<1>1. \A u \in Threads : List(u)' = List(u)
  BY UserOverwritesStep
<1> USE DEF UserOverwrites, UserWrites, locals, own, calls, world
<1>2. Lists' = Lists
  BY <1>1, ListsAre DEF Whole
<1>3. Centre' = Centre
  BY CentreIs, CentreIsNext DEF CentreIsHead
<1>4. /\ Life' = Life /\ At' = At /\ PoolOf' = PoolOf
      /\ Got' = Got /\ Used' = Used /\ running' = running
  BY DEF Life, At, PoolOf, Got, Used
<1>5. QED
  BY <1>2, <1>3, <1>4
     DEF ThreadLocal!vars, ThreadLocal!call, Centre, Life, Lists, At, Got, Used, PoolOf

LEMMA NextRefines ==
    ASSUME BLOCKS_TO_FETCH \in Nat, LinkedInv, LinkedInv', [LinkedNext]_linkedVars
    PROVE  [ThreadLocal!Next]_ThreadLocal!vars
<1>1. CASE CreatePool \/ DestroyPool
  BY <1>1, CreatePoolRefines, DestroyPoolRefines DEF ThreadLocal!Next
<1>2. ASSUME NEW t \in Threads, StartThread(t) PROVE ThreadLocal!Next
  BY <1>2, StartThreadRefines DEF ThreadLocal!Next
<1>3. ASSUME NEW t \in Threads, ExitThread(t) PROVE ThreadLocal!Next
  BY <1>3, ExitThreadRefines DEF ThreadLocal!Next
<1>4. ASSUME NEW t \in Threads, Allocate(t) PROVE ThreadLocal!Next
  BY <1>4, AllocateRefines DEF ThreadLocal!Next
<1>5. ASSUME NEW t \in Threads, InAllocate(t) PROVE [ThreadLocal!Next]_ThreadLocal!vars
  <2>1. ASSUME CallCentral(t) \/ LinkIn(t) PROVE UNCHANGED ThreadLocal!vars
    BY <2>1, CallCentralRefines, LinkInRefines
  <2>2. ASSUME CentralGives(t) \/ FetchEnd(t) \/ Take(t) \/ TakeNone(t)
        PROVE  ThreadLocal!InAllocate(t)
    BY <2>2, CentralGivesRefines, FetchEndRefines, TakeRefines, TakeNoneRefines
       DEF ThreadLocal!InAllocate
  <2>3. QED  BY <1>5, <2>1, <2>2 DEF InAllocate, ThreadLocal!Next
<1>6. ASSUME NEW t \in Threads, NEW b \in Blocks, Deallocate(t, b) PROVE ThreadLocal!Next
  <2>1. AsBlock(b) \in ThreadLocal!Blocks
    BY DEF ThreadLocal!Blocks, AsBlock, Blocks
  <2>2. QED  BY <1>6, <2>1, DeallocateRefines DEF ThreadLocal!Next
<1>7. ASSUME NEW b \in Blocks, UserOverwrites(b) PROVE UNCHANGED ThreadLocal!vars
  BY <1>7, UserOverwritesRefines
<1>8. CASE UNCHANGED linkedVars
  <2> USE <1>8 DEF linkedVars, vars, locals, own, calls, world
  <2>1. \A u \in Threads : List(u)' = List(u)
    BY BlocksStay
  <2>2. Lists' = Lists
    BY <2>1, ListsAre DEF Whole
  <2>3. Centre' = Centre
    BY DEF Centre, ListFrom
  <2>4. /\ Life' = Life /\ At' = At /\ PoolOf' = PoolOf
        /\ Got' = Got /\ Used' = Used /\ running' = running
    BY DEF Life, At, PoolOf, Got, Used
  <2>5. UNCHANGED ThreadLocal!vars
    BY <2>2, <2>3, <2>4
       DEF ThreadLocal!vars, ThreadLocal!call, Centre, Life, Lists, At, Got, Used, PoolOf
  <2>6. QED  BY <2>5
<1>9. QED  BY <1>1, <1>2, <1>3, <1>4, <1>5, <1>6, <1>7, <1>8 DEF LinkedNext

(* The linked thread-local pool does what the one with sequences for lists  *)
(* and one-step central calls does: fetch_from_central_pool(), allocate()   *)
(* and deallocate() of thread_local_pool.h move the blocks they should,     *)
(* whatever stale links the threads inside the lock-free pool read.         *)
THEOREM LinkedImplementsThreadLocal ==
    BLOCKS_TO_FETCH \in Nat /\ LinkedSpec => ThreadLocalSpec
<1> SUFFICES ASSUME BLOCKS_TO_FETCH \in Nat PROVE LinkedSpec => ThreadLocalSpec
  OBVIOUS
<1>1. LinkedInit => ThreadLocal!Init
  BY InitRefines
<1>2. LinkedInv /\ LinkedInv' /\ [LinkedNext]_linkedVars => [ThreadLocal!Next]_ThreadLocal!vars
  BY NextRefines
<1>3. LinkedSpec => []LinkedInv
  BY LinkedSafety
<1>4. QED  BY <1>1, <1>2, <1>3, PTL DEF LinkedSpec, ThreadLocalSpec, ThreadLocal!Spec
=============================================================================
