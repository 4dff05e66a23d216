-------------------------- MODULE SerialCode_proofs --------------------------
(***************************************************************************)
(* Safety of the code whose calls never overlap: the single-threaded ring, *)
(* the mutex pool, the caches and the sliding window.                      *)
(***************************************************************************)
EXTENDS MCSerialCode, SequenceTheorems, FiniteSetTheorems, TLAPS

Index == INSTANCE RingIndex_proofs

----------------------------------------------------------------------------
(* Lists. *)
Distinct(s)  == \A x, y \in 1 .. Len(s) : s[x] = s[y] => x = y
OnList(s, e) == \E x \in 1 .. Len(s) : s[x] = e

LEMMA InFront ==
    ASSUME NEW S, NEW s \in Seq(S), NEW e \in S
    PROVE  /\ Len(s) \in Nat
           /\ <<e>> \o s \in Seq(S) /\ Len(<<e>> \o s) = Len(s) + 1
           /\ (<<e>> \o s)[1] = e
           /\ \A x \in 1 .. Len(s) : (<<e>> \o s)[x + 1] = s[x]
<1> DEFINE p == <<e>>
           r == p \o s
           n == Len(s)
<1>1. p \in Seq(S) /\ Len(p) = 1 /\ p[1] = e
  OBVIOUS
<1>2. n \in Nat
  BY LenProperties
<1> HIDE DEF p
<1>3. /\ r \in Seq(S) /\ Len(r) = Len(p) + n
      /\ \A x \in 1 .. Len(p) + n : r[x] = IF x <= Len(p) THEN p[x] ELSE s[x - Len(p)]
  BY <1>1, ConcatProperties
<1> HIDE DEF r, n
<1>4. Len(r) = n + 1 /\ r[1] = e
  BY <1>1, <1>2, <1>3
<1>5. ASSUME NEW x \in 1 .. n PROVE r[x + 1] = s[x]
  <2>1. x + 1 \in 1 .. 1 + n /\ ~(x + 1 <= 1) /\ (x + 1) - 1 = x
    BY <1>2
  <2>2. QED  BY <2>1, <1>1, <1>3
<1>6. QED  BY <1>2, <1>3, <1>4, <1>5 DEF r, p, n

LEMMA Behind ==
    ASSUME NEW S, NEW s \in Seq(S), s # <<>>
    PROVE  /\ Len(s) \in Nat \ {0} /\ s[1] \in S /\ Head(s) = s[1]
           /\ Tail(s) \in Seq(S) /\ Len(Tail(s)) = Len(s) - 1
           /\ \A x \in 1 .. Len(s) - 1 : Tail(s)[x] = s[x + 1]
<1>1. Len(s) \in Nat \ {0}
  BY EmptySeq
<1>2. /\ Tail(s) \in Seq(S) /\ Len(Tail(s)) = Len(s) - 1
      /\ \A x \in 1 .. Len(Tail(s)) : Tail(s)[x] = s[x + 1]
  BY HeadTailProperties
<1>3. s[1] \in S
  BY <1>1, ElementOfSeq
<1>4. QED  BY <1>1, <1>2, <1>3

LEMMA InFrontOfOthers ==
    ASSUME NEW S, NEW s \in Seq(S), NEW e \in S
    PROVE  /\ \A c : OnList(<<e>> \o s, c) <=> c = e \/ OnList(s, c)
           /\ Distinct(s) /\ ~OnList(s, e) => Distinct(<<e>> \o s)
<1> DEFINE r == <<e>> \o s
           n == Len(s)
<1>1. /\ n \in Nat /\ Len(r) = n + 1 /\ r[1] = e
      /\ \A x \in 1 .. n : r[x + 1] = s[x]
  BY InFront
<1> HIDE DEF r, n
<1>2. \A x \in 1 .. n + 1 : x = 1 \/ (x - 1 \in 1 .. n /\ r[x] = s[x - 1])
  <2>1. SUFFICES ASSUME NEW x \in 1 .. n + 1, x # 1 PROVE x - 1 \in 1 .. n /\ r[x] = s[x - 1]
    OBVIOUS
  <2>2. x - 1 \in 1 .. n /\ (x - 1) + 1 = x  BY <1>1, <2>1
  <2>3. QED  BY <2>2, <1>1
<1>3. ASSUME NEW c PROVE OnList(r, c) <=> c = e \/ OnList(s, c)
  <2>1. ASSUME NEW x \in 1 .. n, s[x] = c PROVE OnList(r, c)
    <3>1. x + 1 \in 1 .. n + 1 /\ r[x + 1] = c  BY <2>1, <1>1
    <3>2. QED  BY <3>1, <1>1 DEF OnList
  <2>2. ASSUME NEW x \in 1 .. n + 1, r[x] = c PROVE c = e \/ OnList(s, c)
    BY <2>2, <1>1, <1>2 DEF OnList, n
  <2>3. c = e => OnList(r, c)
    <3>1. 1 \in 1 .. n + 1  BY <1>1
    <3>2. QED  BY <3>1, <1>1 DEF OnList
  <2>4. QED  BY <2>1, <2>2, <2>3, <1>1 DEF OnList, n
<1>4. ASSUME Distinct(s), ~OnList(s, e) PROVE Distinct(r)
  <2>1. SUFFICES ASSUME NEW x \in 1 .. n + 1, NEW y \in 1 .. n + 1, r[x] = r[y] PROVE x = y
    BY <1>1 DEF Distinct
  <2>2. CASE x = 1 \/ y = 1
    BY <2>1, <2>2, <1>1, <1>2, <1>4 DEF OnList, n
  <2>3. CASE x # 1 /\ y # 1
    <3>1. x - 1 \in 1 .. n /\ y - 1 \in 1 .. n /\ s[x - 1] = s[y - 1]
      BY <2>1, <2>3, <1>2
    <3>2. x - 1 = y - 1  BY <3>1, <1>4 DEF Distinct, n
    <3>3. QED  BY <3>2, <1>1
  <2>4. QED  BY <2>2, <2>3
<1>5. QED  BY <1>3, <1>4 DEF r

LEMMA BehindOthers ==
    ASSUME NEW S, NEW s \in Seq(S), s # <<>>, Distinct(s)
    PROVE  /\ \A c : OnList(Tail(s), c) <=> OnList(s, c) /\ c # s[1]
           /\ Distinct(Tail(s))
<1> DEFINE r == Tail(s)
           n == Len(s)
<1>1. /\ n \in Nat \ {0} /\ Len(r) = n - 1
      /\ \A x \in 1 .. n - 1 : r[x] = s[x + 1]
  BY Behind
<1>2. \A x, y \in 1 .. n : s[x] = s[y] => x = y
  BY DEF Distinct
<1> HIDE DEF r, n
<1>3. ASSUME NEW c PROVE OnList(r, c) <=> OnList(s, c) /\ c # s[1]
  <2>1. ASSUME NEW x \in 1 .. n - 1, r[x] = c PROVE OnList(s, c) /\ c # s[1]
    <3>1. x + 1 \in 1 .. n /\ 1 \in 1 .. n /\ x + 1 # 1 /\ s[x + 1] = c  BY <2>1, <1>1
    <3>2. QED  BY <3>1, <1>2 DEF OnList, n
  <2>2. ASSUME NEW x \in 1 .. n, s[x] = c, c # s[1] PROVE OnList(r, c)
    <3>1. x - 1 \in 1 .. n - 1 /\ (x - 1) + 1 = x  BY <2>2, <1>1
    <3>2. r[x - 1] = c  BY <3>1, <2>2, <1>1
    <3>3. QED  BY <3>1, <3>2, <1>1 DEF OnList
  <2>3. QED  BY <2>1, <2>2, <1>1 DEF OnList, n
<1>4. Distinct(r)
  <2>1. SUFFICES ASSUME NEW x \in 1 .. n - 1, NEW y \in 1 .. n - 1, r[x] = r[y] PROVE x = y
    BY <1>1 DEF Distinct
  <2>2. x + 1 \in 1 .. n /\ y + 1 \in 1 .. n /\ s[x + 1] = s[y + 1]  BY <2>1, <1>1
  <2>3. x + 1 = y + 1  BY <2>2, <1>2
  <2>4. QED  BY <2>3
<1>5. QED  BY <1>3, <1>4 DEF r

LEMMA WithoutLast ==
    ASSUME NEW S, NEW s \in Seq(S), s # <<>>
    PROVE  /\ Len(s) \in Nat \ {0}
           /\ Front(s) \in Seq(S) /\ Len(Front(s)) = Len(s) - 1
           /\ \A x \in 1 .. Len(s) - 1 : Front(s)[x] = s[x]
<1> DEFINE m == Len(s)
           p == SubSeq(s, 1, m - 1)
<1>1. m \in Nat \ {0} /\ \A x \in 1 .. m : s[x] \in S
  BY EmptySeq, ElementOfSeq
<1>2. /\ 1 \in Int /\ m - 1 \in Int /\ \A x \in 1 .. m - 1 : s[x] \in S
  BY <1>1
<1>3. /\ p \in Seq(S) /\ Len(p) = IF 1 <= m - 1 THEN (m - 1) - 1 + 1 ELSE 0
      /\ \A x \in 1 .. (m - 1) - 1 + 1 : p[x] = s[1 + x - 1]
  BY <1>2, SubSeqProperties
<1>4. Front(s) = p
  BY DEF Front
<1> HIDE DEF p, m
<1>5. p \in Seq(S) /\ Len(p) = m - 1 /\ \A x \in 1 .. m - 1 : p[x] = s[x]
  BY <1>1, <1>3
<1>6. QED  BY <1>1, <1>4, <1>5 DEF m

(* What stands at place x when the n-th element has left a list, and when   *)
(* it has moved to the front of it.                                         *)
After(n, x) == IF x < n THEN x ELSE x + 1
From(n, x)  == IF x = 1 THEN n ELSE IF x <= n THEN x - 1 ELSE x

LEMMA FromPermutes ==
    ASSUME NEW m \in Nat, NEW n \in 1 .. m
    PROVE  /\ \A x \in 1 .. m : From(n, x) \in 1 .. m
           /\ \A x, y \in 1 .. m : From(n, x) = From(n, y) => x = y
           /\ \A y \in 1 .. m : \E x \in 1 .. m : From(n, x) = y
<1>1. \A x \in 1 .. m : From(n, x) \in 1 .. m
  BY DEF From
<1>2. \A x, y \in 1 .. m : From(n, x) = From(n, y) => x = y
  BY DEF From
<1>3. ASSUME NEW y \in 1 .. m PROVE \E x \in 1 .. m : From(n, x) = y
  <2>1. CASE y < n
    <3>1. y + 1 \in 1 .. m /\ From(n, y + 1) = y  BY <2>1 DEF From
    <3>2. QED  BY <3>1
  <2>2. CASE y = n
    <3>1. 1 \in 1 .. m /\ From(n, 1) = y  BY <2>2 DEF From
    <3>2. QED  BY <3>1
  <2>3. CASE y > n
    <3>1. From(n, y) = y  BY <2>3 DEF From
    <3>2. QED  BY <3>1
  <2>4. QED  BY <2>1, <2>2, <2>3
<1>4. QED  BY <1>1, <1>2, <1>3

LEMMA Dropped ==
    ASSUME NEW S, NEW s \in Seq(S), NEW n \in 1 .. Len(s)
    PROVE  /\ Len(s) \in Nat
           /\ RemoveAt(s, n) \in Seq(S) /\ Len(RemoveAt(s, n)) = Len(s) - 1
           /\ \A x \in 1 .. Len(s) - 1 : RemoveAt(s, n)[x] = s[After(n, x)]
<1> DEFINE m == Len(s)
           p == SubSeq(s, 1, n - 1)
           q == SubSeq(s, n + 1, m)
<1>1. m \in Nat /\ n \in 1 .. m /\ \A x \in 1 .. m : s[x] \in S
  BY LenProperties, ElementOfSeq
<1>2. p \in Seq(S) /\ Len(p) = n - 1 /\ \A x \in 1 .. n - 1 : p[x] = s[x]
  <2>1. /\ 1 \in Int /\ n - 1 \in Int /\ \A x \in 1 .. n - 1 : s[x] \in S
    BY <1>1
  <2>2. /\ p \in Seq(S) /\ Len(p) = IF 1 <= n - 1 THEN (n - 1) - 1 + 1 ELSE 0
        /\ \A x \in 1 .. (n - 1) - 1 + 1 : p[x] = s[1 + x - 1]
    BY <2>1, SubSeqProperties
  <2> HIDE DEF p
  <2>3. QED  BY <2>2, <1>1
<1>3. q \in Seq(S) /\ Len(q) = m - n /\ \A x \in 1 .. m - n : q[x] = s[n + x]
  <2>1. /\ n + 1 \in Int /\ m \in Int /\ \A x \in n + 1 .. m : s[x] \in S
    BY <1>1
  <2>2. /\ q \in Seq(S) /\ Len(q) = IF n + 1 <= m THEN m - (n + 1) + 1 ELSE 0
        /\ \A x \in 1 .. m - (n + 1) + 1 : q[x] = s[n + 1 + x - 1]
    BY <2>1, SubSeqProperties
  <2> HIDE DEF q
  <2>3. \A x \in 1 .. m - n : x \in 1 .. m - (n + 1) + 1 /\ n + 1 + x - 1 = n + x
    BY <1>1
  <2>4. QED  BY <2>2, <2>3, <1>1
<1> HIDE DEF p, q, m
<1>4. /\ p \o q \in Seq(S) /\ Len(p \o q) = Len(p) + Len(q)
      /\ \A x \in 1 .. Len(p) + Len(q) : (p \o q)[x] = IF x <= Len(p) THEN p[x] ELSE q[x - Len(p)]
  BY <1>2, <1>3, ConcatProperties
<1> DEFINE r == p \o q
<1> HIDE DEF r
<1>5. r \in Seq(S) /\ Len(r) = m - 1
      /\ \A x \in 1 .. m - 1 : r[x] = IF x <= n - 1 THEN p[x] ELSE q[x - (n - 1)]
  <2>1. Len(p) + Len(q) = m - 1
    BY <1>1, <1>2, <1>3
  <2>2. QED  BY <2>1, <1>2, <1>4 DEF r
<1>6. ASSUME NEW x \in 1 .. m - 1 PROVE r[x] = s[After(n, x)]
  <2>1. CASE x < n
    <3>1. x <= n - 1 /\ x \in 1 .. n - 1 /\ After(n, x) = x  BY <2>1, <1>1 DEF After
    <3>2. QED  BY <3>1, <1>2, <1>5
  <2>2. CASE ~(x < n)
    <3>1. ~(x <= n - 1) /\ x - (n - 1) \in 1 .. m - n /\ n + (x - (n - 1)) = x + 1
          /\ After(n, x) = x + 1
      BY <2>2, <1>1 DEF After
    <3>2. QED  BY <3>1, <1>3, <1>5
  <2>3. QED  BY <2>1, <2>2
<1>7. QED  BY <1>1, <1>5, <1>6 DEF r, p, q, m, RemoveAt

(* In a list without repetition an element has one place to leave. *)
LEMMA FirstIsOnly ==
    ASSUME NEW S, NEW s \in Seq(S), Distinct(s), NEW n \in 1 .. Len(s)
    PROVE  RemoveFirst(s, s[n]) = RemoveAt(s, n)
<1>1. n \in Int
  BY LenProperties
<1> DEFINE I == {x \in 1 .. Len(s) : s[x] = s[n]}
<1>2. I = {n}
  BY DEF Distinct
<1>3. Min(I) = n
  BY <1>1, <1>2 DEF Min
<1>4. SelectInSeq(s, LAMBDA v: v = s[n]) = n
  BY <1>2, <1>3 DEF SelectInSeq
<1>5. QED  BY <1>4 DEF RemoveFirst

LEMMA RemovedFirst ==
    ASSUME NEW S, NEW s \in Seq(S), Distinct(s), NEW e
    PROVE  /\ RemoveFirst(s, e) \in Seq(S) /\ Distinct(RemoveFirst(s, e))
           /\ \A c : OnList(RemoveFirst(s, e), c) <=> OnList(s, c) /\ c # e
<1>1. CASE ~OnList(s, e)
  <2>1. RemoveFirst(s, e) = s  BY <1>1 DEF RemoveFirst, OnList
  <2>2. QED  BY <1>1, <2>1
<1>2. CASE OnList(s, e)
  <2>1. PICK n \in 1 .. Len(s) : s[n] = e  BY <1>2 DEF OnList
  <2> DEFINE r == RemoveFirst(s, e)
             m == Len(s)
  <2>2. /\ m \in Nat /\ r \in Seq(S) /\ Len(r) = m - 1
        /\ \A x \in 1 .. m - 1 : r[x] = s[After(n, x)]
    <3>1. r = RemoveAt(s, n)  BY <2>1, FirstIsOnly
    <3>2. QED  BY <3>1, Dropped
  <2>3. \A x, y \in 1 .. m : s[x] = s[y] => x = y
    BY DEF Distinct
  <2> HIDE DEF r, m
  <2>n. n \in 1 .. m  BY DEF m
  <2>4. \A x \in 1 .. m - 1 : After(n, x) \in 1 .. m /\ After(n, x) # n
    BY <2>2, <2>n DEF After
  <2>5. Distinct(r)
    <3>1. SUFFICES ASSUME NEW x \in 1 .. m - 1, NEW y \in 1 .. m - 1, r[x] = r[y] PROVE x = y
      BY <2>2 DEF Distinct
    <3>2. After(n, x) = After(n, y)  BY <3>1, <2>2, <2>3, <2>4
    <3>3. QED  BY <3>2, <2>2, <2>n DEF After
  <2>6. ASSUME NEW c PROVE OnList(r, c) <=> OnList(s, c) /\ c # e
    <3>1. ASSUME NEW x \in 1 .. m - 1, r[x] = c PROVE OnList(s, c) /\ c # e
      BY <3>1, <2>1, <2>2, <2>3, <2>4, <2>n DEF OnList, m
    <3>2. ASSUME NEW y \in 1 .. m, s[y] = c, c # e PROVE OnList(r, c)
      <4>1. y # n  BY <3>2, <2>1
      <4>2. PICK x \in 1 .. m - 1 : After(n, x) = y
        <5>1. CASE y < n
          <6>1. y \in 1 .. m - 1 /\ After(n, y) = y  BY <5>1, <2>2, <2>n DEF After
          <6>2. QED  BY <6>1
        <5>2. CASE y > n
          <6>1. y - 1 \in 1 .. m - 1 /\ After(n, y - 1) = y  BY <5>2, <2>2, <2>n DEF After
          <6>2. QED  BY <6>1
        <5>3. QED  BY <5>1, <5>2, <4>1, <2>2, <2>n
      <4>3. QED  BY <4>2, <3>2, <2>2 DEF OnList
    <3>3. QED  BY <3>1, <3>2, <2>2 DEF OnList, m
  <2>7. QED  BY <2>2, <2>5, <2>6 DEF r
<1>3. QED  BY <1>1, <1>2

(* An element moves to the front of a list, or another takes its place.     *)
LEMMA Spliced ==
    ASSUME NEW S, NEW s \in Seq(S), NEW n \in 1 .. Len(s), NEW e \in S
    PROVE  /\ Len(s) \in Nat
           /\ <<e>> \o RemoveAt(s, n) \in Seq(S) /\ Len(<<e>> \o RemoveAt(s, n)) = Len(s)
           /\ \A x \in 1 .. Len(s) :
                (<<e>> \o RemoveAt(s, n))[x] = IF x = 1 THEN e ELSE s[From(n, x)]
<1> DEFINE r == RemoveAt(s, n)
           t == <<e>> \o r
           m == Len(s)
<1>1. /\ m \in Nat /\ n \in 1 .. m /\ r \in Seq(S) /\ Len(r) = m - 1
      /\ \A x \in 1 .. m - 1 : r[x] = s[After(n, x)]
  BY Dropped
<1> HIDE DEF r
<1>2. /\ t \in Seq(S) /\ Len(t) = m - 1 + 1 /\ t[1] = e
      /\ \A x \in 1 .. m - 1 : t[x + 1] = r[x]
  BY <1>1, InFront
<1> HIDE DEF t, m
<1>3. ASSUME NEW x \in 1 .. m, x # 1 PROVE t[x] = s[From(n, x)]
  <2>1. x - 1 \in 1 .. m - 1 /\ (x - 1) + 1 = x /\ After(n, x - 1) = From(n, x)
    BY <1>1, <1>3 DEF After, From
  <2>2. t[x] = r[x - 1]  BY <2>1, <1>2
  <2>3. QED  BY <2>1, <2>2, <1>1
<1>4. QED  BY <1>1, <1>2, <1>3 DEF t, r, m

LEMMA SplicedKeeps ==
    ASSUME NEW S, NEW s \in Seq(S), NEW n \in 1 .. Len(s), Distinct(s)
    PROVE  /\ Len(s) \in Nat
           /\ <<s[n]>> \o RemoveAt(s, n) \in Seq(S) /\ Len(<<s[n]>> \o RemoveAt(s, n)) = Len(s)
           /\ Distinct(<<s[n]>> \o RemoveAt(s, n))
           /\ \A x \in 1 .. Len(s) : (<<s[n]>> \o RemoveAt(s, n))[x] = s[From(n, x)]
<1> DEFINE e == s[n]
           t == <<e>> \o RemoveAt(s, n)
           m == Len(s)
<1>1. e \in S
  BY ElementOfSeq
<1> HIDE DEF e
<1>2. /\ m \in Nat /\ t \in Seq(S) /\ Len(t) = m /\ n \in 1 .. m
      /\ \A x \in 1 .. m : t[x] = IF x = 1 THEN e ELSE s[From(n, x)]
  BY <1>1, Spliced
<1> HIDE DEF t, m
<1>3. \A x \in 1 .. m : t[x] = s[From(n, x)]
  BY <1>2 DEF From, e
<1>4. \A x, y \in 1 .. m : s[x] = s[y] => x = y
  BY DEF Distinct, m
<1>5. /\ \A x \in 1 .. m : From(n, x) \in 1 .. m
      /\ \A x, y \in 1 .. m : From(n, x) = From(n, y) => x = y
  <2>1. m \in Nat /\ n \in 1 .. m
    BY <1>2
  <2>2. QED  BY <2>1, FromPermutes
<1>6. Distinct(t)
  <2>1. SUFFICES ASSUME NEW x \in 1 .. m, NEW y \in 1 .. m, t[x] = t[y] PROVE x = y
    BY <1>2 DEF Distinct
  <2>2. From(n, x) = From(n, y)
    BY <2>1, <1>3, <1>4, <1>5
  <2>3. QED  BY <2>2, <1>5
<1>7. QED  BY <1>2, <1>3, <1>6 DEF e, t, m

----------------------------------------------------------------------------
(* The single-threaded ring: the item n places behind the oldest is in the  *)
(* slot n places behind head_.                                              *)
RingInv ==
    /\ msg_q_ = [q \in Ring!Slots |-> msg_q_[q]]
    /\ head_ \in Ring!Slots
    /\ inside \in Seq(Items) /\ Len(inside) <= Capacity
    /\ tail_ = (head_ + Len(inside)) % Ring!BufferCapacity
    /\ \A x \in 1 .. Len(inside) : msg_q_[(head_ + x - 1) % Ring!BufferCapacity] = inside[x]
    /\ item = due

(* The arithmetic of the ring, in the names of the queue. *)
LEMMA RingArithmetic ==
    /\ Ring!BufferCapacity = Capacity + 1 /\ Ring!Slots = 0 .. Capacity /\ Capacity \in Nat
    /\ \A n \in Nat : n % Ring!BufferCapacity \in Ring!Slots
    /\ \A n \in Ring!Slots : n % Ring!BufferCapacity = n
    /\ \A n \in Nat : Ring!Advance(n % Ring!BufferCapacity) = (n + 1) % Ring!BufferCapacity
    /\ \A m, n \in Nat : m < n /\ n - m <= Capacity =>
         m % Ring!BufferCapacity # n % Ring!BufferCapacity
    /\ \A m, n \in Nat : m <= n /\ n <= m + Capacity =>
         /\ Ring!IsFull(m % Ring!BufferCapacity, n % Ring!BufferCapacity) <=> n = m + Capacity
         /\ Ring!IsEmpty(m % Ring!BufferCapacity, n % Ring!BufferCapacity) <=> n = m
<1> DEFINE M == Ring!BufferCapacity
<1>1. /\ Capacity \in Nat /\ M = Capacity + 1 /\ M = Index!BufferCapacity /\ M \in Nat \ {0}
      /\ Ring!Slots = 0 .. Capacity /\ Ring!Slots = Index!Slots
  BY SerialAssumption
     DEF Ring!BufferCapacity, Index!BufferCapacity, Ring!Slots, Index!Slots
<1>2. /\ \A n : Ring!Advance(n) = Index!Advance(n)
      /\ \A m, n : /\ Ring!IsFull(m, n) <=> Index!IsFull(m, n)
                   /\ Ring!IsEmpty(m, n) <=> Index!IsEmpty(m, n)
  BY <1>1 DEF Ring!Advance, Index!Advance, Ring!IsFull, Index!IsFull, Ring!IsEmpty, Index!IsEmpty
<1> HIDE DEF M
<1>3. \A n \in Nat : n % M \in Ring!Slots
  BY <1>1, Index!SlotOf
<1>4. \A n \in Ring!Slots : n % M = n
  <2>1. ASSUME NEW n \in 0 .. Capacity PROVE n % M = n
    <3>1. n = M * 0 + n /\ n \in 0 .. M - 1  BY <1>1
    <3>2. QED  BY <3>1, <1>1, Index!ModUnique
  <2>2. QED  BY <2>1, <1>1
<1>5. \A n \in Nat : Ring!Advance(n % M) = (n + 1) % M
  BY <1>1, <1>2, Index!AdvanceSlot
<1>6. \A m, n \in Nat : m < n /\ n - m <= Capacity => m % M # n % M
  <2>1. ASSUME NEW m \in Nat, NEW n \in Nat, m < n, n - m <= Capacity PROVE m % M # n % M
    <3>1. n - m < Index!BufferCapacity  BY <2>1, <1>1
    <3>2. QED  BY <3>1, <2>1, <1>1, Index!SlotsDiffer
  <2>2. QED  BY <2>1
<1>7. \A m, n \in Nat : m <= n /\ n <= m + Capacity =>
        /\ Ring!IsFull(m % M, n % M) <=> n = m + Capacity
        /\ Ring!IsEmpty(m % M, n % M) <=> n = m
  BY <1>1, <1>2, Index!FullMeansFull, Index!EmptyMeansEmpty
<1>8. QED  BY <1>1, <1>3, <1>4, <1>5, <1>6, <1>7 DEF M

LEMMA ModShift ==
    ASSUME NEW n \in Nat, NEW m \in Nat
    PROVE  ((n % Ring!BufferCapacity) + m) % Ring!BufferCapacity = (n + m) % Ring!BufferCapacity
<1> DEFINE M == Ring!BufferCapacity
           r == n % M
           q == n \div M
           o == (r + m) % M
           p == (r + m) \div M
<1>1. M \in Nat \ {0}
  BY RingArithmetic
<1> HIDE DEF M
<1>2. q \in Int /\ r \in 0 .. M - 1 /\ n = M * q + r
  BY <1>1, Index!DivMod
<1> HIDE DEF q, r
<1>3. p \in Int /\ o \in 0 .. M - 1 /\ r + m = M * p + o
  BY <1>1, <1>2, Index!DivMod
<1> HIDE DEF p, o
<1>4. n + m = M * (q + p) + o /\ q + p \in Int
  <2>1. M * (q + p) = M * q + M * p  BY <1>1, <1>2, <1>3
  <2>2. M * q \in Int /\ M * p \in Int  BY <1>1, <1>2, <1>3
  <2>3. QED  BY <2>1, <2>2, <1>2, <1>3
<1>5. (n + m) % M = o
  <2> DEFINE k == q + p
             l == n + m
  <2>1. k \in Int /\ l \in Int /\ l = M * k + o
    BY <1>4
  <2> HIDE DEF k, l
  <2>2. l % M = o
    BY <2>1, <1>1, <1>3, Index!ModUnique, SerialAssumption
  <2>3. QED  BY <2>2 DEF l
<1>6. QED  BY <1>5 DEF M, r, o

(* size() is the number of items, whichever of the indices is ahead.        *)
LEMMA SizeIsLength ==
    ASSUME NEW h \in Ring!Slots, NEW n \in 0 .. Capacity
    PROVE  Ring!SizeOf(h, (h + n) % Ring!BufferCapacity) = n
<1> DEFINE M == Ring!BufferCapacity
           r == (h + n) % M
           q == (h + n) \div M
<1>1. M \in Nat \ {0} /\ h \in Nat /\ n \in 0 .. M - 1
  BY RingArithmetic
<1> HIDE DEF M
<1>2. q \in Int /\ r \in 0 .. M - 1 /\ h + n = M * q + r
  BY <1>1, Index!DivMod
<1> HIDE DEF q, r
<1>3. r + M - h = M * (1 - q) + n /\ 1 - q \in Int
  <2>1. M * (1 - q) = M - M * q /\ M * q \in Int  BY <1>1, <1>2
  <2>2. QED  BY <2>1, <1>1, <1>2
<1>4. (r + M - h) % M = n
  <2> DEFINE k == 1 - q
             l == r + M - h
  <2>1. k \in Int /\ l \in Int /\ l = M * k + n
    BY <1>1, <1>2, <1>3
  <2> HIDE DEF k, l
  <2>2. l % M = n
    BY <2>1, <1>1, Index!ModUnique, SerialAssumption
  <2>3. QED  BY <2>2 DEF l
<1>5. QED  BY <1>4 DEF M, r, Ring!SizeOf

LEMMA InitRing == Ring!Init => RingInv
<1> SUFFICES ASSUME Ring!Init PROVE RingInv
  OBVIOUS
<1>1. inside = <<>> /\ Len(inside) = 0 /\ inside \in Seq(Items)
  BY DEF Ring!Init
<1>2. head_ = 0 /\ tail_ = 0 /\ 0 \in Ring!Slots /\ 0 % Ring!BufferCapacity = 0
  BY RingArithmetic DEF Ring!Init
<1>3. QED  BY <1>1, <1>2, RingArithmetic DEF RingInv, Ring!Init

LEMMA PushRing == ASSUME RingInv, NEW v \in Items, Ring!Push(v) PROVE RingInv'
<1> DEFINE M == Ring!BufferCapacity
           n == Len(inside)
<1> USE DEF Ring!Push
<1>1. /\ n \in Nat /\ head_ \in Nat /\ Capacity \in Nat /\ n <= Capacity
      /\ head_ \in Ring!Slots /\ head_ % M = head_ /\ tail_ = (head_ + n) % M
      /\ head_ + n \in Nat /\ head_ <= head_ + n /\ head_ + n <= head_ + Capacity
  <2>1. n \in Nat /\ Capacity \in Nat /\ n <= Capacity /\ head_ \in 0 .. Capacity
    BY LenProperties, RingArithmetic DEF RingInv
  <2>2. head_ \in Ring!Slots /\ head_ % M = head_ /\ tail_ = (head_ + n) % M
    BY RingArithmetic DEF RingInv
  <2>3. QED  BY <2>1, <2>2
<1>2. n < Capacity
  <2>1. Ring!IsFull(head_ % M, (head_ + n) % M) <=> head_ + n = head_ + Capacity
    BY <1>1, RingArithmetic
  <2>2. QED  BY <2>1, <1>1
<1>3. /\ inside' \in Seq(Items) /\ Len(inside') = n + 1
      /\ \A x \in 1 .. n : inside'[x] = inside[x]
      /\ inside'[n + 1] = v
  BY AppendProperties DEF RingInv
<1>4. tail_' = (head_ + (n + 1)) % M
  <2>1. Ring!Advance((head_ + n) % M) = (head_ + n + 1) % M
    BY <1>1, RingArithmetic
  <2>2. head_ + n + 1 = head_ + (n + 1)
    BY <1>1
  <2>3. QED  BY <2>1, <2>2, <1>1
<1>5. tail_ \in Ring!Slots
  BY <1>1, RingArithmetic
<1>6. /\ msg_q_' = [q \in Ring!Slots |-> msg_q_'[q]]
      /\ \A q \in Ring!Slots : msg_q_'[q] = IF q = tail_ THEN v ELSE msg_q_[q]
  BY <1>5 DEF RingInv
<1>7. ASSUME NEW x \in 1 .. n PROVE msg_q_'[(head_ + x - 1) % M] = inside'[x]
  <2>1. /\ head_ + x - 1 \in Nat /\ head_ + n \in Nat
        /\ head_ + x - 1 < head_ + n /\ (head_ + n) - (head_ + x - 1) <= Capacity
    BY <1>1, <1>2
  <2>2. (head_ + x - 1) % M # tail_ /\ (head_ + x - 1) % M \in Ring!Slots
    BY <2>1, <1>1, RingArithmetic
  <2>3. QED  BY <2>2, <1>3, <1>6 DEF RingInv
<1>8. msg_q_'[(head_ + (n + 1) - 1) % M] = inside'[n + 1]
  <2>1. head_ + (n + 1) - 1 = head_ + n  BY <1>1
  <2>2. QED  BY <2>1, <1>1, <1>3, <1>5, <1>6
<1>9. \A x \in 1 .. n + 1 : msg_q_'[(head_ + x - 1) % M] = inside'[x]
  <2>1. \A x \in 1 .. n + 1 : x \in 1 .. n \/ x = n + 1  BY <1>1
  <2>2. QED  BY <2>1, <1>7, <1>8
<1>10. Len(inside') <= Capacity
  BY <1>1, <1>2, <1>3
<1>11. QED  BY <1>3, <1>4, <1>6, <1>9, <1>10 DEF RingInv

LEMMA PopRing == ASSUME RingInv, Ring!Pop PROVE RingInv'
<1> DEFINE M == Ring!BufferCapacity
           n == Len(inside)
<1> USE DEF Ring!Pop
<1>1. /\ n \in Nat /\ head_ \in Nat /\ Capacity \in Nat /\ n <= Capacity
      /\ head_ \in Ring!Slots /\ head_ % M = head_ /\ tail_ = (head_ + n) % M
      /\ head_ + n \in Nat /\ head_ <= head_ + n /\ head_ + n <= head_ + Capacity
  <2>1. n \in Nat /\ Capacity \in Nat /\ n <= Capacity /\ head_ \in 0 .. Capacity
    BY LenProperties, RingArithmetic DEF RingInv
  <2>2. head_ \in Ring!Slots /\ head_ % M = head_ /\ tail_ = (head_ + n) % M
    BY RingArithmetic DEF RingInv
  <2>3. QED  BY <2>1, <2>2
<1>2. n # 0 /\ inside # <<>>
  <2>1. Ring!IsEmpty(head_ % M, (head_ + n) % M) <=> head_ + n = head_
    BY <1>1, RingArithmetic
  <2>2. QED  BY <2>1, <1>1
<1>3. /\ Head(inside) = inside[1] /\ inside' \in Seq(Items) /\ Len(inside') = n - 1
      /\ \A x \in 1 .. n - 1 : inside'[x] = inside[x + 1]
  BY <1>2, Behind DEF RingInv
<1>4. head_' = (head_ + 1) % M /\ head_' \in Ring!Slots
  <2>1. Ring!Advance(head_ % M) = (head_ + 1) % M /\ head_ + 1 \in Nat
    BY <1>1, RingArithmetic
  <2>2. (head_ + 1) % M \in Ring!Slots
    BY <2>1, RingArithmetic
  <2>3. QED  BY <2>1, <2>2, <1>1
<1>5. \A x \in Nat : (head_' + x) % M = (head_ + 1 + x) % M
  BY <1>1, <1>4, ModShift
<1>6. tail_' = (head_' + Len(inside')) % M
  <2>1. n - 1 \in Nat /\ head_ + 1 + (n - 1) = head_ + n  BY <1>1, <1>2
  <2>2. QED  BY <2>1, <1>1, <1>3, <1>5
<1>7. ASSUME NEW x \in 1 .. n - 1 PROVE msg_q_'[(head_' + x - 1) % M] = inside'[x]
  <2>1. /\ x - 1 \in Nat /\ x + 1 \in 1 .. n
        /\ head_ + 1 + (x - 1) = head_ + (x + 1) - 1
    BY <1>1
  <2>2. head_' \in Nat /\ head_' + x - 1 = head_' + (x - 1)
    BY <1>4, RingArithmetic
  <2>3. (head_' + x - 1) % M = (head_ + (x + 1) - 1) % M
    BY <2>1, <2>2, <1>5
  <2>4. QED  BY <2>1, <2>3, <1>3 DEF RingInv
<1>8. item' = due'
  <2>1. 1 \in 1 .. n /\ head_ + 1 - 1 = head_  BY <1>1, <1>2
  <2>2. QED  BY <2>1, <1>1, <1>3 DEF RingInv
<1>9. Len(inside') <= Capacity
  BY <1>1, <1>3
<1>10. QED  BY <1>3, <1>4, <1>6, <1>7, <1>8, <1>9 DEF RingInv

LEMMA ClearRing == ASSUME RingInv, Ring!Clear PROVE RingInv'
<1> USE DEF Ring!Clear
<1>1. inside' = <<>> /\ Len(inside') = 0 /\ inside' \in Seq(Items)
  OBVIOUS
<1>2. head_' = 0 /\ tail_' = 0 /\ 0 \in Ring!Slots /\ 0 % Ring!BufferCapacity = 0
  BY RingArithmetic
<1>3. QED  BY <1>1, <1>2, RingArithmetic DEF RingInv

LEMMA NextRing == ASSUME RingInv, [Next]_vars PROVE RingInv'
<1>1. CASE Ring!Next
  BY <1>1, PushRing, PopRing, ClearRing DEF Ring!Next
<1>2. CASE UNCHANGED ringVars
  BY <1>2 DEF ringVars, RingInv
<1>3. QED  BY <1>1, <1>2 DEF Next, vars

LEMMA RingAnswers == RingInv => RingHoldsWhatIsInside
<1> SUFFICES ASSUME RingInv PROVE Ring!HoldsWhatIsInside
  BY DEF RingHoldsWhatIsInside
<1> DEFINE M == Ring!BufferCapacity
           n == Len(inside)
<1>1. /\ n \in Nat /\ head_ \in Nat /\ Capacity \in Nat /\ n <= Capacity
      /\ head_ \in Ring!Slots /\ head_ % M = head_ /\ tail_ = (head_ + n) % M
      /\ head_ + n \in Nat /\ head_ <= head_ + n /\ head_ + n <= head_ + Capacity
  <2>1. n \in Nat /\ Capacity \in Nat /\ n <= Capacity /\ head_ \in 0 .. Capacity
    BY LenProperties, RingArithmetic DEF RingInv
  <2>2. head_ \in Ring!Slots /\ head_ % M = head_ /\ tail_ = (head_ + n) % M
    BY RingArithmetic DEF RingInv
  <2>3. QED  BY <2>1, <2>2
<1>2. Ring!SizeOf(head_, tail_) = n
  BY <1>1, SizeIsLength
<1>3. /\ Ring!IsFull(head_ % M, (head_ + n) % M) <=> head_ + n = head_ + Capacity
      /\ Ring!IsEmpty(head_ % M, (head_ + n) % M) <=> head_ + n = head_
  BY <1>1, RingArithmetic
<1>4. /\ Ring!IsEmpty(head_, tail_) <=> n = 0
      /\ Ring!IsFull(head_, tail_) <=> n = Capacity
  BY <1>1, <1>3
<1>5. QED  BY <1>2, <1>4 DEF RingInv, Ring!HoldsWhatIsInside

(* RingBufferQueue: for every capacity and however often the indices wrap   *)
(* around or are reset by clear(), the slots hold what was pushed and not   *)
(* popped, in order, and size(), empty() and full() tell how much it is.    *)
THEOREM RingIsAQueue == Spec => []RingHoldsWhatIsInside
<1>1. Init => RingInv
  BY InitRing DEF Init
<1>2. RingInv /\ [Next]_vars => RingInv'
  BY NextRing
<1>3. RingInv => RingHoldsWhatIsInside
  BY RingAnswers
<1>4. QED  BY <1>1, <1>2, <1>3, PTL DEF Spec

----------------------------------------------------------------------------
(* The mutex pool.  Who is inside a call owns the mutex; what it handles is *)
(* neither in use nor on the list, or is the head that it takes.            *)
PoolTypeOK ==
    /\ free_list_head_ \in 0 .. BlockCount
    /\ mutex_ \subseteq Threads
    /\ next = [x \in Pool!Blocks |-> next[x]]
    /\ pc \in [Threads -> {"idle", "load", "pop", "link", "push"}]
    /\ ptr \in [Threads -> 0 .. BlockCount]
    /\ inUse \subseteq Pool!Blocks
    /\ free \in Seq(Pool!Blocks)

Exclusive == \A u \in Threads : pc[u] # "idle" => mutex_ = {u}

Handled ==
    /\ \A u \in Threads : pc[u] = "pop" => free # <<>> /\ ptr[u] = free[1]
    /\ \A u \in Threads : pc[u] \in {"link", "push"} =>
         ptr[u] \in Pool!Blocks /\ ptr[u] \notin inUse /\ ~OnList(free, ptr[u])
    /\ \A u \in Threads : pc[u] = "push" => next[ptr[u]] = free_list_head_

PoolInv == PoolTypeOK /\ Exclusive /\ Handled /\ Distinct(free) /\ Pool!FreeListIntact

(* FreeListIntact by places of the list. *)
LEMMA IntactByPlaces ==
    Pool!FreeListIntact <=>
      /\ free_list_head_ = IF free = <<>> THEN 0 ELSE free[1]
      /\ \A x \in 1 .. Len(free) : next[free[x]] = IF x = Len(free) THEN 0 ELSE free[x + 1]
      /\ \A x \in 1 .. Len(free) : free[x] \notin inUse
BY DEF Pool!FreeListIntact, Pool!FreeSet, Pool!NoBlock

LEMMA InitPool == Pool!Init => PoolInv
<1> SUFFICES ASSUME Pool!Init PROVE PoolInv
  OBVIOUS
<1>1. /\ BlockCount \in Nat /\ Pool!Blocks = 1 .. BlockCount
      /\ free_list_head_ = BlockCount /\ mutex_ = {} /\ inUse = {}
      /\ next = [x \in 1 .. BlockCount |-> x - 1]
      /\ pc = [u \in Threads |-> "idle"] /\ ptr = [u \in Threads |-> 0]
  BY SerialAssumption
     DEF Pool!Init, Pool!Blocks, Pool!NoBlock, Pool!InitialHead, Pool!InitialLinks
<1>2. /\ free \in Seq(Pool!Blocks) /\ Len(free) = BlockCount
      /\ \A x \in 1 .. BlockCount : free[x] = BlockCount + 1 - x
  <2>1. free = [x \in 1 .. BlockCount |-> BlockCount + 1 - x]
    BY DEF Pool!Init, Pool!InitialList, Pool!Blocks
  <2>2. \A x \in 1 .. BlockCount : BlockCount + 1 - x \in 1 .. BlockCount
    BY <1>1
  <2>3. free \in [1 .. BlockCount -> 1 .. BlockCount]
    BY <2>1, <2>2
  <2>4. QED  BY <1>1, <2>1, <2>3
<1>3. PoolTypeOK
  <2>1. free_list_head_ \in 0 .. BlockCount  BY <1>1
  <2>2. ptr \in [Threads -> 0 .. BlockCount]  BY <1>1
  <2>3. QED  BY <1>1, <1>2, <2>1, <2>2 DEF PoolTypeOK
<1>4. Exclusive /\ Handled
  BY <1>1 DEF Exclusive, Handled
<1>5. Distinct(free)
  BY <1>1, <1>2 DEF Distinct
<1>6. Pool!FreeListIntact
  <2>1. free_list_head_ = IF free = <<>> THEN 0 ELSE free[1]
    <3>1. CASE BlockCount = 0
      <4>1. free = <<>>  BY <3>1, <1>2, EmptySeq
      <4>2. QED  BY <4>1, <3>1, <1>1
    <3>2. CASE BlockCount # 0
      <4>1. free # <<>> /\ 1 \in 1 .. BlockCount  BY <3>2, <1>1, <1>2
      <4>2. QED  BY <4>1, <1>1, <1>2
    <3>3. QED  BY <3>1, <3>2
  <2>2. ASSUME NEW x \in 1 .. BlockCount
        PROVE  next[free[x]] = IF x = BlockCount THEN 0 ELSE free[x + 1]
    <3>1. BlockCount + 1 - x \in 1 .. BlockCount /\ free[x] = BlockCount + 1 - x
      BY <1>1, <1>2
    <3>2. next[free[x]] = (BlockCount + 1 - x) - 1
      BY <3>1, <1>1
    <3>3. x # BlockCount => free[x + 1] = BlockCount + 1 - (x + 1)
      BY <1>1, <1>2
    <3>4. QED  BY <1>1, <3>2, <3>3
  <2>3. QED  BY <1>1, <1>2, <2>1, <2>2, IntactByPlaces
<1>7. QED  BY <1>3, <1>4, <1>5, <1>6 DEF PoolInv

(* Steps that leave the list alone: the mutex is taken or given up, a block *)
(* is looked at.                                                            *)
LEMMA EnterPool ==
    ASSUME PoolInv, NEW u \in Threads, Pool!AllocEnter(u) \/ Pool!AllocEmpty(u) \/ Pool!AllocLoad(u)
    PROVE  PoolInv'
<1> USE DEF Pool!AllocEnter, Pool!AllocEmpty, Pool!AllocLoad, Pool!Lock, Pool!Unlock, Pool!Goto
<1>1. UNCHANGED <<free_list_head_, next, inUse, free>>
  OBVIOUS
<1>2. PoolTypeOK'
  BY <1>1 DEF PoolInv, PoolTypeOK
<1>3. Exclusive'
  BY DEF PoolInv, PoolTypeOK, Exclusive
<1>4. Handled'
  <2>1. pc'[u] = "pop" => free # <<>> /\ ptr'[u] = free[1]
    BY IntactByPlaces DEF PoolInv, PoolTypeOK, Pool!NoBlock
  <2>2. pc'[u] \notin {"link", "push"}
    BY DEF PoolInv, PoolTypeOK
  <2>3. \A v \in Threads \ {u} : pc'[v] = pc[v] /\ ptr'[v] = ptr[v]
    BY DEF PoolInv, PoolTypeOK
  <2>4. QED  BY <1>1, <2>1, <2>2, <2>3 DEF PoolInv, Handled, OnList
<1>5. Distinct(free)' /\ Pool!FreeListIntact'
  BY <1>1 DEF PoolInv, Distinct, Pool!FreeListIntact, Pool!FreeSet
<1>6. QED  BY <1>2, <1>3, <1>4, <1>5 DEF PoolInv

(* The first block of the list becomes the caller's. *)
LEMMA PopPool == ASSUME PoolInv, NEW u \in Threads, Pool!AllocPop(u) PROVE PoolInv'
<1> USE DEF Pool!AllocPop, Pool!Unlock, Pool!Goto
<1> DEFINE n == Len(free)
<1>1. /\ free \in Seq(Pool!Blocks) /\ free # <<>> /\ Distinct(free)
      /\ ptr[u] = free[1] /\ free_list_head_ = free[1] /\ mutex_ = {u}
  BY IntactByPlaces DEF PoolInv, PoolTypeOK, Handled, Exclusive
<1>2. /\ n \in Nat \ {0} /\ free[1] \in Pool!Blocks
      /\ free' \in Seq(Pool!Blocks) /\ Len(free') = n - 1
      /\ \A x \in 1 .. n - 1 : free'[x] = free[x + 1]
  BY <1>1, Behind
<1>3. Distinct(free)' /\ \A c : OnList(free', c) <=> OnList(free, c) /\ c # free[1]
  <2>1. Distinct(free') /\ \A c : OnList(free', c) <=> OnList(free, c) /\ c # free[1]
    BY <1>1, BehindOthers
  <2>2. QED  BY <2>1 DEF Distinct
<1>4. \A x \in 1 .. n : next[free[x]] = IF x = n THEN 0 ELSE free[x + 1]
  BY IntactByPlaces DEF PoolInv
<1>5. free_list_head_' = IF n = 1 THEN 0 ELSE free[2]
  <2>1. 1 \in 1 .. n /\ (1 = n <=> n = 1) /\ 1 + 1 = 2  BY <1>2
  <2>2. next[free[1]] = IF 1 = n THEN 0 ELSE free[1 + 1]  BY <2>1, <1>4
  <2>3. free_list_head_' = next[free[1]]  BY <1>1
  <2>4. QED  BY <2>1, <2>2, <2>3
<1>6. \A v \in Threads : v # u => pc[v] = "idle"
  BY <1>1 DEF PoolInv, Exclusive
<1>7. \A v \in Threads : pc'[v] = "idle"
  BY <1>6 DEF PoolInv, PoolTypeOK
<1>8. PoolTypeOK'
  <2>1. free_list_head_' \in 0 .. BlockCount
    <3>1. n # 1 => free[2] \in Pool!Blocks
      BY <1>1, <1>2, ElementOfSeq
    <3>2. QED  BY <1>5, <3>1, SerialAssumption DEF Pool!Blocks
  <2>2. QED  BY <2>1, <1>1, <1>2 DEF PoolInv, PoolTypeOK
<1>9. Exclusive' /\ Handled'
  BY <1>7 DEF Exclusive, Handled
<1>10. Pool!FreeListIntact'
  <2>1. free_list_head_' = IF free' = <<>> THEN 0 ELSE free'[1]
    <3>1. CASE n = 1
      <4>1. free' = <<>>  BY <3>1, <1>2, EmptySeq
      <4>2. QED  BY <4>1, <3>1, <1>5
    <3>2. CASE n # 1
      <4> HIDE DEF n
      <4>1. 1 \in 1 .. n - 1 /\ Len(free') # 0  BY <3>2, <1>2
      <4>2. free' # <<>>  BY <4>1
      <4>3. QED  BY <4>1, <4>2, <3>2, <1>2, <1>5
    <3>3. QED  BY <3>1, <3>2
  <2>2. ASSUME NEW x \in 1 .. n - 1
        PROVE  next'[free'[x]] = IF x = n - 1 THEN 0 ELSE free'[x + 1]
    <3>1. n \in Nat
      BY <1>2
    <3>2. /\ x + 1 \in 1 .. n /\ (x + 1 = n <=> x = n - 1)
          /\ x # n - 1 => x + 1 \in 1 .. n - 1
      <4> HIDE DEF n
      <4>1. QED  BY <3>1
    <3>3. QED  BY <3>2, <1>2, <1>4, Zenon
  <2>3. ASSUME NEW x \in 1 .. n - 1 PROVE free'[x] \notin inUse'
    <3>1. OnList(free', free'[x])  BY <1>2 DEF OnList
    <3>2. free'[x] # free[1]  BY <3>1, <1>3
    <3>3. free'[x] \notin inUse
      <4>1. n \in Nat /\ free'[x] = free[x + 1]  BY <1>2
      <4>2. x + 1 \in 1 .. n
        <5> HIDE DEF n
        <5>1. QED  BY <4>1
      <4>3. QED  BY <4>1, <4>2, IntactByPlaces DEF PoolInv
    <3>4. QED  BY <3>2, <3>3, <1>1
  <2>4. /\ \A x \in 1 .. Len(free') : next'[free'[x]] = IF x = Len(free') THEN 0 ELSE free'[x + 1]
        /\ \A x \in 1 .. Len(free') : free'[x] \notin inUse'
    BY <1>2, <2>2, <2>3, Zenon
  <2>5. QED
    BY <2>1, <2>4 DEF Pool!FreeListIntact, Pool!FreeSet, Pool!NoBlock
<1>11. QED  BY <1>3, <1>8, <1>9, <1>10 DEF PoolInv

(* A block that is given back is in nobody's use and not on the list yet.   *)
LEMMA GivePool ==
    ASSUME PoolInv, NEW u \in Threads, NEW p \in Pool!Blocks, Pool!FreeEnter(u, p) PROVE PoolInv'
<1> USE DEF Pool!FreeEnter, Pool!Lock, Pool!Goto
<1>1. UNCHANGED <<free_list_head_, next, free>> /\ inUse' = inUse \ {p} /\ p \in inUse
  OBVIOUS
<1>2. ~OnList(free, p)
  BY <1>1, IntactByPlaces DEF PoolInv, OnList
<1>3. PoolTypeOK'
  BY DEF PoolInv, PoolTypeOK, Pool!Blocks
<1>4. Exclusive'
  BY DEF PoolInv, PoolTypeOK, Exclusive
<1>5. Handled'
  <2>1. pc'[u] = "link" /\ ptr'[u] = p
    BY DEF PoolInv, PoolTypeOK
  <2>2. \A v \in Threads \ {u} : pc'[v] = "idle"
    BY DEF PoolInv, PoolTypeOK, Exclusive
  <2>3. QED  BY <1>1, <1>2, <2>1, <2>2 DEF Handled, OnList
<1>6. Distinct(free)' /\ Pool!FreeListIntact'
  BY <1>1 DEF PoolInv, Distinct, Pool!FreeListIntact, Pool!FreeSet
<1>7. QED  BY <1>3, <1>4, <1>5, <1>6 DEF PoolInv

LEMMA LinkPool == ASSUME PoolInv, NEW u \in Threads, Pool!FreeLink(u) PROVE PoolInv'
<1> USE DEF Pool!FreeLink, Pool!Goto
<1>1. /\ UNCHANGED <<free_list_head_, mutex_, ptr, inUse, free>>
      /\ ptr[u] \in Pool!Blocks /\ ptr[u] \notin inUse /\ ~OnList(free, ptr[u])
  BY DEF PoolInv, Handled
<1>2. PoolTypeOK'
  BY DEF PoolInv, PoolTypeOK
<1>3. /\ next'[ptr[u]] = free_list_head_
      /\ \A p \in Pool!Blocks : p # ptr[u] => next'[p] = next[p]
  BY <1>1 DEF PoolInv, PoolTypeOK
<1>4. Exclusive'
  BY DEF PoolInv, PoolTypeOK, Exclusive
<1>5. Handled'
  <2>1. pc'[u] = "push"
    BY DEF PoolInv, PoolTypeOK
  <2>2. \A v \in Threads \ {u} : pc'[v] = "idle"
    BY DEF PoolInv, PoolTypeOK, Exclusive
  <2>3. QED  BY <1>1, <1>3, <2>1, <2>2 DEF Handled, OnList
<1>6. Pool!FreeListIntact'
  <2>1. \A x \in 1 .. Len(free) : free[x] \in Pool!Blocks /\ free[x] # ptr[u]
    BY <1>1, ElementOfSeq DEF PoolInv, PoolTypeOK, OnList
  <2>2. \A x \in 1 .. Len(free) : next'[free[x]] = next[free[x]]
    BY <2>1, <1>3
  <2>3. QED  BY <1>1, <2>2 DEF PoolInv, Pool!FreeListIntact, Pool!FreeSet
<1>7. Distinct(free)'
  BY <1>1 DEF PoolInv, Distinct
<1>8. QED  BY <1>2, <1>4, <1>5, <1>6, <1>7 DEF PoolInv

(* The block is the first of the list. *)
LEMMA PushPool == ASSUME PoolInv, NEW u \in Threads, Pool!FreePush(u) PROVE PoolInv'
<1> USE DEF Pool!FreePush, Pool!Unlock, Pool!Goto
<1> DEFINE n == Len(free)
           p == ptr[u]
<1>1. /\ free \in Seq(Pool!Blocks) /\ Distinct(free) /\ mutex_ = {u}
      /\ p \in Pool!Blocks /\ p \notin inUse /\ ~OnList(free, p) /\ next[p] = free_list_head_
      /\ free_list_head_' = p /\ free' = <<p>> \o free
      /\ UNCHANGED <<next, ptr, inUse>>
  BY DEF PoolInv, PoolTypeOK, Handled, Exclusive
<1> HIDE DEF p
<1>2. /\ n \in Nat /\ free' \in Seq(Pool!Blocks) /\ Len(free') = n + 1 /\ free'[1] = p
      /\ \A x \in 1 .. n : free'[x + 1] = free[x]
  BY <1>1, InFront
<1>3. Distinct(free)'
  <2>1. Distinct(free')  BY <1>1, InFrontOfOthers
  <2>2. QED  BY <2>1 DEF Distinct
<1>4. \A v \in Threads : pc'[v] = "idle"
  BY <1>1 DEF PoolInv, PoolTypeOK, Exclusive
<1>5. Exclusive' /\ Handled'
  BY <1>4 DEF Exclusive, Handled
<1>6. PoolTypeOK'
  BY <1>1, <1>2 DEF PoolInv, PoolTypeOK, Pool!Blocks
<1>7. Pool!FreeListIntact'
  <2>1. free' # <<>>
    BY <1>2
  <2>2. free_list_head_ = IF n = 0 THEN 0 ELSE free[1]
    <3>1. n = 0 <=> free = <<>>  BY <1>1, <1>2, EmptySeq
    <3>2. QED  BY <3>1, IntactByPlaces DEF PoolInv
  <2>3. next'[free'[1]] = IF 1 = n + 1 THEN 0 ELSE free'[1 + 1]
    <3>1. CASE n = 0
      BY <3>1, <2>2, <1>1, <1>2
    <3>2. CASE n # 0
      <4>1. 1 \in 1 .. n /\ 1 # n + 1  BY <3>2, <1>2
      <4>2. QED  BY <4>1, <3>2, <2>2, <1>1, <1>2
    <3>3. QED  BY <3>1, <3>2
  <2>4. ASSUME NEW x \in 1 .. n
        PROVE  /\ next'[free'[x + 1]] = IF x + 1 = n + 1 THEN 0 ELSE free'[x + 1 + 1]
               /\ free'[x + 1] \notin inUse'
    <3>1. x # n => x + 1 \in 1 .. n  BY <1>2
    <3>2. next[free[x]] = (IF x = n THEN 0 ELSE free[x + 1]) /\ free[x] \notin inUse
      BY IntactByPlaces DEF PoolInv
    <3>3. x + 1 = n + 1 <=> x = n  BY <1>2
    <3>4. QED  BY <3>1, <3>2, <3>3, <1>1, <1>2
  <2>5. ASSUME NEW x \in 1 .. n + 1
        PROVE  /\ next'[free'[x]] = IF x = n + 1 THEN 0 ELSE free'[x + 1]
               /\ free'[x] \notin inUse'
    <3>1. CASE x = 1
      BY <3>1, <2>3, <1>1, <1>2
    <3>2. CASE x # 1
      <4>1. PICK y \in 1 .. n : x = y + 1
        <5>1. x - 1 \in 1 .. n /\ x = (x - 1) + 1  BY <3>2, <1>2
        <5>2. QED  BY <5>1
      <4>2. QED  BY <4>1, <2>4
    <3>3. QED  BY <3>1, <3>2
  <2>6. QED
    BY <1>1, <1>2, <2>1, <2>5 DEF Pool!FreeListIntact, Pool!FreeSet, Pool!NoBlock
<1>8. QED  BY <1>3, <1>5, <1>6, <1>7 DEF PoolInv

(* A user writes into its own block, which is not on the list.              *)
LEMMA WritePool ==
    ASSUME PoolInv, NEW p \in Pool!Blocks, Pool!UserWrites(p) PROVE PoolInv'
<1> USE DEF Pool!UserWrites
<1>1. UNCHANGED <<free_list_head_, mutex_, pc, ptr, inUse, free>> /\ p \in inUse
  OBVIOUS
<1>2. PoolTypeOK'
  BY DEF PoolInv, PoolTypeOK
<1>3. \A q \in Pool!Blocks : q # p => next'[q] = next[q]
  BY DEF PoolInv, PoolTypeOK
<1>4. Exclusive'
  BY <1>1 DEF PoolInv, Exclusive
<1>5. Handled'
  BY <1>1, <1>3 DEF PoolInv, Handled, OnList
<1>6. Pool!FreeListIntact'
  <2>1. \A x \in 1 .. Len(free) : free[x] \in Pool!Blocks /\ free[x] # p
    BY <1>1, IntactByPlaces, ElementOfSeq DEF PoolInv, PoolTypeOK
  <2>2. \A x \in 1 .. Len(free) : next'[free[x]] = next[free[x]]
    BY <2>1, <1>3
  <2>3. QED  BY <1>1, <2>2 DEF PoolInv, Pool!FreeListIntact, Pool!FreeSet
<1>7. Distinct(free)'
  BY <1>1 DEF PoolInv, Distinct
<1>8. QED  BY <1>2, <1>4, <1>5, <1>6, <1>7 DEF PoolInv

LEMMA NextPool == ASSUME PoolInv, [Next]_vars PROVE PoolInv'
<1>1. CASE Pool!Next
  BY <1>1, EnterPool, PopPool, GivePool, LinkPool, PushPool, WritePool DEF Pool!Next
<1>2. CASE UNCHANGED poolVars
  BY <1>2 DEF poolVars, PoolInv, PoolTypeOK, Exclusive, Handled, Distinct, OnList,
              Pool!FreeListIntact, Pool!FreeSet
<1>3. QED  BY <1>1, <1>2 DEF Next, vars

(* The mutex pool, and the pool of one thread: whatever users write into    *)
(* their blocks, for any number of threads and blocks, the linked list is   *)
(* that of the free blocks at every moment, and no block in use is on it.   *)
THEOREM PoolListStaysIntact == Spec => []MutexPoolIntact
<1>1. Init => PoolInv
  BY InitPool DEF Init
<1>2. PoolInv /\ [Next]_vars => PoolInv'
  BY NextPool
<1>3. PoolInv => MutexPoolIntact
  BY DEF PoolInv, MutexPoolIntact
<1>4. QED  BY <1>1, <1>2, <1>3, PTL DEF Spec

----------------------------------------------------------------------------
(* LRUCache: the list has the keys of the front of the history, with the    *)
(* map holding exactly these.                                               *)
LRUEntry == [key : Key, value : Value]

LRUInv ==
    /\ list_ \in Seq(LRUEntry)
    /\ lruRecent \in Seq(Key) /\ Distinct(lruRecent)
    /\ LRU!HoldsTheMostRecent
    /\ map_ = {lruRecent[x] : x \in 1 .. Len(list_)}

(* The list by its places, and how many keys the map has. *)
LEMMA LRUByPlaces ==
    ASSUME LRUInv
    PROVE  /\ Len(list_) \in Nat /\ Len(lruRecent) \in Nat
           /\ Len(list_) <= capacity_ /\ Len(list_) <= Len(lruRecent)
           /\ Len(list_) < capacity_ => Len(lruRecent) = Len(list_)
           /\ \A x \in 1 .. Len(list_) : list_[x] \in LRUEntry /\ list_[x].key = lruRecent[x]
           /\ \A x, y \in 1 .. Len(list_) : lruRecent[x] = lruRecent[y] => x = y
           /\ IsFiniteSet(map_) /\ Cardinality(map_) = Len(list_)
<1> DEFINE m == Len(list_)
           n == Len(lruRecent)
<1>1. m \in Nat /\ n \in Nat /\ \A x \in 1 .. m : list_[x] \in LRUEntry
  BY LenProperties, ElementOfSeq DEF LRUInv
<1>2. m = (IF n <= capacity_ THEN n ELSE capacity_) /\ \A x \in 1 .. m : list_[x].key = lruRecent[x]
  BY DEF LRUInv, LRU!HoldsTheMostRecent
<1>3. \A x, y \in 1 .. n : lruRecent[x] = lruRecent[y] => x = y
  BY DEF LRUInv, Distinct
<1>4. map_ = {lruRecent[x] : x \in 1 .. m}
  BY DEF LRUInv
<1> HIDE DEF m, n
<1>5. m <= capacity_ /\ m <= n /\ (m < capacity_ => n = m)
  BY <1>1, <1>2, CapacityAssumption
<1>6. \A x, y \in 1 .. m : lruRecent[x] = lruRecent[y] => x = y
  <2>1. 1 .. m \subseteq 1 .. n  BY <1>1, <1>5
  <2>2. QED  BY <2>1, <1>3
<1>7. IsFiniteSet(map_) /\ Cardinality(map_) = m
  <2> DEFINE place == [x \in 1 .. m |-> lruRecent[x]]
  <2>1. place \in Bijection(1 .. m, map_)
    BY <1>4, <1>6 DEF Bijection, Injection, Surjection, IsInjective
  <2>2. IsFiniteSet(1 .. m) /\ Cardinality(1 .. m) = m
    <3>1. 1 \in Int /\ m \in Int  BY <1>1
    <3>2. QED  BY <3>1, <1>1, FS_Interval
  <2>3. ExistsBijection(1 .. m, map_)
    BY <2>1 DEF ExistsBijection
  <2>4. QED  BY <2>2, <2>3, FS_Bijection
<1>8. QED  BY <1>1, <1>2, <1>5, <1>6, <1>7 DEF m, n

(* What NodeOf() chooses. *)
LEMMA NodeAt ==
    ASSUME NEW s, \A x, y \in 1 .. Len(s) : s[x].key = s[y].key => x = y, NEW n \in 1 .. Len(s)
    PROVE  (CHOOSE x \in 1 .. Len(s) : s[x].key = s[n].key) = n
  OBVIOUS

LEMMA InitLRU == LRU!Init => LRUInv
<1> SUFFICES ASSUME LRU!Init PROVE LRUInv
  OBVIOUS
<1>1. list_ = <<>> /\ map_ = {} /\ lruRecent = <<>> /\ Len(list_) = 0 /\ Len(lruRecent) = 0
  BY DEF LRU!Init
<1>2. list_ \in Seq(LRUEntry) /\ lruRecent \in Seq(Key)
  BY <1>1
<1>3. 1 .. Len(list_) = {} /\ 1 .. Len(lruRecent) = {}
  BY <1>1
<1>4. LRU!HoldsTheMostRecent
  BY <1>1, <1>3, CapacityAssumption DEF LRU!HoldsTheMostRecent
<1>5. QED  BY <1>1, <1>2, <1>3, <1>4 DEF LRUInv, Distinct

LEMMA SameElements ==
    ASSUME NEW s, NEW t, NEW I, \A x \in I : \E y \in I : t[x] = s[y],
           \A y \in I : \E x \in I : t[x] = s[y]
    PROVE  {t[x] : x \in I} = {s[x] : x \in I}
  OBVIOUS

(* A key the cache holds moves to the front of the list and of the history, *)
(* from the same place in both.                                             *)
LEMMA HitMoves ==
    ASSUME LRUInv, NEW k \in map_, NEW v
    PROVE  \E n \in 1 .. Len(list_) :
             /\ LRU!NodeOf(k) = n /\ list_[n].key = k /\ lruRecent[n] = k /\ k \in Key
             /\ LRU!Others(k) = RemoveAt(list_, n)
             /\ RemoveFirst(lruRecent, k) = RemoveAt(lruRecent, n)
             /\ n \in 1 .. Len(lruRecent)
<1>1. PICK n \in 1 .. Len(list_) : lruRecent[n] = k
  BY DEF LRUInv
<1>2. list_[n].key = k /\ k \in Key /\ \A x, y \in 1 .. Len(list_) : list_[x].key = list_[y].key => x = y
  BY <1>1, LRUByPlaces DEF LRUEntry
<1>3. LRU!NodeOf(k) = n
  BY <1>2, NodeAt DEF LRU!NodeOf
<1>4. n \in 1 .. Len(lruRecent)
  BY LRUByPlaces
<1>5. RemoveFirst(lruRecent, k) = RemoveAt(lruRecent, n)
  BY <1>1, <1>4, FirstIsOnly DEF LRUInv
<1>6. LRU!Others(k) = RemoveAt(list_, n)
  BY <1>3 DEF LRU!Others, LRU!RemoveAt, RemoveAt
<1>7. QED
  <2>1. WITNESS n \in 1 .. Len(list_)
  <2>2. QED  BY <1>1, <1>2, <1>3, <1>4, <1>5, <1>6

LEMMA Hit ==
    ASSUME LRUInv, NEW k \in map_, NEW v \in Value, UNCHANGED map_,
           list_' = LRU!Entry(k, v) \o LRU!Others(k),
           lruRecent' = <<k>> \o RemoveFirst(lruRecent, k)
    PROVE  /\ LRUInv'
           /\ Len(list_') = Len(list_) /\ Len(list_) \in Nat
           /\ \E n \in 1 .. Len(list_) :
                /\ lruRecent[n] = k /\ LRU!NodeOf(k) = n
                /\ \A x \in 1 .. Len(list_) :
                     /\ From(n, x) \in 1 .. Len(list_) /\ lruRecent'[x] = lruRecent[From(n, x)]
                     /\ list_'[x].value = IF x = 1 THEN v ELSE list_[From(n, x)].value
<1> DEFINE m == Len(list_)
           p == Len(lruRecent)
           e == [key |-> k, value |-> v]
<1>1. PICK n \in 1 .. m :
        /\ LRU!NodeOf(k) = n /\ list_[n].key = k /\ lruRecent[n] = k /\ k \in Key
        /\ LRU!Others(k) = RemoveAt(list_, n)
        /\ RemoveFirst(lruRecent, k) = RemoveAt(lruRecent, n)
        /\ n \in 1 .. p
  BY HitMoves
<1>2. /\ m \in Nat /\ p \in Nat /\ m <= capacity_ /\ m <= p /\ (m < capacity_ => p = m)
      /\ \A x \in 1 .. m : list_[x] \in LRUEntry /\ list_[x].key = lruRecent[x]
  BY LRUByPlaces
<1>3. e \in LRUEntry /\ e.key = k /\ e.value = v
  BY <1>1 DEF LRUEntry
<1>4. list_ \in Seq(LRUEntry) /\ lruRecent \in Seq(Key) /\ Distinct(lruRecent)
      /\ map_ = {lruRecent[x] : x \in 1 .. m}
  BY DEF LRUInv
<1>5. list_' = <<e>> \o RemoveAt(list_, n) /\ lruRecent' = <<lruRecent[n]>> \o RemoveAt(lruRecent, n)
  BY <1>1 DEF LRU!Entry
<1> HIDE DEF e
<1>6. /\ list_' \in Seq(LRUEntry) /\ Len(list_') = m
      /\ \A x \in 1 .. m : list_'[x] = IF x = 1 THEN e ELSE list_[From(n, x)]
  <2> DEFINE t == <<e>> \o RemoveAt(list_, n)
  <2>1. /\ t \in Seq(LRUEntry) /\ Len(t) = m
        /\ \A x \in 1 .. m : t[x] = IF x = 1 THEN e ELSE list_[From(n, x)]
    BY <1>3, <1>4, Spliced
  <2>2. list_' = t
    BY <1>5
  <2> HIDE DEF t, m
  <2>3. QED  BY <2>1, <2>2
<1>7. /\ lruRecent' \in Seq(Key) /\ Len(lruRecent') = p
  BY <1>1, <1>4, <1>5, Spliced
<1>8. Distinct(lruRecent') /\ \A x \in 1 .. p : lruRecent'[x] = lruRecent[From(n, x)]
  BY <1>1, <1>4, <1>5, SplicedKeeps
<1> HIDE DEF m, p
<1>9. /\ \A x \in 1 .. m : From(n, x) \in 1 .. m
      /\ \A y \in 1 .. m : \E x \in 1 .. m : From(n, x) = y
  <2>1. m \in Nat /\ n \in 1 .. m  BY <1>2
  <2>2. QED  BY <2>1, FromPermutes
<1>10. 1 .. m \subseteq 1 .. p
  BY <1>2
<1>11. \A x \in 1 .. m : lruRecent'[x] = lruRecent[From(n, x)]
  BY <1>8, <1>10
<1>12. \A x \in 1 .. m : list_'[x].key = lruRecent'[x]
  <2>1. SUFFICES ASSUME NEW x \in 1 .. m PROVE list_'[x].key = lruRecent'[x]
    OBVIOUS
  <2>2. CASE x = 1
    <3>1. From(n, x) = n  BY <2>2 DEF From
    <3>2. QED  BY <3>1, <2>2, <1>1, <1>3, <1>6, <1>11
  <2>3. CASE x # 1
    <3>1. list_'[x] = list_[From(n, x)] /\ From(n, x) \in 1 .. m
      BY <2>3, <1>6, <1>9
    <3>2. list_[From(n, x)].key = lruRecent[From(n, x)]
      BY <3>1, <1>2
    <3>3. QED  BY <3>1, <3>2, <1>11
  <2>4. QED  BY <2>2, <2>3
<1>13. map_' = {lruRecent'[x] : x \in 1 .. m}
  <2>1. {lruRecent'[x] : x \in 1 .. m} = {lruRecent[x] : x \in 1 .. m}
    <3>1. \A x \in 1 .. m : \E y \in 1 .. m : lruRecent'[x] = lruRecent[y]
      BY <1>9, <1>11
    <3>2. \A y \in 1 .. m : \E x \in 1 .. m : lruRecent'[x] = lruRecent[y]
      BY <1>9, <1>11
    <3> DEFINE t == lruRecent'
               I == 1 .. m
    <3> HIDE DEF t, I
    <3>3. /\ \A x \in I : \E y \in I : t[x] = lruRecent[y]
          /\ \A y \in I : \E x \in I : t[x] = lruRecent[y]
      BY <3>1, <3>2 DEF t, I
    <3> DEFINE s == lruRecent
    <3> HIDE DEF s
    <3>4. {t[x] : x \in I} = {s[x] : x \in I}
      <4>1. /\ \A x \in I : \E y \in I : t[x] = s[y]
            /\ \A y \in I : \E x \in I : t[x] = s[y]
        BY <3>3 DEF s
      <4>2. QED  BY ONLY <4>1
    <3>5. QED  BY <3>4 DEF s, t, I
  <2>2. QED  BY <2>1, <1>4
<1>14. LRU!HoldsTheMostRecent'
  BY <1>2, <1>6, <1>7, <1>12, CapacityAssumption DEF LRU!HoldsTheMostRecent, LRUInv, m, p
<1>15. LRUInv'
  BY <1>6, <1>7, <1>8, <1>13, <1>14 DEF LRUInv
<1>16. QED  BY <1>1, <1>2, <1>3, <1>6, <1>9, <1>11, <1>15 DEF m

(* RemoveFirst as the caches see it. *)
LEMMA CachesRemoveFirst ==
    ASSUME NEW s, NEW e
    PROVE  LRU!RemoveFirst(s, e) = RemoveFirst(s, e) /\ LFU!RemoveFirst(s, e) = RemoveFirst(s, e)
BY DEF LRU!RemoveFirst, LFU!RemoveFirst, RemoveFirst, LRU!SelectInSeq, LFU!SelectInSeq,
       SelectInSeq, LRU!RemoveAt, LFU!RemoveAt, RemoveAt, LRU!Min, LFU!Min, Min

(* The history with a key in front that is not among its first m. *)
LEMMA NewInFront ==
    ASSUME NEW s \in Seq(Key), Distinct(s), NEW k \in Key, NEW m \in Nat, m <= Len(s),
           \A x \in 1 .. m : s[x] # k
    PROVE  LET t == <<k>> \o RemoveFirst(s, k) IN
           /\ t \in Seq(Key) /\ Distinct(t) /\ t[1] = k
           /\ \A x \in 1 .. m : t[x + 1] = s[x]
           /\ Len(s) \in Nat
           /\ \/ Len(t) = Len(s) /\ m < Len(s)
              \/ Len(t) = Len(s) + 1
<1> DEFINE p == Len(s)
           t == <<k>> \o RemoveFirst(s, k)
<1>1. CASE OnList(s, k)
  <2>1. PICK n \in 1 .. p : s[n] = k
    BY <1>1 DEF OnList
  <2>2. RemoveFirst(s, k) = RemoveAt(s, n)
    BY <2>1, FirstIsOnly
  <2>3. t \in Seq(Key) /\ Len(t) = p /\ p \in Nat
    <3>1. p \in Nat  BY LenProperties
    <3>2. t = <<s[n]>> \o RemoveAt(s, n)  BY <2>1, <2>2
    <3> HIDE DEF t
    <3>3. t \in Seq(Key)  BY <3>2, SplicedKeeps
    <3>4. Len(t) = p  BY <3>2, SplicedKeeps
    <3>5. QED  BY <3>1, <3>3, <3>4
  <2>4. Distinct(t) /\ \A x \in 1 .. p : t[x] = s[From(n, x)]
    BY <2>1, <2>2, SplicedKeeps
  <2> HIDE DEF t, p
  <2>5. m < n /\ m < p
    <3>1. ~(n \in 1 .. m)  BY <2>1
    <3>2. QED  BY <3>1, <2>3
  <2>6. t[1] = k
    <3>1. 1 \in 1 .. p /\ From(n, 1) = n  BY <2>3, <2>5 DEF From
    <3>2. QED  BY <3>1, <2>1, <2>4
  <2>7. ASSUME NEW x \in 1 .. m PROVE t[x + 1] = s[x]
    <3>1. x + 1 \in 1 .. p /\ From(n, x + 1) = x  BY <2>3, <2>5 DEF From
    <3>2. QED  BY <3>1, <2>4
  <2>8. QED  BY <2>3, <2>4, <2>5, <2>6, <2>7 DEF t, p
<1>2. CASE ~OnList(s, k)
  <2>1. RemoveFirst(s, k) = s
    BY <1>2 DEF RemoveFirst, OnList
  <2>2. /\ p \in Nat /\ t \in Seq(Key) /\ Len(t) = p + 1 /\ t[1] = k
        /\ \A x \in 1 .. p : t[x + 1] = s[x]
    BY <2>1, InFront
  <2>3. Distinct(t)
    BY <1>2, <2>1, InFrontOfOthers
  <2>4. 1 .. m \subseteq 1 .. p
    BY <2>2
  <2>5. QED  BY <2>2, <2>3, <2>4
<1>3. QED  BY <1>1, <1>2

(* A new key drives the last out of a full cache, and is in front of the    *)
(* others.                                                                  *)
LEMMA PutNewLRU ==
    ASSUME LRUInv, NEW k \in Key, NEW v \in Value, LRU!PutNew(k, v)
    PROVE  /\ LRUInv'
           /\ \E m \in Nat :
                /\ IF Cardinality(map_) = capacity_
                   THEN /\ Len(list_) = m + 1 /\ Len(list_') = m + 1
                        /\ Last(list_).key = lruRecent[m + 1]
                   ELSE Len(list_) = m /\ Len(list_') = m + 1
                /\ lruRecent'[1] = k /\ list_'[1].value = v
                /\ \A x \in 1 .. m : /\ lruRecent'[x + 1] = lruRecent[x]
                                     /\ list_'[x + 1].value = list_[x].value
<1> DEFINE n == Len(list_)
           p == Len(lruRecent)
           e == [key |-> k, value |-> v]
           full == Cardinality(map_) = capacity_
           m == IF full THEN n - 1 ELSE n
           s == IF full THEN Front(list_) ELSE list_
<1>1. /\ n \in Nat /\ p \in Nat /\ n <= capacity_ /\ n <= p /\ (n < capacity_ => p = n)
      /\ \A x \in 1 .. n : list_[x] \in LRUEntry /\ list_[x].key = lruRecent[x]
      /\ \A x, y \in 1 .. n : lruRecent[x] = lruRecent[y] => x = y
      /\ full <=> n = capacity_
  BY LRUByPlaces
<1>2. /\ list_ \in Seq(LRUEntry) /\ lruRecent \in Seq(Key) /\ Distinct(lruRecent)
      /\ map_ = {lruRecent[x] : x \in 1 .. n}
  BY DEF LRUInv
<1>3. /\ k \notin map_ /\ list_' = <<e>> \o s
      /\ map_' = (IF full THEN map_ \ {Last(list_).key} ELSE map_) \cup {k}
      /\ lruRecent' = <<k>> \o RemoveFirst(lruRecent, k)
  <2>1. /\ LRU!RemoveFirst(lruRecent, k) = RemoveFirst(lruRecent, k)
        /\ LRU!Cardinality(map_) = Cardinality(map_)
        /\ LRU!Front(list_) = Front(list_) /\ LRU!Last(list_) = Last(list_)
    BY CachesRemoveFirst
       DEF LRU!Cardinality, Cardinality, LRU!Front, Front, LRU!Last, Last
  <2>2. QED  BY <2>1 DEF LRU!PutNew, LRU!Entry, LRU!Used
<1>4. e \in LRUEntry /\ e.key = k /\ e.value = v
  BY DEF LRUEntry
<1> HIDE DEF e
<1>5. \A x \in 1 .. n : lruRecent[x] # k
  BY <1>2, <1>3
<1>6. m \in Nat /\ m <= n /\ m <= p /\ (full => n = m + 1) /\ (~full => n = m)
  BY <1>1, CapacityAssumption
<1>7. s \in Seq(LRUEntry) /\ Len(s) = m /\ \A x \in 1 .. m : s[x] = list_[x]
  <2>1. CASE ~full
    BY <2>1, <1>2
  <2>2. CASE full
    <3>1. list_ # <<>>
      BY <2>2, <1>1, CapacityAssumption
    <3>2. /\ Front(list_) \in Seq(LRUEntry) /\ Len(Front(list_)) = n - 1
          /\ \A x \in 1 .. n - 1 : Front(list_)[x] = list_[x]
      BY <3>1, <1>2, WithoutLast
    <3>3. QED  BY <2>2, <3>2
  <2>3. QED  BY <2>1, <2>2
<1> HIDE DEF s
<1>8. /\ list_' \in Seq(LRUEntry) /\ Len(list_') = m + 1 /\ list_'[1] = e
      /\ \A x \in 1 .. m : list_'[x + 1] = list_[x]
  BY <1>3, <1>4, <1>7, InFront
<1>9. /\ lruRecent' \in Seq(Key) /\ Distinct(lruRecent') /\ lruRecent'[1] = k
      /\ \A x \in 1 .. n : lruRecent'[x + 1] = lruRecent[x]
      /\ \/ Len(lruRecent') = p /\ n < p
         \/ Len(lruRecent') = p + 1
  <2> DEFINE t == <<k>> \o RemoveFirst(lruRecent, k)
  <2>1. n \in Nat /\ n <= p /\ lruRecent \in Seq(Key) /\ Distinct(lruRecent)
    BY <1>1, <1>2
  <2> HIDE DEF n
  <2>2. /\ t \in Seq(Key) /\ Distinct(t) /\ t[1] = k
        /\ \A x \in 1 .. n : t[x + 1] = lruRecent[x]
        /\ \/ Len(t) = p /\ n < p
           \/ Len(t) = p + 1
    BY <2>1, <1>5, NewInFront
  <2>3. lruRecent' = t
    BY <1>3
  <2> HIDE DEF t
  <2>4. QED  BY <2>2, <2>3
<1>10. full => Last(list_).key = lruRecent[m + 1]
  <2>1. SUFFICES ASSUME full PROVE list_[n].key = lruRecent[n]
    BY <1>6 DEF Last
  <2>2. n \in 1 .. n  BY <1>1, <2>1, CapacityAssumption
  <2>3. QED  BY <2>2, <1>1
<1> HIDE DEF m, n, p, full
<1>11. \A x \in 1 .. m : x \in 1 .. n
  BY <1>1, <1>6
<1>12. \A x \in 1 .. m + 1 : x = 1 \/ \E y \in 1 .. m : x = y + 1
  <2>1. SUFFICES ASSUME NEW x \in 1 .. m + 1, x # 1 PROVE \E y \in 1 .. m : x = y + 1
    OBVIOUS
  <2>2. x - 1 \in 1 .. m /\ x = (x - 1) + 1  BY <1>6, <2>1
  <2>3. QED  BY <2>2
<1>13. \A x \in 1 .. m + 1 : list_'[x].key = lruRecent'[x]
  <2>1. SUFFICES ASSUME NEW x \in 1 .. m + 1 PROVE list_'[x].key = lruRecent'[x]
    OBVIOUS
  <2>2. CASE x = 1
    BY <2>2, <1>4, <1>8, <1>9
  <2>3. CASE x # 1
    <3>1. PICK y \in 1 .. m : x = y + 1  BY <2>3, <1>12
    <3>2. list_'[x] = list_[y] /\ lruRecent'[x] = lruRecent[y] /\ list_[y].key = lruRecent[y]
      BY <3>1, <1>1, <1>8, <1>9, <1>11
    <3>3. QED  BY <3>2
  <2>4. QED  BY <2>2, <2>3
<1>14. map_' = {lruRecent'[x] : x \in 1 .. m + 1}
  <2> DEFINE old == {lruRecent[x] : x \in 1 .. m}
  <2>1. (IF full THEN map_ \ {Last(list_).key} ELSE map_) = old
    <3>1. CASE ~full
      BY <3>1, <1>2, <1>6
    <3>2. CASE full
      <4>1. n = m + 1 /\ n \in 1 .. n /\ map_ = {lruRecent[x] : x \in 1 .. n}
            /\ Last(list_).key = lruRecent[n]
        BY <3>2, <1>1, <1>2, <1>6, <1>10
      <4>2. \A x \in 1 .. n : x \in 1 .. m \/ x = n
        BY <4>1, <1>6
      <4>3. \A x \in 1 .. m : x \in 1 .. n /\ lruRecent[x] # lruRecent[n]
        <5>1. \A x \in 1 .. m : x # n  BY <4>1, <1>6
        <5>2. QED  BY <5>1, <4>1, <1>1, <1>11
      <4>4. map_ \ {lruRecent[n]} = old
        BY <4>1, <4>2, <4>3
      <4>5. QED  BY <3>2, <4>1, <4>4
    <3>3. QED  BY <3>1, <3>2
  <2>2. 1 \in 1 .. m + 1 /\ \A x \in 1 .. m : x + 1 \in 1 .. m + 1
    BY <1>6
  <2>3. \A c : c \in {lruRecent'[x] : x \in 1 .. m + 1} <=> c \in old \/ c = k
    BY <2>2, <1>9, <1>11, <1>12
  <2>4. QED  BY <2>1, <2>3, <1>3
<1>15. LRU!HoldsTheMostRecent'
  <2>1. m + 1 = IF Len(lruRecent') <= capacity_ THEN Len(lruRecent') ELSE capacity_
    BY <1>1, <1>6, <1>9, CapacityAssumption
  <2>2. QED  BY <2>1, <1>8, <1>13 DEF LRU!HoldsTheMostRecent
<1>16. LRUInv'
  BY <1>8, <1>9, <1>14, <1>15 DEF LRUInv
<1>17. QED
  <2>1. /\ IF full THEN /\ n = m + 1 /\ Len(list_') = m + 1
                        /\ Last(list_).key = lruRecent[m + 1]
                   ELSE n = m /\ Len(list_') = m + 1
        /\ lruRecent'[1] = k /\ list_'[1].value = v
        /\ \A x \in 1 .. m : /\ lruRecent'[x + 1] = lruRecent[x]
                             /\ list_'[x + 1].value = list_[x].value
    BY <1>4, <1>6, <1>8, <1>9, <1>10, <1>11
  <2>2. QED  BY <2>1, <1>6, <1>16 DEF n, full

LEMMA GetLRU ==
    ASSUME LRUInv, NEW k \in Key, LRU!Get(k)
    PROVE  /\ k \in map_ /\ UNCHANGED map_
           /\ \E v \in Value : /\ v = list_[LRU!NodeOf(k)].value
                               /\ list_' = LRU!Entry(k, v) \o LRU!Others(k)
           /\ lruRecent' = <<k>> \o RemoveFirst(lruRecent, k)
<1>1. k \in map_ /\ UNCHANGED map_ /\ lruRecent' = <<k>> \o RemoveFirst(lruRecent, k)
  BY CachesRemoveFirst DEF LRU!Get, LRU!Used
<1>2. LRU!NodeOf(k) \in 1 .. Len(list_)
  BY <1>1, HitMoves
<1>3. list_[LRU!NodeOf(k)].value \in Value
  BY <1>2, LRUByPlaces DEF LRUEntry
<1>4. QED  BY <1>1, <1>3 DEF LRU!Get

LEMMA PutHeldLRU ==
    ASSUME LRUInv, NEW k \in Key, NEW v \in Value, LRU!PutHeld(k, v)
    PROVE  /\ k \in map_ /\ UNCHANGED map_
           /\ list_' = LRU!Entry(k, v) \o LRU!Others(k)
           /\ lruRecent' = <<k>> \o RemoveFirst(lruRecent, k)
BY CachesRemoveFirst DEF LRU!PutHeld, LRU!Used

LEMMA NextLRU == ASSUME LRUInv, [Next]_vars PROVE LRUInv'
<1>1. ASSUME NEW k \in Key, LRU!Get(k) PROVE LRUInv'
  BY <1>1, GetLRU, Hit
<1>2. ASSUME NEW k \in Key, NEW v \in Value, LRU!PutHeld(k, v) PROVE LRUInv'
  BY <1>2, PutHeldLRU, Hit
<1>3. ASSUME NEW k \in Key, NEW v \in Value, LRU!PutNew(k, v) PROVE LRUInv'
  BY <1>3, PutNewLRU
<1>4. CASE LRU!Clear
  <2>1. list_' = <<>> /\ map_' = {} /\ lruRecent' = <<>> /\ Len(list_') = 0 /\ Len(lruRecent') = 0
    BY <1>4 DEF LRU!Clear
  <2>2. list_' \in Seq(LRUEntry) /\ lruRecent' \in Seq(Key)
    BY <2>1
  <2>3. 1 .. Len(list_') = {} /\ 1 .. Len(lruRecent') = {}
    BY <2>1
  <2>4. LRU!HoldsTheMostRecent'
    BY <2>1, <2>3, CapacityAssumption DEF LRU!HoldsTheMostRecent
  <2>5. QED  BY <2>1, <2>2, <2>3, <2>4 DEF LRUInv, Distinct
<1>5. CASE UNCHANGED lruVars
  BY <1>5 DEF lruVars, LRUInv, LRU!HoldsTheMostRecent, Distinct
<1>6. CASE LRU!Next
  BY <1>6, <1>1, <1>2, <1>3, <1>4 DEF LRU!Next
<1>7. QED  BY <1>5, <1>6 DEF Next, vars

(* LRUCache: for every capacity and any keys, the list and the map hold the *)
(* same keys, which are the capacity_ used last, in the order of their use. *)
THEOREM LRUKeepsTheMostRecent == Spec => []LRUHoldsTheMostRecent
<1>1. Init => LRUInv
  BY InitLRU DEF Init
<1>2. LRUInv /\ [Next]_vars => LRUInv'
  BY NextLRU
<1>3. LRUInv => LRUHoldsTheMostRecent
  <2> SUFFICES ASSUME LRUInv PROVE LRUHoldsTheMostRecent
    OBVIOUS
  <2>1. /\ \A x \in 1 .. Len(list_) : list_[x].key = lruRecent[x]
        /\ \A x, y \in 1 .. Len(list_) : lruRecent[x] = lruRecent[y] => x = y
    BY LRUByPlaces
  <2>2. map_ = {lruRecent[x] : x \in 1 .. Len(list_)}
    BY DEF LRUInv
  <2>3. map_ = {list_[x].key : x \in 1 .. Len(list_)}
    BY <2>1, <2>2
  <2>4. LRU!MapMatchesList
    BY <2>1, <2>3 DEF LRU!MapMatchesList
  <2>5. QED  BY <2>4 DEF LRUHoldsTheMostRecent, LRUInv
<1>4. QED  BY <1>1, <1>2, <1>3, PTL DEF Spec

(* What the cache holds, by places, in this state and in the next. *)
ContentsInOrder ==
    /\ LRU!Contents = [q \in map_ |-> LRU!Contents[q]]
    /\ map_ = {lruRecent[x] : x \in 1 .. Len(list_)}
    /\ \A x \in 1 .. Len(list_) : LRU!Contents[lruRecent[x]] = list_[x].value
    /\ IsFiniteSet(map_) /\ Cardinality(map_) <= capacity_

LEMMA ContentsByPlaces == LRUInv => ContentsInOrder
<1> SUFFICES ASSUME LRUInv PROVE ContentsInOrder
  OBVIOUS
<1>1. /\ \A x \in 1 .. Len(list_) : list_[x].key = lruRecent[x]
      /\ \A x, y \in 1 .. Len(list_) : lruRecent[x] = lruRecent[y] => x = y
      /\ IsFiniteSet(map_) /\ Cardinality(map_) <= capacity_
  BY LRUByPlaces
<1>2. map_ = {lruRecent[x] : x \in 1 .. Len(list_)}
  BY DEF LRUInv
<1>3. ASSUME NEW x \in 1 .. Len(list_) PROVE LRU!Contents[lruRecent[x]] = list_[x].value
  <2>1. LRU!NodeOf(lruRecent[x]) = x
    BY <1>1, NodeAt DEF LRU!NodeOf
  <2>2. lruRecent[x] \in map_
    BY <1>2
  <2>3. QED  BY <2>1, <2>2 DEF LRU!Contents
<1>4. LRU!Contents = [q \in map_ |-> LRU!Contents[q]]
  BY DEF LRU!Contents
<1>5. QED  BY <1>1, <1>2, <1>3, <1>4 DEF ContentsInOrder

LEMMA ContentsNext == LRUInv' => ContentsInOrder'
BY ContentsByPlaces, PTL

LEMMA HitContents ==
    ASSUME LRUInv, NEW k \in map_, NEW v \in Value, UNCHANGED map_,
           list_' = LRU!Entry(k, v) \o LRU!Others(k),
           lruRecent' = <<k>> \o RemoveFirst(lruRecent, k)
    PROVE  LRU!Contents' = [q \in map_ |-> IF q = k THEN v ELSE LRU!Contents[q]]
<1>1. LRUInv' /\ ContentsInOrder /\ ContentsInOrder'
  BY Hit, ContentsByPlaces, ContentsNext
<1>2. PICK n \in 1 .. Len(list_) :
        /\ lruRecent[n] = k /\ LRU!NodeOf(k) = n
        /\ \A x \in 1 .. Len(list_) :
             /\ From(n, x) \in 1 .. Len(list_) /\ lruRecent'[x] = lruRecent[From(n, x)]
             /\ list_'[x].value = IF x = 1 THEN v ELSE list_[From(n, x)].value
  BY Hit
<1> DEFINE m == Len(list_)
<1>3. Len(list_') = m /\ m \in Nat
  BY Hit
<1>4. \A x, y \in 1 .. m : lruRecent[x] = lruRecent[y] => x = y
  BY LRUByPlaces
<1> DEFINE old == LRU!Contents
           new == LRU!Contents'
<1>5. /\ new = [q \in map_ |-> new[q]]
      /\ map_ = {lruRecent'[x] : x \in 1 .. m}
      /\ \A x \in 1 .. m : new[lruRecent'[x]] = list_'[x].value
      /\ \A x \in 1 .. m : old[lruRecent[x]] = list_[x].value
  BY <1>1, <1>3 DEF ContentsInOrder
<1> HIDE DEF old, new, m
<1>6. n \in 1 .. m
  BY DEF m
<1>7. ASSUME NEW q \in map_ PROVE new[q] = IF q = k THEN v ELSE old[q]
  <2>1. PICK x \in 1 .. m : q = lruRecent'[x]
    BY <1>5
  <2>2. From(n, x) \in 1 .. m /\ q = lruRecent[From(n, x)]
        /\ list_'[x].value = IF x = 1 THEN v ELSE list_[From(n, x)].value
    BY <2>1, <1>2 DEF m
  <2>n. new[q] = list_'[x].value
    BY <2>1, <1>5
  <2>3. old[q] = list_[From(n, x)].value
    BY <2>2, <1>5
  <2>4. x = 1 <=> From(n, x) = n
    BY <1>3, <1>6 DEF From
  <2>5. x = 1 <=> q = k
    BY <2>2, <2>4, <1>2, <1>4, <1>6
  <2>6. QED  BY <2>2, <2>3, <2>5, <2>n
<1>8. QED  BY <1>5, <1>7 DEF old, new

LEMMA PutNewContents ==
    ASSUME LRUInv, NEW k \in Key, NEW v \in Value, LRU!PutNew(k, v)
    PROVE  LET gone == IF Cardinality(map_) = capacity_ THEN {Last(list_).key} ELSE {} IN
           /\ gone \subseteq map_ /\ Cardinality(gone) <= 1 /\ map_' = (map_ \ gone) \cup {k}
           /\ LRU!Contents' = [q \in map_' |-> IF q = k THEN v ELSE LRU!Contents[q]]
<1> DEFINE full == Cardinality(map_) = capacity_
           gone == IF full THEN {Last(list_).key} ELSE {}
           old  == LRU!Contents
           new  == LRU!Contents'
<1>1. LRUInv' /\ ContentsInOrder /\ ContentsInOrder'
  BY PutNewLRU, ContentsByPlaces, ContentsNext
<1>2. PICK m \in Nat :
        /\ IF full THEN /\ Len(list_) = m + 1 /\ Len(list_') = m + 1
                        /\ Last(list_).key = lruRecent[m + 1]
                   ELSE Len(list_) = m /\ Len(list_') = m + 1
        /\ lruRecent'[1] = k /\ list_'[1].value = v
        /\ \A x \in 1 .. m : /\ lruRecent'[x + 1] = lruRecent[x]
                             /\ list_'[x + 1].value = list_[x].value
  BY PutNewLRU
<1>3. k \notin map_ /\ map_' = (map_ \ gone) \cup {k}
  <2>1. LRU!Cardinality(map_) = Cardinality(map_) /\ LRU!Last(list_) = Last(list_)
    BY DEF LRU!Cardinality, Cardinality, LRU!Last, Last
  <2>2. QED  BY <2>1 DEF LRU!PutNew
<1>4. /\ new = [q \in map_' |-> new[q]] /\ map_' = {lruRecent'[x] : x \in 1 .. m + 1}
      /\ \A x \in 1 .. m + 1 : new[lruRecent'[x]] = list_'[x].value
      /\ map_ = {lruRecent[x] : x \in 1 .. Len(list_)}
      /\ \A x \in 1 .. Len(list_) : old[lruRecent[x]] = list_[x].value
  BY <1>1, <1>2 DEF ContentsInOrder
<1>5. gone \subseteq map_
  <2>1. CASE full
    <3>1. m + 1 \in 1 .. Len(list_) /\ Last(list_).key = lruRecent[m + 1]  BY <2>1, <1>2
    <3>2. QED  BY <3>1, <1>4
  <2>2. QED  BY <2>1
<1>6. Cardinality(gone) <= 1
  <2>1. Cardinality({}) = 0 /\ Cardinality({Last(list_).key}) = 1
    BY FS_EmptySet, FS_Singleton
  <2>2. CASE full
    BY <2>1, <2>2
  <2>3. CASE ~full
    BY <2>1, <2>3
  <2>4. QED  BY <2>2, <2>3
<1>7. \A x \in 1 .. m : x \in 1 .. Len(list_)
  BY <1>2
<1> HIDE DEF full, gone, old, new
<1>8. ASSUME NEW q \in map_' PROVE new[q] = IF q = k THEN v ELSE old[q]
  <2>1. PICK x \in 1 .. m + 1 : q = lruRecent'[x]
    BY <1>4
  <2>2. new[q] = list_'[x].value
    BY <2>1, <1>4
  <2>3. CASE x = 1
    BY <2>1, <2>2, <2>3, <1>2
  <2>4. CASE x # 1
    <3>1. PICK y \in 1 .. m : x = y + 1
      <4>1. x - 1 \in 1 .. m /\ x = (x - 1) + 1  BY <2>4
      <4>2. QED  BY <4>1
    <3>2. y \in 1 .. Len(list_) /\ q = lruRecent[y] /\ list_'[x].value = list_[y].value
      BY <3>1, <2>1, <1>2, <1>7
    <3>3. q \in map_ /\ old[q] = list_[y].value
      BY <3>2, <1>4
    <3>4. QED  BY <3>2, <3>3, <2>2, <1>3
  <2>5. QED  BY <2>3, <2>4
<1>9. QED  BY <1>3, <1>4, <1>5, <1>6, <1>8 DEF full, gone, old, new

(* LRUCache: for every capacity and any keys, it is the cache CachePolicy   *)
(* describes: get() gives what was last put, no more than capacity_ entries *)
(* are held, and a put() drops one other entry at most, when it is full.    *)
THEOREM LRUImplementsCache == Spec => LRUCacheSpec
<1>1. Init => LRU!Cache!Init
  <2>1. SUFFICES ASSUME LRU!Init PROVE LRU!Contents = <<>> /\ lruLast = <<>>
    BY DEF Init, LRU!Cache!Init
  <2>2. QED  BY <2>1 DEF LRU!Init, LRU!Contents
<1>2. LRUInv /\ [Next]_vars => [LRU!Cache!Next]_<<LRU!Contents, lruLast>>
  <2> SUFFICES ASSUME LRUInv, [Next]_vars
               PROVE  [LRU!Cache!Next]_<<LRU!Contents, lruLast>>
    OBVIOUS
  <2>c. ContentsInOrder /\ ContentsInOrder'
    BY NextLRU, ContentsByPlaces, ContentsNext
  <2>d. DOMAIN LRU!Contents = map_ /\ DOMAIN LRU!Contents' = map_'
    BY <2>c DEF ContentsInOrder
  <2>e. \A q : LRU!Cache!Cardinality(q) = Cardinality(q)
    BY DEF LRU!Cache!Cardinality, Cardinality
  <2>1. ASSUME NEW k \in Key, LRU!Get(k) PROVE LRU!Cache!Get(k)
    <3>1. PICK v \in Value : /\ v = list_[LRU!NodeOf(k)].value
                             /\ list_' = LRU!Entry(k, v) \o LRU!Others(k)
      BY <2>1, GetLRU
    <3>2. k \in map_ /\ UNCHANGED map_ /\ lruRecent' = <<k>> \o RemoveFirst(lruRecent, k)
      BY <2>1, GetLRU
    <3>3. LRU!Contents' = [q \in map_ |-> IF q = k THEN v ELSE LRU!Contents[q]]
      BY <3>1, <3>2, HitContents
    <3>4. LRU!Contents[k] = v
      BY <3>1, <3>2 DEF LRU!Contents
    <3>5. UNCHANGED LRU!Contents
      BY <3>3, <3>4, <2>c DEF ContentsInOrder
    <3>6. lruLast' = <<k, LRU!Contents[k]>>
      BY <2>1, <3>1, <3>4 DEF LRU!Get, LRU!Used
    <3>7. QED  BY <3>2, <3>5, <3>6, <2>d DEF LRU!Cache!Get
  <2>2. ASSUME NEW k \in Key, NEW v \in Value, LRU!PutHeld(k, v) PROVE LRU!Cache!Put(k, v)
    <3>1. /\ k \in map_ /\ UNCHANGED map_
          /\ LRU!Contents' = [q \in map_ |-> IF q = k THEN v ELSE LRU!Contents[q]]
      BY <2>2, PutHeldLRU, HitContents
    <3>2. lruLast' = <<k, v>>
      BY <2>2 DEF LRU!PutHeld, LRU!Used
    <3>3. map_ = (map_ \ {}) \cup {k} /\ Cardinality({}) <= 1 /\ Cardinality(map_') <= capacity_
      BY <3>1, <2>c, FS_EmptySet DEF ContentsInOrder
    <3>4. QED  BY <3>1, <3>2, <3>3, <2>d, <2>e DEF LRU!Cache!Put
  <2>3. ASSUME NEW k \in Key, NEW v \in Value, LRU!PutNew(k, v) PROVE LRU!Cache!Put(k, v)
    <3> DEFINE gone == IF Cardinality(map_) = capacity_ THEN {Last(list_).key} ELSE {}
    <3>1. /\ gone \subseteq map_ /\ Cardinality(gone) <= 1 /\ map_' = (map_ \ gone) \cup {k}
          /\ LRU!Contents' = [q \in map_' |-> IF q = k THEN v ELSE LRU!Contents[q]]
          /\ gone # {} => Cardinality(map_) = capacity_
      BY <2>3, PutNewContents
    <3> HIDE DEF gone
    <3>2. lruLast' = <<k, v>> /\ k \notin map_
      BY <2>3 DEF LRU!PutNew, LRU!Used
    <3>3. Cardinality(map_') <= capacity_
      BY <2>c DEF ContentsInOrder
    <3>4. QED  BY <3>1, <3>2, <3>3, <2>d, <2>e DEF LRU!Cache!Put
  <2>4. CASE LRU!Clear
    <3>1. LRU!Contents' = <<>> /\ lruLast' = <<>>
      BY <2>4 DEF LRU!Clear, LRU!Contents
    <3>2. QED  BY <3>1 DEF LRU!Cache!Next, LRU!Cache!Clear
  <2>5. CASE UNCHANGED lruVars
    BY <2>5 DEF lruVars, LRU!Contents, LRU!NodeOf
  <2>6. CASE LRU!Next
    BY <2>6, <2>1, <2>2, <2>3, <2>4 DEF LRU!Next, LRU!Cache!Next
  <2>7. QED  BY <2>5, <2>6 DEF Next, vars
<1>3. Init => LRUInv
  BY InitLRU DEF Init
<1>4. LRUInv /\ [Next]_vars => LRUInv'
  BY NextLRU
<1>5. QED
  BY <1>1, <1>2, <1>3, <1>4, PTL DEF Spec, LRUCacheSpec, LRU!CacheSpec, LRU!Cache!Spec

----------------------------------------------------------------------------
(* Order within lists: c stands before e. *)
Older(s, c, e) == \E x, y \in 1 .. Len(s) : x < y /\ s[x] = c /\ s[y] = e

LEMMA OlderAreOn ==
    ASSUME NEW s, NEW c, NEW e, Older(s, c, e)
    PROVE  OnList(s, c) /\ OnList(s, e)
BY DEF Older, OnList

LEMMA OrderInFront ==
    ASSUME NEW S, NEW s \in Seq(S), NEW k \in S
    PROVE  /\ \A c, e : Older(s, c, e) => Older(<<k>> \o s, c, e)
           /\ \A e : OnList(s, e) => Older(<<k>> \o s, k, e)
           /\ \A c, e : Older(<<k>> \o s, c, e) => (c = k /\ OnList(s, e)) \/ Older(s, c, e)
<1> DEFINE r == <<k>> \o s
           n == Len(s)
<1>1. /\ n \in Nat /\ Len(r) = n + 1 /\ r[1] = k
      /\ \A x \in 1 .. n : r[x + 1] = s[x]
  BY InFront
<1> HIDE DEF r, n
<1>2. 1 \in 1 .. n + 1 /\ \A x \in 1 .. n : x + 1 \in 1 .. n + 1 /\ 1 < x + 1
  BY <1>1
<1>3. ASSUME NEW c, NEW e, Older(s, c, e) PROVE Older(r, c, e)
  <2>1. PICK x \in 1 .. n, y \in 1 .. n : x < y /\ s[x] = c /\ s[y] = e
    BY <1>3 DEF Older, n
  <2>2. x + 1 \in 1 .. n + 1 /\ y + 1 \in 1 .. n + 1 /\ x + 1 < y + 1
        /\ r[x + 1] = c /\ r[y + 1] = e
    BY <2>1, <1>1, <1>2
  <2>3. QED  BY <2>2, <1>1 DEF Older
<1>4. ASSUME NEW e, OnList(s, e) PROVE Older(r, k, e)
  <2>1. PICK y \in 1 .. n : s[y] = e
    BY <1>4 DEF OnList, n
  <2>2. y + 1 \in 1 .. n + 1 /\ 1 < y + 1 /\ r[y + 1] = e
    BY <2>1, <1>1, <1>2
  <2>3. QED  BY <2>2, <1>1, <1>2 DEF Older
<1>5. ASSUME NEW c, NEW e, Older(r, c, e) PROVE (c = k /\ OnList(s, e)) \/ Older(s, c, e)
  <2>1. PICK x \in 1 .. n + 1, y \in 1 .. n + 1 : x < y /\ r[x] = c /\ r[y] = e
    BY <1>5, <1>1 DEF Older
  <2>2. y - 1 \in 1 .. n /\ (y - 1) + 1 = y
    BY <2>1, <1>1
  <2>3. s[y - 1] = e
    BY <2>1, <2>2, <1>1
  <2>4. CASE x = 1
    BY <2>1, <2>2, <2>3, <2>4, <1>1 DEF OnList, n
  <2>5. CASE x # 1
    <3>1. x - 1 \in 1 .. n /\ (x - 1) + 1 = x /\ x - 1 < y - 1
      BY <2>1, <2>5, <1>1
    <3>2. s[x - 1] = c
      BY <2>1, <3>1, <1>1
    <3>3. QED  BY <2>2, <2>3, <3>1, <3>2 DEF Older, n
  <2>6. QED  BY <2>4, <2>5
<1>6. QED  BY <1>3, <1>4, <1>5 DEF r

LEMMA OrderWithout ==
    ASSUME NEW S, NEW s \in Seq(S), Distinct(s), NEW g
    PROVE  \A c, e : Older(RemoveFirst(s, g), c, e) <=> Older(s, c, e) /\ c # g /\ e # g
<1>1. CASE ~OnList(s, g)
  <2>1. RemoveFirst(s, g) = s  BY <1>1 DEF RemoveFirst, OnList
  <2>2. QED  BY <1>1, <2>1, OlderAreOn
<1>2. CASE OnList(s, g)
  <2>1. PICK n \in 1 .. Len(s) : s[n] = g
    BY <1>2 DEF OnList
  <2> DEFINE r == RemoveFirst(s, g)
             m == Len(s)
  <2>2. /\ m \in Nat /\ r \in Seq(S) /\ Len(r) = m - 1
        /\ \A x \in 1 .. m - 1 : r[x] = s[After(n, x)]
    <3>1. r = RemoveAt(s, n)  BY <2>1, FirstIsOnly
    <3>2. QED  BY <3>1, Dropped
  <2>3. \A x, y \in 1 .. m : s[x] = s[y] => x = y
    BY DEF Distinct
  <2> HIDE DEF r, m
  <2>n. n \in 1 .. m
    BY DEF m
  <2>4. /\ \A x \in 1 .. m - 1 : After(n, x) \in 1 .. m /\ After(n, x) # n
        /\ \A x, y \in 1 .. m - 1 : x < y => After(n, x) < After(n, y)
    BY <2>2, <2>n DEF After
  <2>5. ASSUME NEW y \in 1 .. m, y # n
        PROVE  \E x \in 1 .. m - 1 : After(n, x) = y
    <3>1. CASE y < n
      <4>1. y \in 1 .. m - 1 /\ After(n, y) = y  BY <3>1, <2>2, <2>n DEF After
      <4>2. QED  BY <4>1
    <3>2. CASE y > n
      <4>1. y - 1 \in 1 .. m - 1 /\ After(n, y - 1) = y  BY <3>2, <2>2, <2>n DEF After
      <4>2. QED  BY <4>1
    <3>3. QED  BY <3>1, <3>2, <2>2, <2>5, <2>n
  <2>6. ASSUME NEW c, NEW e, Older(r, c, e) PROVE Older(s, c, e) /\ c # g /\ e # g
    <3>1. PICK x \in 1 .. m - 1, y \in 1 .. m - 1 : x < y /\ r[x] = c /\ r[y] = e
      BY <2>6, <2>2 DEF Older
    <3>2. /\ After(n, x) \in 1 .. m /\ After(n, y) \in 1 .. m /\ After(n, x) < After(n, y)
          /\ After(n, x) # n /\ After(n, y) # n
          /\ s[After(n, x)] = c /\ s[After(n, y)] = e
      BY <3>1, <2>2, <2>4
    <3>3. c # g /\ e # g
      BY <3>2, <2>1, <2>3, <2>n
    <3>4. QED  BY <3>2, <3>3 DEF Older, m
  <2>7. ASSUME NEW c, NEW e, Older(s, c, e), c # g, e # g PROVE Older(r, c, e)
    <3>1. PICK x \in 1 .. m, y \in 1 .. m : x < y /\ s[x] = c /\ s[y] = e
      BY <2>7 DEF Older, m
    <3>2. x # n /\ y # n
      BY <3>1, <2>1, <2>7
    <3>3. PICK u \in 1 .. m - 1 : After(n, u) = x
      BY <3>2, <2>5
    <3>4. PICK w \in 1 .. m - 1 : After(n, w) = y
      BY <3>2, <2>5
    <3>5. u < w
      BY <3>1, <3>3, <3>4, <2>2, <2>n DEF After
    <3>6. r[u] = c /\ r[w] = e
      BY <3>1, <3>3, <3>4, <2>2
    <3>7. QED  BY <3>5, <3>6, <2>2 DEF Older
  <2>8. QED  BY <2>6, <2>7 DEF r
<1>3. QED  BY <1>1, <1>2

(* The last to leave goes as it would from any other place. *)
LEMMA LastLeaves ==
    ASSUME NEW S, NEW s \in Seq(S), s # <<>>, Distinct(s)
    PROVE  /\ Front(s) = RemoveFirst(s, Last(s))
           /\ Last(s) \in S /\ OnList(s, Last(s))
           /\ \A c : OnList(s, c) /\ c # Last(s) => Older(s, c, Last(s))
<1> DEFINE m == Len(s)
<1>1. m \in Nat \ {0} /\ Last(s) = s[m] /\ m \in 1 .. m /\ s[m] \in S
  BY EmptySeq, ElementOfSeq DEF Last
<1>2. RemoveFirst(s, Last(s)) = RemoveAt(s, m)
  BY <1>1, FirstIsOnly
<1>3. Front(s) = RemoveAt(s, m)
  <2> DEFINE p == Front(s)
             q == RemoveAt(s, m)
  <2>1. p \in Seq(S) /\ Len(p) = m - 1 /\ \A x \in 1 .. m - 1 : p[x] = s[x]
    BY WithoutLast
  <2>2. q \in Seq(S) /\ Len(q) = m - 1 /\ \A x \in 1 .. m - 1 : q[x] = s[After(m, x)]
    BY <1>1, Dropped
  <2> HIDE DEF p, q, m
  <2>3. \A x \in 1 .. m - 1 : After(m, x) = x
    BY <1>1 DEF After
  <2>4. p = q
    BY <2>1, <2>2, <2>3, SeqEqual
  <2>5. QED  BY <2>4 DEF p, q
<1>4. ASSUME NEW c, OnList(s, c), c # Last(s) PROVE Older(s, c, Last(s))
  <2>1. PICK x \in 1 .. m : s[x] = c
    BY <1>4 DEF OnList
  <2>2. x < m
    BY <2>1, <1>1, <1>4
  <2>3. QED  BY <2>1, <2>2, <1>1 DEF Older
<1>5. QED  BY <1>1, <1>2, <1>3, <1>4 DEF OnList

----------------------------------------------------------------------------
(* LFUCache: the keys held, with their values and frequencies, are those of *)
(* the frequency lists, each once and in the list of its frequency; each    *)
(* list has them in the order of their last use.                            *)
IsFunction(f) == f = [x \in DOMAIN f |-> f[x]]
LFUEntry == [value : Value, freq : Nat \ {0}]

Agree(d, l, r) ==
    /\ DOMAIN d \subseteq Key /\ IsFunction(d)
    /\ \A k \in DOMAIN d : d[k] \in LFUEntry /\ d[k].freq \in DOMAIN l
    /\ DOMAIN l \subseteq Nat \ {0}
    /\ \A f \in DOMAIN l : l[f] \in Seq(Key) /\ Distinct(l[f])
    /\ \A f \in DOMAIN l, c \in Key : OnList(l[f], c) <=> c \in DOMAIN d /\ d[c].freq = f
    /\ r \in Seq(Key) /\ Distinct(r)
    /\ \A c \in Key : OnList(r, c) <=> c \in DOMAIN d
    /\ \A f \in DOMAIN l, c, e \in Key : Older(l[f], c, e) => Older(r, c, e)

(* The list to evict from is there, and has someone on it. *)
MinFound(d, l, m) ==
    IF DOMAIN d = {} THEN m = 0 ELSE m \in DOMAIN l /\ l[m] # <<>>

LFUInv ==
    /\ Agree(cache_data_, freq_lists_, lfuRecent)
    /\ MinFound(cache_data_, freq_lists_, min_freq_)
    /\ list_iter_map_ = DOMAIN cache_data_
    /\ IsFiniteSet(DOMAIN cache_data_) /\ Cardinality(DOMAIN cache_data_) <= capacity_

(* A key that leaves leaves its list, the data and the history.             *)
LEMMA Drop ==
    ASSUME NEW d, NEW l, NEW r, Agree(d, l, r), NEW k \in DOMAIN d,
           NEW p, DOMAIN p = DOMAIN l, p[d[k].freq] = RemoveFirst(l[d[k].freq], k),
           \A n \in DOMAIN l : n # d[k].freq => p[n] = l[n]
    PROVE  Agree([x \in DOMAIN d \ {k} |-> d[x]], p, RemoveFirst(r, k))
<1> DEFINE f == d[k].freq
           u == [x \in DOMAIN d \ {k} |-> d[x]]
           t == RemoveFirst(r, k)
<1>1. /\ DOMAIN u = DOMAIN d \ {k} /\ IsFunction(u)
      /\ \A x \in DOMAIN u : u[x] = d[x]
  BY DEF IsFunction
<1>2. /\ DOMAIN d \subseteq Key /\ k \in Key /\ f \in DOMAIN l
      /\ \A x \in DOMAIN d : d[x] \in LFUEntry /\ d[x].freq \in DOMAIN l
      /\ DOMAIN l \subseteq Nat \ {0}
      /\ \A n \in DOMAIN l : l[n] \in Seq(Key) /\ Distinct(l[n])
      /\ \A n \in DOMAIN l, c \in Key : OnList(l[n], c) <=> c \in DOMAIN d /\ d[c].freq = n
      /\ r \in Seq(Key) /\ Distinct(r)
      /\ \A c \in Key : OnList(r, c) <=> c \in DOMAIN d
      /\ \A n \in DOMAIN l, c, e \in Key : Older(l[n], c, e) => Older(r, c, e)
  BY DEF Agree
<1>3. /\ t \in Seq(Key) /\ Distinct(t)
      /\ \A c : OnList(t, c) <=> OnList(r, c) /\ c # k
      /\ \A c, e : Older(t, c, e) <=> Older(r, c, e) /\ c # k /\ e # k
  BY <1>2, RemovedFirst, OrderWithout
<1>4. /\ p[f] \in Seq(Key) /\ Distinct(p[f])
      /\ \A c : OnList(p[f], c) <=> OnList(l[f], c) /\ c # k
      /\ \A c, e : Older(p[f], c, e) <=> Older(l[f], c, e) /\ c # k /\ e # k
  BY <1>2, RemovedFirst, OrderWithout
<1>5. DOMAIN p = DOMAIN l /\ \A n \in DOMAIN l : n # f => p[n] = l[n]
  OBVIOUS
<1> HIDE DEF f, u, t
<1>6. \A n \in DOMAIN p : p[n] \in Seq(Key) /\ Distinct(p[n])
  BY <1>2, <1>4, <1>5
<1>7. ASSUME NEW n \in DOMAIN p, NEW c \in Key
      PROVE  OnList(p[n], c) <=> c \in DOMAIN u /\ u[c].freq = n
  <2>1. OnList(l[n], c) <=> c \in DOMAIN d /\ d[c].freq = n
    BY <1>2, <1>5
  <2>2. OnList(p[n], c) <=> OnList(l[n], c) /\ c # k
    <3>1. CASE n = f
      BY <3>1, <1>4
    <3>2. CASE n # f
      <4>1. p[n] = l[n]  BY <3>2, <1>5
      <4>2. c = k => ~OnList(l[n], c)  BY <3>2, <2>1 DEF f
      <4>3. QED  BY <4>1, <4>2
    <3>3. QED  BY <3>1, <3>2
  <2>3. QED  BY <2>1, <2>2, <1>1
<1>8. ASSUME NEW n \in DOMAIN p, NEW c \in Key, NEW e \in Key, Older(p[n], c, e)
      PROVE  Older(t, c, e)
  <2>1. OnList(p[n], c) /\ OnList(p[n], e)
    BY <1>8, OlderAreOn
  <2>2. c # k /\ e # k
    BY <2>1, <1>1, <1>7
  <2>3. Older(l[n], c, e)
    BY <1>4, <1>5, <1>8
  <2>4. QED  BY <2>2, <2>3, <1>2, <1>3, <1>5
<1>9. \A x \in DOMAIN u : u[x] \in LFUEntry /\ u[x].freq \in DOMAIN p
  BY <1>1, <1>2, <1>5
<1>10. \A c \in Key : OnList(t, c) <=> c \in DOMAIN u
  BY <1>1, <1>2, <1>3
<1>11. DOMAIN u \subseteq Key /\ DOMAIN p \subseteq Nat \ {0}
  BY <1>1, <1>2, <1>5
<1>12. Agree(u, p, t)
  BY <1>1, <1>3, <1>6, <1>7, <1>8, <1>9, <1>10, <1>11 DEF Agree
<1>13. QED  BY <1>12 DEF u, t

(* A new key goes in front of the list of its frequency. *)
Joined(u, d, k, g) ==
    /\ IsFunction(u) /\ DOMAIN u = DOMAIN d \cup {k} /\ \A x \in DOMAIN d : u[x] = d[x]
    /\ u[k] \in LFUEntry /\ u[k].freq = g

LEMMA Add ==
    ASSUME NEW d, NEW l, NEW r, Agree(d, l, r), NEW k \in Key, k \notin DOMAIN d,
           NEW g \in Nat \ {0}, NEW u, Joined(u, d, k, g),
           NEW p, p = LFU!With(l, g, <<k>> \o LFU!getListByFreq(l, g))
    PROVE  /\ Agree(u, p, <<k>> \o r)
           /\ \A n : n \in DOMAIN p <=> n \in DOMAIN l \/ n = g
           /\ p[g] # <<>>
<1> DEFINE q == LFU!getListByFreq(l, g)
           t == <<k>> \o r
<1> USE DEF Joined
<1>1. /\ DOMAIN p = DOMAIN l \cup {g} /\ p[g] = <<k>> \o q
      /\ \A n \in DOMAIN l : n # g => p[n] = l[n]
  BY DEF LFU!With
<1>2. q = IF g \in DOMAIN l THEN l[g] ELSE <<>>
  BY DEF LFU!getListByFreq
<1>3. /\ DOMAIN d \subseteq Key
      /\ \A x \in DOMAIN d : d[x] \in LFUEntry /\ d[x].freq \in DOMAIN l
      /\ DOMAIN l \subseteq Nat \ {0}
      /\ \A n \in DOMAIN l : l[n] \in Seq(Key) /\ Distinct(l[n])
      /\ \A n \in DOMAIN l, c \in Key : OnList(l[n], c) <=> c \in DOMAIN d /\ d[c].freq = n
      /\ r \in Seq(Key) /\ Distinct(r)
      /\ \A c \in Key : OnList(r, c) <=> c \in DOMAIN d
      /\ \A n \in DOMAIN l, c, e \in Key : Older(l[n], c, e) => Older(r, c, e)
  BY DEF Agree
<1>4. \A c : ~OnList(<<>>, c)
  BY DEF OnList
<1>5. \A c, e : ~Older(<<>>, c, e)
  BY DEF Older
<1>6. <<>> \in Seq(Key) /\ Distinct(<<>>)
  BY DEF Distinct
<1> HIDE DEF q, t
<1>7. /\ q \in Seq(Key) /\ Distinct(q)
      /\ \A c \in Key : OnList(q, c) <=> c \in DOMAIN d /\ d[c].freq = g
      /\ \A c, e \in Key : Older(q, c, e) => Older(r, c, e)
  <2>1. CASE g \in DOMAIN l
    BY <2>1, <1>2, <1>3
  <2>2. CASE g \notin DOMAIN l
    BY <2>2, <1>2, <1>3, <1>4, <1>5, <1>6
  <2>3. QED  BY <2>1, <2>2
<1>8. /\ t \in Seq(Key) /\ Distinct(t)
      /\ \A c : OnList(t, c) <=> c = k \/ OnList(r, c)
      /\ \A c, e : Older(r, c, e) => Older(t, c, e)
      /\ \A e : OnList(r, e) => Older(t, k, e)
  BY <1>3, InFront, InFrontOfOthers, OrderInFront DEF t
<1>9. /\ p[g] \in Seq(Key) /\ Distinct(p[g]) /\ p[g] # <<>>
      /\ \A c : OnList(p[g], c) <=> c = k \/ OnList(q, c)
      /\ \A c, e : Older(p[g], c, e) => (c = k /\ OnList(q, e)) \/ Older(q, c, e)
  <2>1. <<k>> \o q \in Seq(Key) /\ Len(<<k>> \o q) = Len(q) + 1 /\ Len(q) \in Nat
    BY <1>7, InFront
  <2>2. <<k>> \o q # <<>>
    <3>1. Len(<<k>> \o q) # 0  BY <2>1
    <3>2. QED  BY <3>1
  <2>3. /\ Distinct(<<k>> \o q) /\ \A c : OnList(<<k>> \o q, c) <=> c = k \/ OnList(q, c)
    BY <1>7, InFrontOfOthers
  <2>4. \A c, e : Older(<<k>> \o q, c, e) => (c = k /\ OnList(q, e)) \/ Older(q, c, e)
    BY <1>7, OrderInFront
  <2>5. QED  BY <2>1, <2>2, <2>3, <2>4, <1>1
<1>10. \A n \in DOMAIN p : p[n] \in Seq(Key) /\ Distinct(p[n])
  BY <1>1, <1>3, <1>9
<1>11. ASSUME NEW n \in DOMAIN p, NEW c \in Key
       PROVE  OnList(p[n], c) <=> c \in DOMAIN u /\ u[c].freq = n
  <2>1. CASE n = g
    BY <2>1, <1>7, <1>9
  <2>2. CASE n # g
    BY <2>2, <1>1, <1>3
  <2>3. QED  BY <2>1, <2>2
<1>12. ASSUME NEW n \in DOMAIN p, NEW c \in Key, NEW e \in Key, Older(p[n], c, e)
       PROVE  Older(t, c, e)
  <2>1. CASE n # g
    BY <2>1, <1>1, <1>3, <1>8, <1>12
  <2>2. CASE n = g
    <3>1. (c = k /\ OnList(q, e)) \/ Older(q, c, e)
      BY <2>2, <1>9, <1>12
    <3>2. OnList(q, e) => OnList(r, e)
      BY <1>3, <1>7
    <3>3. QED  BY <3>1, <3>2, <1>7, <1>8
  <2>3. QED  BY <2>1, <2>2
<1>13. \A x \in DOMAIN u : u[x] \in LFUEntry /\ u[x].freq \in DOMAIN p
  BY <1>1, <1>3
<1>14. \A c \in Key : OnList(t, c) <=> c \in DOMAIN u
  BY <1>3, <1>8
<1>15. DOMAIN u \subseteq Key /\ DOMAIN p \subseteq Nat \ {0}
  BY <1>1, <1>3
<1>16. Agree(u, p, t)
  BY <1>8, <1>10, <1>11, <1>12, <1>13, <1>14, <1>15 DEF Agree
<1>17. QED  BY <1>1, <1>9, <1>16 DEF q, t

(* The splice: a key moves on to the list of the next frequency. *)
LEMMA Promoted ==
    ASSUME NEW d, NEW l, NEW r, Agree(d, l, r), NEW k \in DOMAIN d,
           NEW u, IsFunction(u), DOMAIN u = DOMAIN d,
           \A x \in DOMAIN d : x # k => u[x] = d[x],
           u[k] \in LFUEntry, u[k].freq = d[k].freq + 1
    PROVE  LET p == LFU!Promote(d, l, k) IN
           /\ Agree(u, p, <<k>> \o RemoveFirst(r, k))
           /\ \A n : n \in DOMAIN p <=> n \in DOMAIN l \/ n = u[k].freq
           /\ p[u[k].freq] # <<>>
<1> DEFINE f == d[k].freq
           o == LFU!With(l, f, RemoveFirst(l[f], k))
           e == [x \in DOMAIN d \ {k} |-> d[x]]
           t == RemoveFirst(r, k)
           g == f + 1
<1>1. k \in Key /\ f \in DOMAIN l /\ f \in Nat \ {0}
  BY DEF Agree
<1>2. /\ DOMAIN o = DOMAIN l /\ o[f] = RemoveFirst(l[f], k)
      /\ \A n \in DOMAIN l : n # f => o[n] = l[n]
  BY <1>1 DEF LFU!With
<1>3. LFU!Promote(d, l, k) = LFU!With(o, g, <<k>> \o LFU!getListByFreq(o, g))
  BY CachesRemoveFirst DEF LFU!Promote
<1>4. /\ k \notin DOMAIN e /\ DOMAIN u = DOMAIN e \cup {k}
      /\ \A x \in DOMAIN e : u[x] = d[x] /\ u[x] = e[x]
  OBVIOUS
<1> HIDE DEF o
<1>5. Agree(e, o, t)
  BY <1>2, Drop
<1> HIDE DEF e, t
<1>6. g \in Nat \ {0} /\ u[k].freq = g
  BY <1>1
<1> HIDE DEF g
<1> DEFINE p == LFU!Promote(d, l, k)
<1> HIDE DEF p
<1>7. /\ Agree(u, p, <<k>> \o t) /\ p[g] # <<>>
      /\ \A n : n \in DOMAIN p <=> n \in DOMAIN o \/ n = g
  <2>1. k \in Key /\ k \notin DOMAIN e /\ Joined(u, e, k, g)
    BY <1>1, <1>4, <1>6 DEF Joined
  <2>2. p = LFU!With(o, g, <<k>> \o LFU!getListByFreq(o, g))
    BY <1>3 DEF p
  <2>3. QED  BY ONLY <2>1, <2>2, <1>5, <1>6, Add
<1>8. QED  BY <1>2, <1>3, <1>6, <1>7 DEF p, t

(* updateMinFreq() finds a list with someone on it. *)
LEMMA MinIsFound ==
    ASSUME NEW u, DOMAIN u # {}, NEW l, NEW p, NEW g,
           \A n : n \in DOMAIN p <=> n \in DOMAIN l \/ n = g, p[g] # <<>>,
           NEW m, m = 0 \/ m \in DOMAIN l
    PROVE  MinFound(u, p, LFU!updateMinFreq(p, m, g))
BY DEF MinFound, LFU!updateMinFreq

(* What is left when a full cache has made room: there is always someone    *)
(* to evict.                                                                *)
LEMMA RoomIsMade ==
    ASSUME LFUInv
    PROVE  /\ Agree(LFU!DataAfterEviction, LFU!ListsAfterEviction, LFU!RecentAfterEviction)
           /\ DOMAIN LFU!ListsAfterEviction = DOMAIN freq_lists_
           /\ DOMAIN LFU!DataAfterEviction = DOMAIN cache_data_ \ LFU!Evicted
           /\ \A x \in DOMAIN LFU!DataAfterEviction : LFU!DataAfterEviction[x] = cache_data_[x]
           /\ IsFiniteSet(DOMAIN LFU!DataAfterEviction)
           /\ Cardinality(DOMAIN LFU!DataAfterEviction) < capacity_
           /\ LFU!Evicted # {} =>
                /\ Cardinality(DOMAIN cache_data_) = capacity_
                /\ LFU!Evicted = {Last(freq_lists_[min_freq_])}
                /\ min_freq_ \in DOMAIN freq_lists_ /\ freq_lists_[min_freq_] # <<>>
                /\ Last(freq_lists_[min_freq_]) \in DOMAIN cache_data_
                /\ cache_data_[Last(freq_lists_[min_freq_])].freq = min_freq_
<1> DEFINE d == cache_data_
           l == freq_lists_
           m == min_freq_
           r == lfuRecent
           g == Last(l[m])
           full == Cardinality(DOMAIN d) = capacity_
<1>1. /\ Agree(d, l, r) /\ MinFound(d, l, m)
      /\ IsFiniteSet(DOMAIN d) /\ Cardinality(DOMAIN d) <= capacity_
  BY DEF LFUInv
<1>2. Cardinality(DOMAIN d) \in Nat
  BY <1>1, FS_CardinalityType
<1>3. full => m \in DOMAIN l /\ l[m] # <<>>
  <2>1. full => DOMAIN d # {}
    BY FS_EmptySet, CapacityAssumption
  <2>2. QED  BY <2>1, <1>1 DEF MinFound
<1>4. /\ LFU!Evicted = IF full THEN {g} ELSE {}
      /\ LFU!ListsAfterEviction = IF LFU!Evicted = {} THEN l ELSE [l EXCEPT ![m] = Front(@)]
      /\ LFU!RecentAfterEviction = IF LFU!Evicted = {} THEN r ELSE RemoveFirst(r, g)
      /\ LFU!DataAfterEviction = [x \in DOMAIN d \ LFU!Evicted |-> d[x]]
  <2>1. LFU!Cardinality(DOMAIN d) = Cardinality(DOMAIN d)
    BY DEF LFU!Cardinality, Cardinality
  <2>2. /\ \A s : LFU!Last(s) = Last(s)
        /\ \A s : LFU!Front(s) = Front(s)
        /\ LFU!RemoveFirst(r, g) = RemoveFirst(r, g)
    BY CachesRemoveFirst DEF LFU!Last, Last, LFU!Front, Front
  <2>3. LFU!Evicted = IF full THEN {g} ELSE {}
    BY <2>1, <2>2, <1>3 DEF LFU!Evicted
  <2>4. QED
    BY <2>2, <2>3 DEF LFU!ListsAfterEviction, LFU!RecentAfterEviction, LFU!DataAfterEviction
<1>5. CASE ~full
  <2>1. LFU!Evicted = {} /\ LFU!ListsAfterEviction = l /\ LFU!RecentAfterEviction = r
    BY <1>4, <1>5
  <2>2. LFU!DataAfterEviction = d
    <3>1. d = [x \in DOMAIN d |-> d[x]]  BY <1>1 DEF Agree, IsFunction
    <3>2. DOMAIN d \ LFU!Evicted = DOMAIN d  BY <2>1
    <3>3. QED  BY <3>1, <3>2, <1>4
  <2>3. Cardinality(DOMAIN d) < capacity_
    BY <1>1, <1>2, <1>5, CapacityAssumption
  <2>4. QED  BY <2>1, <2>2, <2>3, <1>1
<1>6. CASE full
  <2>1. m \in DOMAIN l /\ l[m] # <<>> /\ l[m] \in Seq(Key) /\ Distinct(l[m])
    BY <1>1, <1>3, <1>6 DEF Agree
  <2>2. Front(l[m]) = RemoveFirst(l[m], g) /\ g \in Key /\ OnList(l[m], g)
    BY <2>1, LastLeaves
  <2>3. g \in DOMAIN d /\ d[g].freq = m
    BY <2>1, <2>2, <1>1 DEF Agree
  <2> DEFINE p == [l EXCEPT ![m] = Front(@)]
             u == [x \in DOMAIN d \ {g} |-> d[x]]
  <2>4. /\ DOMAIN p = DOMAIN l /\ p[d[g].freq] = RemoveFirst(l[d[g].freq], g)
        /\ \A n \in DOMAIN l : n # d[g].freq => p[n] = l[n]
    BY <2>1, <2>2, <2>3
  <2>5. LFU!Evicted = {g} /\ LFU!ListsAfterEviction = p /\ LFU!RecentAfterEviction = RemoveFirst(r, g)
        /\ LFU!DataAfterEviction = u
    BY <1>4, <1>6
  <2>6. IsFiniteSet(DOMAIN d \ {g}) /\ Cardinality(DOMAIN d \ {g}) = Cardinality(DOMAIN d) - 1
    BY <2>3, <1>1, FS_RemoveElement
  <2>7. DOMAIN u = DOMAIN d \ {g} /\ \A x \in DOMAIN u : u[x] = d[x]
    OBVIOUS
  <2> HIDE DEF p
  <2>8. Agree(u, p, RemoveFirst(r, g))
    BY <2>3, <2>4, <1>1, Drop
  <2> HIDE DEF u
  <2>9. Cardinality(DOMAIN u) < capacity_
    BY <2>6, <2>7, <1>6, CapacityAssumption
  <2>10. QED  BY <2>1, <2>3, <2>4, <2>5, <2>6, <2>7, <2>8, <2>9, <1>6
<1>7. QED  BY <1>5, <1>6

(* What put() changes: the key it puts is on it, the evicted is not.        *)
LEMMA PutLFU ==
    ASSUME LFUInv, NEW k \in Key, NEW v \in Value, LFU!Put(k, v)
    PROVE  /\ LFUInv'
           /\ cache_data_' = [x \in DOMAIN cache_data_' |-> cache_data_'[x]]
           /\ DOMAIN cache_data_' = (DOMAIN cache_data_ \ LFU!Evicted) \cup {k}
           /\ cache_data_'[k].value = v
           /\ \A x \in DOMAIN cache_data_' : x # k => cache_data_'[x] = cache_data_[x]
<1> DEFINE d == LFU!DataAfterEviction
           l == LFU!ListsAfterEviction
           r == LFU!RecentAfterEviction
           u == cache_data_'
           p == freq_lists_'
           t == <<k>> \o RemoveFirst(r, k)
<1>1. /\ Agree(d, l, r) /\ DOMAIN l = DOMAIN freq_lists_
      /\ DOMAIN d = DOMAIN cache_data_ \ LFU!Evicted
      /\ \A x \in DOMAIN d : d[x] = cache_data_[x]
      /\ IsFiniteSet(DOMAIN d) /\ Cardinality(DOMAIN d) < capacity_
  BY RoomIsMade
<1>2. /\ IF k \in DOMAIN d
         THEN /\ p = LFU!Promote(d, l, k)
              /\ u = [d EXCEPT ![k].value = v, ![k].freq = @ + 1]
         ELSE /\ p = LFU!With(l, 1, <<k>> \o LFU!getListByFreq(l, 1))
              /\ u = LFU!With(d, k, [value |-> v, freq |-> 1])
      /\ list_iter_map_' = (list_iter_map_ \ LFU!Evicted) \cup {k}
      /\ min_freq_' = LFU!updateMinFreq(p, min_freq_, u[k].freq)
      /\ lfuRecent' = t
  BY CachesRemoveFirst DEF LFU!Put
<1> HIDE DEF d, l, r, u, p
<1>3. /\ Agree(u, p, t) /\ IsFunction(u) /\ p[u[k].freq] # <<>>
      /\ \A n : n \in DOMAIN p <=> n \in DOMAIN l \/ n = u[k].freq
      /\ DOMAIN u = DOMAIN d \cup {k} /\ u[k].value = v
      /\ \A x \in DOMAIN d : x # k => u[x] = d[x]
  <2>1. CASE k \in DOMAIN d
    <3>1. d[k] \in LFUEntry /\ IsFunction(d)
      BY <1>1, <2>1 DEF Agree
    <3>2. u = [d EXCEPT ![k].value = v, ![k].freq = @ + 1]
      BY <1>2, <2>1
    <3>3. /\ IsFunction(u) /\ DOMAIN u = DOMAIN d
          /\ \A x \in DOMAIN d : x # k => u[x] = d[x]
      BY <3>2 DEF IsFunction
    <3>4. u[k] = [d[k] EXCEPT !.value = v, !.freq = @ + 1]
      BY <3>2, <2>1
    <3>5. u[k] \in LFUEntry /\ u[k].freq = d[k].freq + 1 /\ u[k].value = v
      <4>1. /\ d[k].freq \in Nat \ {0}
            /\ d[k] = [value |-> d[k].value, freq |-> d[k].freq]
        BY <3>1 DEF LFUEntry
      <4>2. u[k] = [value |-> v, freq |-> d[k].freq + 1]
        BY <3>4, <4>1
      <4>3. QED  BY <4>1, <4>2 DEF LFUEntry
    <3>6. p = LFU!Promote(d, l, k)
      BY <1>2, <2>1
    <3>7. /\ Agree(u, LFU!Promote(d, l, k), t)
          /\ \A n : n \in DOMAIN LFU!Promote(d, l, k) <=> n \in DOMAIN l \/ n = u[k].freq
          /\ LFU!Promote(d, l, k)[u[k].freq] # <<>>
      BY <3>3, <3>5, <1>1, <2>1, Promoted
    <3>8. QED  BY <3>3, <3>5, <3>6, <3>7, <2>1
  <2>2. CASE k \notin DOMAIN d
    <3>1. u = LFU!With(d, k, [value |-> v, freq |-> 1])
      BY <1>2, <2>2
    <3>2. [value |-> v, freq |-> 1] \in LFUEntry
      BY DEF LFUEntry
    <3>3. Joined(u, d, k, 1) /\ u[k] = [value |-> v, freq |-> 1]
      BY <3>1, <3>2, <2>2 DEF Joined, IsFunction, LFU!With
    <3>4. t = <<k>> \o r
      <4>1. ~OnList(r, k)
        BY <1>1, <2>2 DEF Agree
      <4>2. RemoveFirst(r, k) = r
        BY <4>1 DEF RemoveFirst, OnList
      <4>3. QED  BY <4>2
    <3>5. p = LFU!With(l, 1, <<k>> \o LFU!getListByFreq(l, 1))
      BY <1>2, <2>2
    <3>6. /\ Agree(u, p, <<k>> \o r) /\ p[1] # <<>>
          /\ \A n : n \in DOMAIN p <=> n \in DOMAIN l \/ n = 1
      BY <3>3, <3>5, <1>1, <2>2, Add
    <3>7. u[k].freq = 1 /\ u[k].value = v
      BY <3>3
    <3>8. QED  BY <3>3, <3>4, <3>6, <3>7 DEF Joined
  <2>3. QED  BY <2>1, <2>2
<1>4. MinFound(u, p, min_freq_')
  <2>1. min_freq_ = 0 \/ min_freq_ \in DOMAIN l
    BY <1>1 DEF LFUInv, MinFound
  <2>2. DOMAIN u # {}
    BY <1>3
  <2>3. QED  BY <2>1, <2>2, <1>2, <1>3, MinIsFound
<1>5. IsFiniteSet(DOMAIN u) /\ Cardinality(DOMAIN u) <= capacity_
  <2>1. /\ IsFiniteSet(DOMAIN d \cup {k})
        /\ Cardinality(DOMAIN d \cup {k}) = IF k \in DOMAIN d THEN Cardinality(DOMAIN d)
                                                             ELSE Cardinality(DOMAIN d) + 1
    BY <1>1, FS_AddElement
  <2>2. Cardinality(DOMAIN d) \in Nat
    BY <1>1, FS_CardinalityType
  <2>3. QED  BY <2>1, <2>2, <1>1, <1>3, CapacityAssumption
<1>6. list_iter_map_' = DOMAIN u
  BY <1>1, <1>2, <1>3 DEF LFUInv
<1>7. LFUInv'
  BY <1>2, <1>3, <1>4, <1>5, <1>6 DEF LFUInv, u, p
<1>8. QED  BY <1>1, <1>3, <1>7 DEF IsFunction, u

LEMMA GetLFU ==
    ASSUME LFUInv, NEW k \in Key, LFU!Get(k)
    PROVE  /\ LFUInv' /\ DOMAIN cache_data_' = DOMAIN cache_data_
           /\ cache_data_' = [x \in DOMAIN cache_data_' |-> cache_data_'[x]]
           /\ \A x \in DOMAIN cache_data_ : cache_data_'[x].value = cache_data_[x].value
<1> DEFINE d == cache_data_
           l == freq_lists_
           r == lfuRecent
           u == cache_data_'
           p == freq_lists_'
           t == <<k>> \o RemoveFirst(r, k)
<1>1. /\ Agree(d, l, r) /\ MinFound(d, l, min_freq_) /\ list_iter_map_ = DOMAIN d
      /\ IsFiniteSet(DOMAIN d) /\ Cardinality(DOMAIN d) <= capacity_
  BY DEF LFUInv
<1>2. /\ k \in DOMAIN d /\ p = LFU!Promote(d, l, k) /\ u = [d EXCEPT ![k].freq = @ + 1]
      /\ min_freq_' = LFU!updateMinFreq(p, min_freq_, u[k].freq)
      /\ lfuRecent' = t /\ list_iter_map_' = list_iter_map_
  BY CachesRemoveFirst DEF LFU!Get
<1> HIDE DEF d, l, r, u, p
<1>3. d[k] \in LFUEntry
  BY <1>1, <1>2 DEF Agree
<1>4. /\ IsFunction(u) /\ DOMAIN u = DOMAIN d
      /\ \A x \in DOMAIN d : x # k => u[x] = d[x]
  BY <1>2 DEF IsFunction
<1>5. u[k] = [d[k] EXCEPT !.freq = @ + 1]
  BY <1>2
<1>6. u[k] \in LFUEntry /\ u[k].freq = d[k].freq + 1 /\ u[k].value = d[k].value
  BY <1>3, <1>5 DEF LFUEntry
<1>7. /\ Agree(u, LFU!Promote(d, l, k), t)
      /\ \A n : n \in DOMAIN LFU!Promote(d, l, k) <=> n \in DOMAIN l \/ n = u[k].freq
      /\ LFU!Promote(d, l, k)[u[k].freq] # <<>>
  <2>1. /\ k \in DOMAIN d /\ Agree(d, l, r) /\ IsFunction(u) /\ DOMAIN u = DOMAIN d
        /\ \A x \in DOMAIN d : x # k => u[x] = d[x]
        /\ u[k] \in LFUEntry /\ u[k].freq = d[k].freq + 1
    BY <1>1, <1>2, <1>4, <1>6
  <2>2. QED  BY ONLY <2>1, Promoted
<1>8. MinFound(u, p, min_freq_')
  <2>1. min_freq_ = 0 \/ min_freq_ \in DOMAIN l
    BY <1>1 DEF MinFound
  <2>2. DOMAIN u # {}
    BY <1>2, <1>4
  <2>3. QED  BY <2>1, <2>2, <1>2, <1>7, MinIsFound
<1>9. LFUInv'
  BY <1>1, <1>2, <1>4, <1>7, <1>8 DEF LFUInv, u, p
<1>10. \A x \in DOMAIN d : u[x].value = d[x].value
  BY <1>4, <1>6
<1>11. QED  BY <1>4, <1>9, <1>10 DEF IsFunction, d, u

(* An empty cache. *)
LEMMA EmptyLFU ==
    ASSUME NEW d, NEW l, NEW r, d = <<>>, l = <<>>, r = <<>>
    PROVE  Agree(d, l, r) /\ MinFound(d, l, 0) /\ DOMAIN d = {}
           /\ IsFiniteSet(DOMAIN d) /\ Cardinality(DOMAIN d) <= capacity_
<1>1. DOMAIN d = {} /\ DOMAIN l = {} /\ r \in Seq(Key) /\ Len(r) = 0
  OBVIOUS
<1>2. Distinct(r) /\ (\A c : ~OnList(r, c)) /\ IsFunction(d)
  BY <1>1 DEF Distinct, OnList, IsFunction
<1>3. Agree(d, l, r)
  BY <1>1, <1>2 DEF Agree
<1>4. QED  BY <1>1, <1>3, FS_EmptySet, CapacityAssumption DEF MinFound

LEMMA InitLFU == LFU!Init => LFUInv
BY EmptyLFU DEF LFU!Init, LFUInv

LEMMA NextLFU == ASSUME LFUInv, [Next]_vars PROVE LFUInv'
<1>1. ASSUME NEW k \in Key, LFU!Get(k) PROVE LFUInv'
  BY <1>1, GetLFU
<1>2. ASSUME NEW k \in Key, NEW v \in Value, LFU!Put(k, v) PROVE LFUInv'
  BY <1>2, PutLFU
<1>3. CASE LFU!Clear
  BY <1>3, EmptyLFU DEF LFU!Clear, LFUInv
<1>4. CASE UNCHANGED lfuVars
  BY <1>4 DEF lfuVars, LFUInv
<1>5. CASE LFU!Next
  BY <1>5, <1>1, <1>2, <1>3 DEF LFU!Next
<1>6. QED  BY <1>4, <1>5 DEF Next, vars

(* LFUCache: for every capacity and any keys, the data, the lists and the   *)
(* iterators hold the same keys, each in the list of its frequency, and a   *)
(* cache that is not empty finds someone in the list of min_freq_.          *)
THEOREM LFUKeepsItsMaps == Spec => []LFUMapsAgree
<1>1. Init => LFUInv
  BY InitLFU DEF Init
<1>2. LFUInv /\ [Next]_vars => LFUInv'
  BY NextLFU
<1>3. LFUInv => LFUMapsAgree
  <2> SUFFICES ASSUME LFUInv PROVE LFUMapsAgree
    OBVIOUS
  <2> DEFINE d == cache_data_
             l == freq_lists_
  <2>1. /\ IsFunction(d)
        /\ \A k \in DOMAIN d : k \in Key /\ d[k].freq \in DOMAIN l
        /\ \A f \in DOMAIN l : l[f] \in Seq(Key) /\ Distinct(l[f])
        /\ \A f \in DOMAIN l, c \in Key : OnList(l[f], c) <=> c \in DOMAIN d /\ d[c].freq = f
        /\ list_iter_map_ = DOMAIN d /\ MinFound(d, l, min_freq_)
    BY DEF LFUInv, Agree
  <2>2. ASSUME NEW f \in DOMAIN l, NEW x \in 1 .. Len(l[f])
        PROVE  /\ l[f][x] \in DOMAIN d /\ d[l[f][x]].freq = f
               /\ \A y \in 1 .. Len(l[f]) : l[f][y] = l[f][x] => y = x
    <3>1. l[f][x] \in Key /\ OnList(l[f], l[f][x])
      BY <2>1, ElementOfSeq DEF OnList
    <3>2. QED  BY <3>1, <2>1 DEF Distinct
  <2>3. ASSUME NEW k \in DOMAIN d
        PROVE  d[k].freq \in DOMAIN l /\ LFU!Contains(l[d[k].freq], k)
    <3>1. d[k].freq \in DOMAIN l /\ OnList(l[d[k].freq], k)
      BY <2>1
    <3>2. QED  BY <3>1 DEF OnList, LFU!Contains
  <2>4. LFU!MapsAgree
    BY <2>1, <2>2, <2>3 DEF LFU!MapsAgree
  <2>5. LFU!SomethingToEvict
    <3>1. d # <<>> => DOMAIN d # {}
      BY <2>1 DEF IsFunction
    <3>2. QED  BY <3>1, <2>1 DEF LFU!SomethingToEvict, MinFound
  <2>6. QED  BY <2>4, <2>5 DEF LFUMapsAgree
<1>4. QED  BY <1>1, <1>2, <1>3, PTL DEF Spec

(* LFUCache: of the keys of a frequency, put() evicts the one used longest  *)
(* ago.                                                                     *)
THEOREM LFUDropsTheOldest == Spec => LFUEvictsTheOldest
<1> DEFINE A == \A k \in LFU!Leaving : \A x \in DOMAIN cache_data_ :
                  x # k /\ cache_data_[x].freq = cache_data_[k].freq => LFU!Before(x, k)
<1>1. LFUInv /\ [Next]_vars => [A]_(LFU!vars)
  <2> SUFFICES ASSUME LFUInv, [Next]_vars PROVE [A]_(LFU!vars)
    OBVIOUS
  <2>1. ASSUME NEW k \in Key, LFU!Get(k) PROVE A
    <3>1. LFU!Leaving = {}
      BY <2>1, GetLFU DEF LFU!Leaving
    <3>2. QED  BY <3>1
  <2>2. ASSUME NEW k \in Key, NEW v \in Value, LFU!Put(k, v) PROVE A
    <3> SUFFICES ASSUME NEW g \in LFU!Leaving, NEW x \in DOMAIN cache_data_, x # g,
                        cache_data_[x].freq = cache_data_[g].freq
                 PROVE  LFU!Before(x, g)
      OBVIOUS
    <3>1. g \in LFU!Evicted
      BY <2>2, PutLFU DEF LFU!Leaving
    <3> DEFINE s == freq_lists_[min_freq_]
    <3>2. /\ g = Last(s) /\ min_freq_ \in DOMAIN freq_lists_ /\ s # <<>>
          /\ g \in DOMAIN cache_data_ /\ cache_data_[g].freq = min_freq_
      BY <3>1, RoomIsMade
    <3>3. /\ s \in Seq(Key) /\ Distinct(s) /\ x \in Key /\ g \in Key /\ OnList(s, x)
          /\ Older(s, x, g) => Older(lfuRecent, x, g)
      BY <3>2 DEF LFUInv, Agree
    <3>4. Older(s, x, g)
      BY <3>2, <3>3, LastLeaves
    <3>5. QED  BY <3>3, <3>4 DEF Older, LFU!Before
  <2>3. CASE LFU!Clear
    BY <2>3 DEF LFU!Clear, LFU!Leaving
  <2>4. CASE UNCHANGED lfuVars
    BY <2>4 DEF lfuVars, LFU!vars
  <2>5. CASE LFU!Next
    BY <2>5, <2>1, <2>2, <2>3 DEF LFU!Next
  <2>6. QED  BY <2>4, <2>5 DEF Next, vars
<1>2. Init => LFUInv
  BY InitLFU DEF Init
<1>3. LFUInv /\ [Next]_vars => LFUInv'
  BY NextLFU
<1>4. QED
  BY <1>1, <1>2, <1>3, PTL DEF Spec, LFUEvictsTheOldest, LFU!EvictsTheOldest

(* LFUCache: it, too, is the cache CachePolicy describes, for every         *)
(* capacity and any keys.                                                   *)
THEOREM LFUImplementsCache == Spec => LFUCacheSpec
<1>1. Init => LFU!Cache!Init
  <2>1. SUFFICES ASSUME LFU!Init PROVE LFU!Contents = <<>> /\ lfuLast = <<>>
    BY DEF Init, LFU!Cache!Init
  <2>2. QED  BY <2>1 DEF LFU!Init, LFU!Contents
<1>2. LFUInv /\ [Next]_vars => [LFU!Cache!Next]_<<LFU!Contents, lfuLast>>
  <2> SUFFICES ASSUME LFUInv, [Next]_vars
               PROVE  [LFU!Cache!Next]_<<LFU!Contents, lfuLast>>
    OBVIOUS
  <2> DEFINE old == LFU!Contents
             new == LFU!Contents'
  <2>1. /\ old = [x \in DOMAIN cache_data_ |-> cache_data_[x].value]
        /\ new = [x \in DOMAIN cache_data_' |-> cache_data_'[x].value]
        /\ DOMAIN old = DOMAIN cache_data_ /\ DOMAIN new = DOMAIN cache_data_'
    BY DEF LFU!Contents
  <2>2. \A q : LFU!Cache!Cardinality(q) = Cardinality(q)
    BY DEF LFU!Cache!Cardinality, Cardinality
  <2>3. ASSUME NEW k \in Key, LFU!Get(k) PROVE LFU!Cache!Get(k)
    <3>1. k \in DOMAIN cache_data_ /\ lfuLast' = <<k, cache_data_[k].value>>
      BY <2>3 DEF LFU!Get
    <3>2. /\ DOMAIN cache_data_' = DOMAIN cache_data_
          /\ \A x \in DOMAIN cache_data_ : cache_data_'[x].value = cache_data_[x].value
      BY <2>3, GetLFU
    <3>3. new = old
      BY <2>1, <3>2
    <3>4. QED  BY <2>1, <3>1, <3>3 DEF LFU!Cache!Get
  <2>4. ASSUME NEW k \in Key, NEW v \in Value, LFU!Put(k, v) PROVE LFU!Cache!Put(k, v)
    <3> DEFINE gone == LFU!Evicted
    <3>1. /\ DOMAIN cache_data_' = (DOMAIN cache_data_ \ gone) \cup {k}
          /\ cache_data_'[k].value = v
          /\ \A x \in DOMAIN cache_data_' : x # k => cache_data_'[x] = cache_data_[x]
          /\ Cardinality(DOMAIN cache_data_') <= capacity_
      BY <2>4, PutLFU DEF LFUInv
    <3>2. /\ gone \subseteq DOMAIN cache_data_
          /\ gone # {} => Cardinality(DOMAIN cache_data_) = capacity_
      BY RoomIsMade
    <3>3. Cardinality(gone) <= 1
      <4>1. gone = {} \/ gone = {Last(freq_lists_[min_freq_])}
        BY RoomIsMade
      <4>2. Cardinality({}) = 0 /\ Cardinality({Last(freq_lists_[min_freq_])}) = 1
        BY FS_EmptySet, FS_Singleton
      <4> HIDE DEF gone
      <4>3. QED  BY <4>1, <4>2
    <3> HIDE DEF gone
    <3>4. new = [x \in (DOMAIN old \ gone) \cup {k} |-> IF x = k THEN v ELSE old[x]]
      BY <2>1, <3>1, <3>2
    <3>5. lfuLast' = <<k, v>>
      BY <2>4 DEF LFU!Put
    <3>6. QED  BY <2>1, <2>2, <3>1, <3>2, <3>3, <3>4, <3>5 DEF LFU!Cache!Put
  <2>5. CASE LFU!Clear
    <3>1. LFU!Contents' = <<>> /\ lfuLast' = <<>>
      BY <2>5 DEF LFU!Clear, LFU!Contents
    <3>2. QED  BY <3>1 DEF LFU!Cache!Next, LFU!Cache!Clear
  <2>6. CASE UNCHANGED lfuVars
    BY <2>6 DEF lfuVars, LFU!Contents
  <2>7. CASE LFU!Next
    BY <2>7, <2>3, <2>4, <2>5 DEF LFU!Next, LFU!Cache!Next
  <2>8. QED  BY <2>6, <2>7 DEF Next, vars
<1>3. Init => LFUInv
  BY InitLFU DEF Init
<1>4. LFUInv /\ [Next]_vars => LFUInv'
  BY NextLFU
<1>5. QED
  BY <1>1, <1>2, <1>3, <1>4, PTL DEF Spec, LFUCacheSpec, LFU!CacheSpec, LFU!Cache!Spec

----------------------------------------------------------------------------
(* minWindow(): u and w are the strings s and t, p and q the ends of the    *)
(* window.                                                                  *)
Part(u, p, q)      == {u[x] : x \in p + 1 .. q}
Places(u, c, p, q) == {x \in p + 1 .. q : u[x] = c}
Covers(u, w, p, q) == w \subseteq Part(u, p, q)

(* There are finitely many characters, and a length fits an int. *)
WindowAssumption == IsFiniteSet(Heights) /\ MaxSize < Window!INT_MAX

(* counts and val are those of the window, which has covered w neither now  *)
(* nor before from p on, and what begins before p is no shorter than n.     *)
WindowLoop(u, w, p, q, counts, val, st, n) ==
    /\ u \in Seq(Heights) /\ Len(u) <= MaxSize
    /\ w \subseteq Heights /\ w # {} /\ IsFiniteSet(w)
    /\ p \in Nat /\ q \in Nat /\ p <= q /\ q <= Len(u)
    /\ counts = [c \in w |-> Cardinality(Places(u, c, p, q))]
    /\ val = Cardinality(w \cap Part(u, p, q))
    /\ n \in Nat
    /\ n # Window!INT_MAX => st \in Nat /\ st + n <= q /\ Covers(u, w, st, st + n)
    /\ \A x \in 0 .. p - 1 : q - x >= n /\ \A y \in 0 .. q : Covers(u, w, x, y) => y - x >= n
    /\ \A y \in 0 .. q - 1 : ~Covers(u, w, p, y)

WindowInv ==
    used = "Windows" =>
      /\ stage \in {"idle", "loop", "returned"}
      /\ stage = "idle" => /\ left = 0 /\ right = 0 /\ valid = 0
                           /\ start = 0 /\ len = Window!INT_MAX
      /\ stage = "loop" => WindowLoop(Window!s, Window!t, left, right, window, valid, start, len)
      /\ stage = "returned" => Window!WindowIsSmallest

LEMMA PlacesCounted ==
    ASSUME NEW u, NEW c, NEW p \in Nat, NEW q \in Nat, p <= q
    PROVE  /\ IsFiniteSet(Places(u, c, p, q)) /\ Cardinality(Places(u, c, p, q)) \in Nat
           /\ c \in Part(u, p, q) <=> Cardinality(Places(u, c, p, q)) # 0
           /\ Cardinality(Places(u, c, p, q + 1))
                = Cardinality(Places(u, c, p, q)) + IF u[q + 1] = c THEN 1 ELSE 0
           /\ p < q => Cardinality(Places(u, c, p + 1, q))
                         = Cardinality(Places(u, c, p, q)) - IF u[p + 1] = c THEN 1 ELSE 0
<1> DEFINE P == Places(u, c, p, q)
<1>1. IsFiniteSet(P) /\ Cardinality(P) \in Nat
  <2>1. p + 1 \in Int /\ q \in Int
    OBVIOUS
  <2>2. IsFiniteSet(p + 1 .. q)
    BY <2>1, FS_Interval
  <2>3. P \subseteq p + 1 .. q
    BY DEF Places
  <2>4. QED  BY <2>2, <2>3, FS_Subset, FS_CardinalityType
<1>2. c \in Part(u, p, q) <=> Cardinality(P) # 0
  <2>1. c \in Part(u, p, q) <=> P # {}
    BY DEF Part, Places
  <2>2. QED  BY <2>1, <1>1, FS_EmptySet
<1>3. Cardinality(Places(u, c, p, q + 1)) = Cardinality(P) + IF u[q + 1] = c THEN 1 ELSE 0
  <2>1. q + 1 \notin P
    BY DEF Places
  <2>2. \A x : x \in p + 1 .. q + 1 <=> x \in p + 1 .. q \/ x = q + 1
    OBVIOUS
  <2>3. CASE u[q + 1] = c
    <3>1. Places(u, c, p, q + 1) = P \cup {q + 1}
      BY <2>2, <2>3 DEF Places
    <3>2. QED  BY <3>1, <2>1, <2>3, <1>1, FS_AddElement
  <2>4. CASE u[q + 1] # c
    <3>1. Places(u, c, p, q + 1) = P
      BY <2>2, <2>4 DEF Places
    <3>2. QED  BY <3>1, <2>4, <1>1
  <2>5. QED  BY <2>3, <2>4
<1>4. ASSUME p < q
      PROVE  Cardinality(Places(u, c, p + 1, q)) = Cardinality(P) - IF u[p + 1] = c THEN 1 ELSE 0
  <2>1. \A x : x \in p + 1 + 1 .. q <=> x \in p + 1 .. q /\ x # p + 1
    OBVIOUS
  <2>2. CASE u[p + 1] = c
    <3>1. Places(u, c, p + 1, q) = P \ {p + 1} /\ p + 1 \in P
      BY <2>1, <2>2, <1>4 DEF Places
    <3>2. QED  BY <3>1, <2>2, <1>1, FS_RemoveElement
  <2>3. CASE u[p + 1] # c
    <3>1. Places(u, c, p + 1, q) = P
      BY <2>1, <2>3 DEF Places
    <3>2. QED  BY <3>1, <2>3, <1>1
  <2>4. QED  BY <2>2, <2>3
<1>5. QED  BY <1>1, <1>2, <1>3, <1>4 DEF P

LEMMA Wider ==
    ASSUME NEW u, NEW w, NEW p \in Nat, NEW q \in Nat, NEW x \in Nat, NEW y \in Nat,
           x <= p, q <= y, Covers(u, w, p, q)
    PROVE  Covers(u, w, x, y)
<1>1. p + 1 .. q \subseteq x + 1 .. y
  OBVIOUS
<1>2. QED  BY <1>1 DEF Covers, Part

LEMMA CoversByCounts ==
    ASSUME NEW u, NEW w, NEW p, NEW q, IsFiniteSet(w)
    PROVE  /\ Covers(u, w, p, q) <=> Cardinality(w \cap Part(u, p, q)) = Cardinality(w)
           /\ IsFiniteSet(w \cap Part(u, p, q)) /\ Cardinality(w \cap Part(u, p, q)) \in Nat
<1> DEFINE r == w \cap Part(u, p, q)
<1>1. r \in SUBSET w
  OBVIOUS
<1>2. IsFiniteSet(r) /\ Cardinality(r) \in Nat /\ (Cardinality(w) = Cardinality(r) => w = r)
  BY <1>1, FS_Subset, FS_CardinalityType
<1>3. Covers(u, w, p, q) <=> w = r
  BY DEF Covers
<1>4. QED  BY <1>2, <1>3

(* The next character enters the window. *)
LEMMA GrowWindow ==
    ASSUME NEW u, NEW w, NEW p, NEW q, NEW f, NEW m, NEW st, NEW n,
           WindowLoop(u, w, p, q, f, m, st, n), m # Cardinality(w), q < Len(u),
           NEW g, g = (IF u[q + 1] \in w THEN [f EXCEPT ![u[q + 1]] = @ + 1] ELSE f),
           NEW v, v = (IF u[q + 1] \in w /\ g[u[q + 1]] = 1 THEN m + 1 ELSE m)
    PROVE  WindowLoop(u, w, p, q + 1, g, v, st, n)
<1> DEFINE c == u[q + 1]
           seenIn == w \cap Part(u, p, q)
           seenOut == w \cap Part(u, p, q + 1)
<1>1. /\ u \in Seq(Heights) /\ Len(u) <= MaxSize
      /\ w \subseteq Heights /\ w # {} /\ IsFiniteSet(w)
      /\ p \in Nat /\ q \in Nat /\ p <= q /\ q <= Len(u)
      /\ f = [e \in w |-> Cardinality(Places(u, e, p, q))]
      /\ m = Cardinality(seenIn) /\ n \in Nat
      /\ n # Window!INT_MAX => st \in Nat /\ st + n <= q /\ Covers(u, w, st, st + n)
      /\ \A x \in 0 .. p - 1 : q - x >= n /\ \A y \in 0 .. q : Covers(u, w, x, y) => y - x >= n
      /\ \A y \in 0 .. q - 1 : ~Covers(u, w, p, y)
  BY DEF WindowLoop
<1>2. ~Covers(u, w, p, q) /\ IsFiniteSet(seenIn) /\ m \in Nat
  BY <1>1, CoversByCounts
<1>3. Len(u) \in Nat
  BY <1>1, LenProperties
<1>4. \A e \in w :
        /\ f[e] = Cardinality(Places(u, e, p, q)) /\ f[e] \in Nat
        /\ e \in Part(u, p, q) <=> f[e] # 0
        /\ Cardinality(Places(u, e, p, q + 1)) = f[e] + IF c = e THEN 1 ELSE 0
  BY <1>1, PlacesCounted
<1>5. g = [e \in w |-> Cardinality(Places(u, e, p, q + 1))]
  <2>1. DOMAIN g = w /\ g = [e \in w |-> g[e]]
    BY <1>1
  <2>2. \A e \in w : g[e] = f[e] + IF c = e THEN 1 ELSE 0
    BY <1>1, <1>4
  <2>3. QED  BY <2>1, <2>2, <1>4
<1>6. Part(u, p, q + 1) = Part(u, p, q) \cup {c}
  <2>1. \A x : x \in p + 1 .. q + 1 <=> x \in p + 1 .. q \/ x = q + 1
    BY <1>1
  <2>2. QED  BY <2>1 DEF Part
<1>7. v = Cardinality(seenOut)
  <2>1. CASE c \in w
    <3>1. seenOut = seenIn \cup {c}
      BY <2>1, <1>6
    <3>2. Cardinality(seenOut) = IF c \in seenIn THEN m ELSE m + 1
      BY <3>1, <1>1, <1>2, FS_AddElement
    <3>3. c \in seenIn <=> f[c] # 0
      BY <2>1, <1>4
    <3>4. g[c] = f[c] + 1 /\ f[c] \in Nat
      BY <2>1, <1>1, <1>4
    <3>5. QED  BY <3>2, <3>3, <3>4, <2>1
  <2>2. CASE c \notin w
    <3>1. seenOut = seenIn
      BY <2>2, <1>6
    <3>2. QED  BY <3>1, <2>2, <1>1
  <2>3. QED  BY <2>1, <2>2
<1>8. \A y \in 0 .. q : ~Covers(u, w, p, y)
  <2>1. \A y \in 0 .. q : y = q \/ y \in 0 .. q - 1
    BY <1>1
  <2>2. QED  BY <2>1, <1>1, <1>2
<1>9. \A y \in 0 .. q + 1 - 1 : ~Covers(u, w, p, y)
  <2>1. q + 1 - 1 = q  BY <1>1
  <2>2. QED  BY <2>1, <1>8
<1>10. ASSUME NEW x \in 0 .. p - 1
       PROVE  q + 1 - x >= n /\ \A y \in 0 .. q + 1 : Covers(u, w, x, y) => y - x >= n
  <2>1. q - x >= n /\ \A y \in 0 .. q : Covers(u, w, x, y) => y - x >= n
    BY <1>1
  <2>2. q + 1 - x >= n
    BY <2>1, <1>1
  <2>3. \A y \in 0 .. q + 1 : y = q + 1 \/ y \in 0 .. q
    BY <1>1
  <2>4. ASSUME NEW y \in 0 .. q + 1, Covers(u, w, x, y) PROVE y - x >= n
    <3>1. CASE y = q + 1
      BY <3>1, <2>2, <1>1
    <3>2. CASE y \in 0 .. q
      BY <3>2, <2>1, <2>4
    <3>3. QED  BY <3>1, <3>2, <2>3
  <2>5. QED  BY <2>2, <2>4
<1>11. q + 1 \in Nat /\ p <= q + 1 /\ q + 1 <= Len(u)
  BY <1>1, <1>3
<1>12. n # Window!INT_MAX => st \in Nat /\ st + n <= q + 1 /\ Covers(u, w, st, st + n)
  BY <1>1
<1>13. QED
  BY <1>1, <1>5, <1>7, <1>9, <1>10, <1>11, <1>12 DEF WindowLoop

(* A window that covers w is compared, and its first character leaves it. *)
LEMMA ShrinkWindow ==
    ASSUME NEW u, NEW w, NEW p, NEW q, NEW f, NEW m, NEW st, NEW n,
           WindowLoop(u, w, p, q, f, m, st, n), m = Cardinality(w),
           NEW st2, NEW n2,
           IF q - p < n THEN st2 = p /\ n2 = q - p ELSE st2 = st /\ n2 = n,
           NEW g, g = (IF u[p + 1] \in w THEN [f EXCEPT ![u[p + 1]] = @ - 1] ELSE f),
           NEW v, v = (IF u[p + 1] \in w /\ g[u[p + 1]] = 0 THEN m - 1 ELSE m)
    PROVE  WindowLoop(u, w, p + 1, q, g, v, st2, n2)
<1> DEFINE c == u[p + 1]
           seenIn == w \cap Part(u, p, q)
           seenOut == w \cap Part(u, p + 1, q)
<1>1. /\ u \in Seq(Heights) /\ Len(u) <= MaxSize
      /\ w \subseteq Heights /\ w # {} /\ IsFiniteSet(w)
      /\ p \in Nat /\ q \in Nat /\ p <= q /\ q <= Len(u)
      /\ f = [e \in w |-> Cardinality(Places(u, e, p, q))]
      /\ m = Cardinality(seenIn) /\ n \in Nat
      /\ n # Window!INT_MAX => st \in Nat /\ st + n <= q /\ Covers(u, w, st, st + n)
      /\ \A x \in 0 .. p - 1 : q - x >= n /\ \A y \in 0 .. q : Covers(u, w, x, y) => y - x >= n
      /\ \A y \in 0 .. q - 1 : ~Covers(u, w, p, y)
  BY DEF WindowLoop
<1>2. Covers(u, w, p, q) /\ IsFiniteSet(seenIn) /\ m \in Nat
  <2>1. /\ Covers(u, w, p, q) <=> Cardinality(w \cap Part(u, p, q)) = Cardinality(w)
        /\ IsFiniteSet(w \cap Part(u, p, q)) /\ Cardinality(w \cap Part(u, p, q)) \in Nat
    <3>1. IsFiniteSet(w)  BY <1>1
    <3>2. QED  BY ONLY <3>1, CoversByCounts
  <2>2. m = Cardinality(w \cap Part(u, p, q))  BY <1>1
  <2>3. QED  BY <2>1, <2>2
<1>3. p < q
  <2>1. SUFFICES ASSUME p = q PROVE FALSE
    BY <1>1
  <2>2. Part(u, p, q) = {}
    BY <2>1, <1>1 DEF Part
  <2>3. QED  BY <2>2, <1>1, <1>2 DEF Covers
<1>4. \A e \in w :
        /\ f[e] = Cardinality(Places(u, e, p, q)) /\ f[e] \in Nat
        /\ Cardinality(Places(u, e, p + 1, q)) = f[e] - IF c = e THEN 1 ELSE 0
  BY <1>1, <1>3, PlacesCounted
<1>5. p + 1 \in Nat /\ p + 1 <= q
  BY <1>1, <1>3
<1>6. g = [e \in w |-> Cardinality(Places(u, e, p + 1, q))]
  <2>1. DOMAIN g = w /\ g = [e \in w |-> g[e]]
    BY <1>1
  <2>2. \A e \in w : g[e] = f[e] - IF c = e THEN 1 ELSE 0
    BY <1>1, <1>4
  <2>3. \A e \in w : g[e] = Cardinality(Places(u, e, p + 1, q))
    BY ONLY <2>2, <1>4
  <2>4. QED  BY ONLY <2>1, <2>3
<1>7. \A e \in w : e \in Part(u, p + 1, q) <=> g[e] # 0
  <2>1. \A e \in w : e \in Part(u, p + 1, q) <=> Cardinality(Places(u, e, p + 1, q)) # 0
    <3>1. q \in Nat  BY <1>1
    <3>2. QED  BY ONLY <1>5, <3>1, PlacesCounted
  <2>2. QED  BY <2>1, <1>6
<1>8. \A e : e \in Part(u, p, q) <=> e = c \/ e \in Part(u, p + 1, q)
  <2>1. \A x : x \in p + 1 .. q <=> x = p + 1 \/ x \in p + 1 + 1 .. q
    BY <1>1, <1>3
  <2>2. QED  BY <2>1 DEF Part
<1>9. v = Cardinality(seenOut)
  <2>1. CASE c \in w /\ g[c] = 0
    <3>1. c \notin Part(u, p + 1, q)
      BY <2>1, <1>7
    <3>2. seenOut = seenIn \ {c} /\ c \in seenIn
      BY <3>1, <2>1, <1>8
    <3>3. Cardinality(seenOut) = Cardinality(seenIn) - 1
      BY ONLY <3>2, <1>2, FS_RemoveElement
    <3>4. QED  BY <3>3, <2>1, <1>1
  <2>2. CASE ~(c \in w /\ g[c] = 0)
    <3>1. c \in w => c \in Part(u, p + 1, q)
      BY <2>2, <1>7
    <3>2. seenOut = seenIn
      BY <3>1, <1>8
    <3>3. QED  BY <3>2, <2>2, <1>1
  <2>3. QED  BY <2>1, <2>2
<1>10. n2 \in Nat /\ n2 <= n /\ q - p >= n2
  BY <1>1, <1>3
<1>11. n2 # Window!INT_MAX => st2 \in Nat /\ st2 + n2 <= q /\ Covers(u, w, st2, st2 + n2)
  <2>1. CASE q - p < n
    <3>1. st2 = p /\ n2 = q - p /\ st2 + n2 = q
      BY <2>1, <1>1
    <3>2. QED  BY <3>1, <1>1, <1>2
  <2>2. CASE ~(q - p < n)
    BY <2>2, <1>1
  <2>3. QED  BY <2>1, <2>2
<1>12. ASSUME NEW x \in 0 .. p + 1 - 1
       PROVE  q - x >= n2 /\ \A y \in 0 .. q : Covers(u, w, x, y) => y - x >= n2
  <2>1. CASE x = p
    <3>1. \A y \in 0 .. q : y = q \/ y \in 0 .. q - 1
      BY <1>1
    <3>2. \A y \in 0 .. q : Covers(u, w, p, y) => y = q
      BY <3>1, <1>1
    <3>3. QED  BY <3>2, <2>1, <1>10
  <2>2. CASE x \in 0 .. p - 1
    <3>1. q - x >= n /\ \A y \in 0 .. q : Covers(u, w, x, y) => y - x >= n
      BY <2>2, <1>1
    <3>2. \A y \in 0 .. q : y - x >= n => y - x >= n2
      BY <1>1, <1>10
    <3>3. q - x >= n2
      BY <3>1, <1>1, <1>10
    <3>4. QED  BY <3>1, <3>2, <3>3
  <2>3. x = p \/ x \in 0 .. p - 1
    BY <1>1
  <2>4. QED  BY <2>1, <2>2, <2>3
<1>13. \A y \in 0 .. q - 1 : ~Covers(u, w, p + 1, y)
  <2>1. SUFFICES ASSUME NEW y \in 0 .. q - 1, Covers(u, w, p + 1, y) PROVE FALSE
    OBVIOUS
  <2>2. y \in Nat /\ p <= p + 1 /\ y <= y
    BY <1>1
  <2>3. Covers(u, w, p, y)
    BY <2>1, <2>2, <1>1, <1>5, Wider
  <2>4. QED  BY <2>3, <1>1
<1>14. QED
  BY <1>1, <1>5, <1>6, <1>9, <1>10, <1>11, <1>12, <1>13 DEF WindowLoop

(* What begins from p on does not cover w either. *)
LEMMA ShortestSoFar ==
    ASSUME NEW u, NEW w, NEW p, NEW q, NEW f, NEW m, NEW st, NEW n,
           WindowLoop(u, w, p, q, f, m, st, n), m # Cardinality(w)
    PROVE  /\ m = Cardinality(Part(u, p, q) \cap w)
           /\ \A x \in 0 .. q, y \in 0 .. q : Covers(u, w, x, y) => y - x >= n
<1>1. /\ IsFiniteSet(w) /\ p \in Nat /\ q \in Nat /\ p <= q
      /\ m = Cardinality(w \cap Part(u, p, q)) /\ n \in Nat
      /\ \A x \in 0 .. p - 1 : q - x >= n /\ \A y \in 0 .. q : Covers(u, w, x, y) => y - x >= n
  BY DEF WindowLoop
<1>2. ~Covers(u, w, p, q)
  BY <1>1, CoversByCounts
<1>3. ASSUME NEW x \in 0 .. q, NEW y \in 0 .. q, Covers(u, w, x, y) PROVE y - x >= n
  <2>1. x \in Nat /\ y \in Nat /\ y <= q
    BY <1>1
  <2>2. CASE p <= x
    <3>1. Covers(u, w, p, q)
      BY <2>1, <2>2, <1>1, <1>3, Wider
    <3>2. QED  BY <3>1, <1>2
  <2>3. CASE ~(p <= x)
    <3>1. x \in 0 .. p - 1
      BY <2>1, <2>3, <1>1
    <3>2. QED  BY <3>1, <1>1, <1>3
  <2>4. QED  BY <2>2, <2>3
<1>4. Part(u, p, q) \cap w = w \cap Part(u, p, q)
  OBVIOUS
<1>5. QED  BY <1>1, <1>3, <1>4

(* What is returned at the end of u: the shortest piece, or nothing when    *)
(* no piece covers w.                                                       *)
PieceFound(u, st, n) == IF n = Window!INT_MAX THEN <<>> ELSE SubSeq(u, st + 1, st + n)

LEMMA AnswerOfLoop ==
    ASSUME NEW u, NEW w, NEW p, NEW q, NEW f, NEW m, NEW st, NEW n,
           WindowAssumption, WindowLoop(u, w, p, q, f, m, st, n), m # Cardinality(w),
           q = Len(u)
    PROVE  /\ Covers(u, w, 0, q) =>
                /\ Len(PieceFound(u, st, n)) = n
                /\ \A c \in w : \E x \in DOMAIN PieceFound(u, st, n) : PieceFound(u, st, n)[x] = c
           /\ ~Covers(u, w, 0, q) => PieceFound(u, st, n) = <<>>
<1> DEFINE r == PieceFound(u, st, n)
<1>0. r = (IF n = Window!INT_MAX THEN <<>> ELSE SubSeq(u, st + 1, st + n))
  BY DEF PieceFound
<1> HIDE DEF r
<1>1. /\ u \in Seq(Heights) /\ Len(u) <= MaxSize /\ q \in Nat /\ n \in Nat
      /\ n # Window!INT_MAX => st \in Nat /\ st + n <= q /\ Covers(u, w, st, st + n)
  BY DEF WindowLoop
<1>2. MaxSize \in Nat /\ MaxSize < Window!INT_MAX /\ Window!INT_MAX \in Nat
  BY InputAssumption DEF WindowAssumption, Window!INT_MAX
<1>3. CASE n = Window!INT_MAX
  <2>1. r = <<>>
    BY <1>0, <1>3
  <2>2. ASSUME Covers(u, w, 0, q) PROVE FALSE
    <3>1. 0 \in 0 .. q /\ q \in 0 .. q
      BY <1>1
    <3>2. q - 0 >= n
      BY <3>1, <2>2, ShortestSoFar
    <3>3. QED  BY <3>2, <1>1, <1>2, <1>3
  <2>3. QED  BY <2>1, <2>2 DEF r
<1>4. CASE n # Window!INT_MAX
  <2>1. st \in Nat /\ st + n <= q /\ Covers(u, w, st, st + n) /\ st + n \in Nat
    BY <1>1, <1>4
  <2>2. Covers(u, w, 0, q)
    BY <2>1, <1>1, Wider
  <2>3. \A x \in st + 1 .. st + n : u[x] \in Heights
    <3>1. \A x \in st + 1 .. st + n : x \in 1 .. Len(u)
      BY <2>1, <1>1
    <3>2. QED  BY <3>1, <1>1, ElementOfSeq
  <2>4. r = SubSeq(u, st + 1, st + n)
    BY <1>0, <1>4
  <2>5. /\ Len(r) = (IF st + 1 <= st + n THEN (st + n) - (st + 1) + 1 ELSE 0)
        /\ r \in Seq(Heights)
        /\ \A x \in 1 .. (st + n) - (st + 1) + 1 : r[x] = u[(st + 1) + x - 1]
    <3>1. st + 1 \in Int /\ st + n \in Int
      BY <2>1
    <3>2. QED  BY ONLY <3>1, <2>3, <2>4, SubSeqProperties
  <2>6. Len(r) = n /\ DOMAIN r = 1 .. n
    <3>1. Len(r) = n
      BY <2>1, <2>5, <1>1
    <3>2. QED  BY <3>1, <2>5, LenProperties
  <2>7. ASSUME NEW c \in w PROVE \E x \in DOMAIN r : r[x] = c
    <3>1. PICK x \in st + 1 .. st + n : u[x] = c
      BY <2>1 DEF Covers, Part
    <3>2. /\ x - st \in 1 .. n /\ x - st \in 1 .. (st + n) - (st + 1) + 1
          /\ (st + 1) + (x - st) - 1 = x
      BY <2>1, <1>1
    <3>3. r[x - st] = c
      BY <3>1, <3>2, <2>5
    <3>4. QED  BY <3>2, <3>3, <2>6
  <2>8. QED  BY <2>2, <2>6, <2>7 DEF r
<1>5. QED  BY <1>3, <1>4 DEF r

LEMMA WindowStarts ==
    ASSUME WindowAssumption, NEW w \in (SUBSET Heights) \ {{}},
           NEW u \in Window!BoundedSeq(Heights, MaxSize)
    PROVE  WindowLoop(u, w, 0, 0, [c \in w |-> 0], 0, 0, Window!INT_MAX)
<1>1. MaxSize \in Nat /\ IsFiniteSet(w) /\ w \subseteq Heights /\ w # {}
  <2>1. IsFiniteSet(Heights) /\ w \in SUBSET Heights /\ w # {}
    BY DEF WindowAssumption
  <2>2. IsFiniteSet(w)
    BY ONLY <2>1, FS_Subset
  <2>3. QED  BY <2>1, <2>2, InputAssumption
<1>2. u \in Seq(Heights) /\ Len(u) \in Nat /\ Len(u) <= MaxSize
  <2>1. PICK k \in 0 .. MaxSize : u \in [1 .. k -> Heights]
    BY DEF Window!BoundedSeq, Window!SeqOf
  <2>2. QED  BY <2>1, <1>1
<1>3. Part(u, 0, 0) = {} /\ \A c : Places(u, c, 0, 0) = {}
  BY DEF Part, Places
<1>4. Cardinality({}) = 0
  BY FS_EmptySet
<1>5. w \cap Part(u, 0, 0) = {} /\ 0 .. 0 - 1 = {}
  BY <1>3
<1>6. Window!INT_MAX \in Nat
  BY DEF Window!INT_MAX
<1>7. [c \in w |-> 0] = [c \in w |-> Cardinality(Places(u, c, 0, 0))]
  BY <1>3, <1>4
<1>8. /\ \A x \in 0 .. 0 - 1 :
           0 - x >= Window!INT_MAX /\ \A y \in 0 .. 0 : Covers(u, w, x, y) => y - x >= Window!INT_MAX
      /\ \A y \in 0 .. 0 - 1 : ~Covers(u, w, 0, y)
  BY <1>5
<1>9. 0 = Cardinality(w \cap Part(u, 0, 0)) /\ 0 \in Nat /\ 0 <= 0
  BY <1>4, <1>5
<1>10. QED  BY <1>1, <1>2, <1>6, <1>7, <1>8, <1>9 DEF WindowLoop

LEMMA StepOfWindow == ASSUME WindowAssumption, WindowInv, used = "Windows", Window!Next PROVE WindowInv'
<1> DEFINE Loop == WindowLoop(Window!s, Window!t, left, right, window, valid, start, len)
<1>0. /\ stage = "idle" => /\ left = 0 /\ right = 0 /\ valid = 0
                           /\ start = 0 /\ len = Window!INT_MAX
      /\ stage = "loop" => Loop
  BY DEF WindowInv
<1>c. \A S : Window!Cardinality(S) = Cardinality(S)
  BY DEF Window!Cardinality, Cardinality
<1>1. CASE Window!minWindow
  <2>1. PICK w \in (SUBSET Heights) \ {{}}, u \in Window!BoundedSeq(Heights, MaxSize) :
          input' = <<u, w>> /\ window' = [c \in w |-> 0]
    BY <1>1 DEF Window!minWindow
  <2>2. /\ stage' = "loop" /\ left' = 0 /\ right' = 0 /\ valid' = 0
        /\ start' = 0 /\ len' = Window!INT_MAX
    BY <1>0, <1>1 DEF Window!minWindow
  <2>3. Window!s' = u /\ Window!t' = w
    BY <2>1 DEF Window!s, Window!t
  <2>4. WindowLoop(u, w, 0, 0, [c \in w |-> 0], 0, 0, Window!INT_MAX)
    BY WindowStarts
  <2>5. Loop'
    BY <2>1, <2>2, <2>3, <2>4
  <2>6. QED  BY <2>2, <2>5 DEF WindowInv
<1>2. CASE Window!Grow
  <2>1. /\ stage = "loop" /\ stage' = "loop" /\ valid # Cardinality(Window!t) /\ right < Len(Window!s)
        /\ Window!s' = Window!s /\ Window!t' = Window!t
        /\ left' = left /\ right' = right + 1 /\ start' = start /\ len' = len
    BY <1>2, <1>c DEF Window!Grow, Window!s, Window!t
  <2>2. /\ window' = (IF Window!s[right + 1] \in Window!t
                      THEN [window EXCEPT ![Window!s[right + 1]] = @ + 1] ELSE window)
        /\ valid' = (IF Window!s[right + 1] \in Window!t /\ window'[Window!s[right + 1]] = 1
                     THEN valid + 1 ELSE valid)
    BY <1>2 DEF Window!Grow
  <2>3. WindowLoop(Window!s, Window!t, left, right + 1, window', valid', start, len)
    BY <1>0, <2>1, <2>2, GrowWindow
  <2>4. Loop'
    BY <2>1, <2>3
  <2>5. QED  BY <2>1, <2>4 DEF WindowInv
<1>3. CASE Window!Shrink
  <2>1. /\ stage = "loop" /\ stage' = "loop" /\ valid = Cardinality(Window!t)
        /\ Window!s' = Window!s /\ Window!t' = Window!t
        /\ left' = left + 1 /\ right' = right
    BY <1>3, <1>c DEF Window!Shrink, Window!Shrunk, Window!s, Window!t
  <2>2. /\ window' = (IF Window!s[left + 1] \in Window!t
                      THEN [window EXCEPT ![Window!s[left + 1]] = @ - 1] ELSE window)
        /\ valid' = (IF Window!s[left + 1] \in Window!t /\ window'[Window!s[left + 1]] = 0
                     THEN valid - 1 ELSE valid)
        /\ IF right - left < len THEN start' = left /\ len' = right - left
                                 ELSE start' = start /\ len' = len
    BY <1>3 DEF Window!Shrink, Window!Shrunk
  <2>3. WindowLoop(Window!s, Window!t, left + 1, right, window', valid', start', len')
    <3>1. Loop
      BY <1>0, <2>1
    <3>2. valid = Cardinality(Window!t)
      BY <2>1
    <3>3. IF right - left < len THEN start' = left /\ len' = right - left
                                ELSE start' = start /\ len' = len
      BY <2>2
    <3>4. QED  BY ONLY <3>1, <3>2, <3>3, <2>2, ShrinkWindow
  <2>4. Loop'
    BY <2>1, <2>3
  <2>5. QED  BY <2>1, <2>4 DEF WindowInv
<1>4. CASE Window!Return
  <2>1. /\ stage = "loop" /\ stage' = "returned" /\ valid # Cardinality(Window!t)
        /\ right = Len(Window!s) /\ input' = input
        /\ answer' = (IF len = Window!INT_MAX THEN <<>> ELSE SubSeq(Window!s, start + 1, start + len))
        /\ UNCHANGED len
    BY <1>4, <1>c DEF Window!Return
  <2>2. Window!s' = Window!s /\ Window!t' = Window!t
    BY <2>1 DEF Window!s, Window!t
  <2>3. IF Covers(Window!s, Window!t, 0, Len(Window!s))
        THEN Len(answer') = len /\ \A c \in Window!t : \E x \in DOMAIN answer' : answer'[x] = c
        ELSE answer' = <<>>
    <3>1. Loop /\ right = Len(Window!s)
      BY <1>0, <2>1
    <3>2. valid # Cardinality(Window!t)
      BY <2>1
    <3>3. answer' = PieceFound(Window!s, start, len)
      BY <2>1 DEF PieceFound
    <3>4. QED  BY ONLY WindowAssumption, <3>1, <3>2, <3>3, AnswerOfLoop
  <2>4. /\ stage' = "returned" /\ Window!s' = Window!s /\ Window!t' = Window!t /\ len' = len
        /\ IF Window!t \subseteq Window!Piece(0, Len(Window!s))
           THEN Len(answer') = len /\ Window!t \subseteq {answer'[x] : x \in DOMAIN answer'}
           ELSE answer' = <<>>
    BY <2>1, <2>2, <2>3 DEF Covers, Part, Window!Piece
  <2>5. Window!WindowIsSmallest'
    BY <2>4 DEF Window!WindowIsSmallest, Window!ToSet, Window!Piece
  <2>6. QED  BY <2>1, <2>5 DEF WindowInv
<1>5. CASE Window!Done
  BY <1>5 DEF Window!Done, WindowInv
<1>6. QED  BY <1>1, <1>2, <1>3, <1>4, <1>5 DEF Window!Next

LEMMA NextWindow == ASSUME WindowAssumption, WindowInv, [Next]_vars PROVE WindowInv'
<1>1. CASE used = "Windows" /\ Window!Next /\ used' = used
  BY <1>1, StepOfWindow
<1>2. CASE used # "Windows" /\ used' = used
  BY <1>2 DEF WindowInv
<1>3. CASE UNCHANGED vars
  BY <1>3 DEF vars, algVars, arrayVars, windowVars, WindowInv, WindowLoop, Window!s, Window!t,
              Window!WindowIsSmallest, Window!Piece, Window!ToSet
<1>4. CASE Next
  <2>1. UNCHANGED used
    BY ONLY <1>4 DEF Next
  <2>2. used = "Windows" => Window!Next
    BY <1>4 DEF Next, Algorithm, OnArrays
  <2>3. QED  BY <2>1, <2>2, <1>1, <1>2
<1>5. QED  BY <1>3, <1>4

(* minWindow(): for every alphabet and every length below INT_MAX, the      *)
(* piece returned covers t, and no shorter one of s does.                   *)
THEOREM NoWindowIsPassedOver == WindowAssumption /\ Spec => []WindowIsSmallest
<1> SUFFICES ASSUME WindowAssumption PROVE Spec => []WindowIsSmallest
  OBVIOUS
<1>1. Init => WindowInv
  BY DEF Init, Window!Init, WindowInv
<1>2. WindowInv /\ [Next]_vars => WindowInv'
  BY NextWindow
<1>3. WindowInv => WindowIsSmallest
  <2> SUFFICES ASSUME WindowInv, used = "Windows" PROVE Window!WindowIsSmallest
    BY DEF WindowIsSmallest
  <2>1. ASSUME stage = "loop", valid # Cardinality(Window!t)
        PROVE  /\ valid = Cardinality(Part(Window!s, left, right) \cap Window!t)
               /\ \A x \in 0 .. right, y \in 0 .. right :
                    Covers(Window!s, Window!t, x, y) => y - x >= len
    BY <2>1, ShortestSoFar DEF WindowInv
  <2>2. CASE stage = "loop"
    <3>1. \A S : Window!Cardinality(S) = Cardinality(S)
      BY DEF Window!Cardinality, Cardinality
    <3>2. SUFFICES ASSUME valid # Cardinality(Window!t)
                   PROVE  /\ valid = Cardinality(Window!Piece(left, right) \cap Window!t)
                          /\ \A x \in 0 .. right, y \in 0 .. right :
                               Window!t \subseteq Window!Piece(x, y) => y - x >= len
      BY <2>2, <3>1 DEF Window!WindowIsSmallest
    <3>3. QED  BY <2>1, <2>2, <3>2 DEF Window!Piece, Covers, Part
  <2>3. CASE stage = "returned"
    BY <2>3 DEF WindowInv
  <2>4. CASE stage # "loop" /\ stage # "returned"
    BY <2>4 DEF Window!WindowIsSmallest
  <2>5. QED  BY <2>2, <2>3, <2>4
<1>4. QED  BY <1>1, <1>2, <1>3, PTL DEF Spec
=============================================================================
