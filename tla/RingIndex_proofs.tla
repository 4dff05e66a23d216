--------------------------- MODULE RingIndex_proofs ---------------------------
(***************************************************************************)
(* Arithmetic of the ring: the n-th item lives in slot n % BufferCapacity; *)
(* and what is left of a sequence of which the first items were taken.     *)
(***************************************************************************)
EXTENDS RingIndex, Integers, SequenceTheorems, TLAPS

(* Division with remainder, which Z3 knows of % and \div.                  *)
LEMMA DivMod ==
    ASSUME NEW n \in Int, NEW m \in Nat \ {0}
    PROVE  /\ n \div m \in Int
           /\ n % m \in 0 .. m - 1
           /\ n = m * (n \div m) + (n % m)
OBVIOUS

LEMMA ModUnique ==
    ASSUME NEW m \in Nat \ {0}, NEW n \in Int, NEW q \in Int, NEW r \in 0 .. m - 1,
           n = m * q + r
    PROVE  n % m = r
OBVIOUS

(* A non-zero multiple of m is at least m away from zero.                   *)
LEMMA NoSmallMultiple ==
    ASSUME NEW m \in Nat \ {0}, NEW d \in Int, 0 < m * d, m * d < m
    PROVE  FALSE
<1>1. CASE d <= 0
  <2>1. m * d <= 0  BY <1>1
  <2>2. QED  BY <2>1
<1>2. CASE d >= 1
  <2>1. m * d = m + m * (d - 1)  OBVIOUS
  <2>2. m * (d - 1) >= 0  BY <1>2
  <2>3. QED  BY <2>1, <2>2
<1>3. QED  BY <1>1, <1>2

LEMMA BufferCapacityType == BufferCapacity \in Nat \ {0}
BY CapacityAssumption DEF BufferCapacity

LEMMA SlotOf == ASSUME NEW n \in Nat PROVE n % BufferCapacity \in Slots
BY BufferCapacityType, DivMod DEF Slots

(* Advance() on the slot of item n gives the slot of item n + 1: the ring   *)
(* indices kept by the code follow the items, wrap-around included.         *)
LEMMA AdvanceSlot ==
    ASSUME NEW n \in Nat
    PROVE  Advance(n % BufferCapacity) = (n + 1) % BufferCapacity
<1> DEFINE m == BufferCapacity
           q == n \div m
           r == n % m
<1>0. m \in Nat \ {0}  BY BufferCapacityType
<1>1. q \in Int /\ r \in 0 .. m - 1 /\ n = m * q + r
  BY <1>0, DivMod
<1> HIDE DEF m, q, r
<1>2. CASE r + 1 < m
  <2>1. n + 1 = m * q + (r + 1) /\ r + 1 \in 0 .. m - 1  BY <1>0, <1>1, <1>2
  <2>2. (n + 1) % m = r + 1  BY <2>1, <1>0, <1>1, ModUnique
  <2>3. r + 1 = m * 0 + (r + 1)  BY <1>0, <1>1
  <2>4. (r + 1) % m = r + 1  BY <2>1, <2>3, <1>0, ModUnique
  <2>5. QED  BY <2>2, <2>4 DEF Advance, m, r
<1>3. CASE r + 1 = m
  <2>1. n + 1 = m * (q + 1) + 0 /\ 0 \in 0 .. m - 1 /\ q + 1 \in Int
    BY <1>0, <1>1, <1>3
  <2>2. (n + 1) % m = 0  BY <2>1, <1>0, ModUnique
  <2>3. r + 1 = m * 1 + 0  BY <1>0, <1>1, <1>3
  <2>4. (r + 1) % m = 0  BY <2>1, <2>3, <1>0, ModUnique
  <2>5. QED  BY <2>2, <2>4 DEF Advance, m, r
<1>4. QED  BY <1>0, <1>1, <1>2, <1>3

(* Two items less than a ring apart are in different slots.                 *)
LEMMA SlotsDiffer ==
    ASSUME NEW a \in Nat, NEW b \in Nat, a < b, b - a < BufferCapacity
    PROVE  a % BufferCapacity # b % BufferCapacity
<1> DEFINE m == BufferCapacity
<1>0. m \in Nat \ {0}  BY BufferCapacityType
<1>1. SUFFICES ASSUME a % m = b % m PROVE FALSE
  OBVIOUS
<1> HIDE DEF m
<1>2. /\ a \div m \in Int /\ a = m * (a \div m) + (a % m) /\ a % m \in 0 .. m - 1
      /\ b \div m \in Int /\ b = m * (b \div m) + (b % m)
  BY <1>0, DivMod
<1> DEFINE d == (b \div m) - (a \div m)
<1>3. d \in Int /\ m * d = b - a
  BY <1>0, <1>1, <1>2
<1>4. 0 < m * d /\ m * d < m
  BY <1>0, <1>3 DEF m
<1>5. QED  BY <1>0, <1>3, <1>4, NoSmallMultiple

(* Two items exactly a ring apart are in the same slot.                     *)
LEMMA SlotsWrap ==
    ASSUME NEW a \in Nat
    PROVE  (a + BufferCapacity) % BufferCapacity = a % BufferCapacity
<1> DEFINE m == BufferCapacity
           q == a \div m
           r == a % m
<1>0. m \in Nat \ {0}  BY BufferCapacityType
<1>1. q \in Int /\ r \in 0 .. m - 1 /\ a = m * q + r
  BY <1>0, DivMod
<1> HIDE DEF m, q, r
<1>2. a + m = m * (q + 1) + r /\ q + 1 \in Int  BY <1>0, <1>1
<1>3. (a + m) % m = r  BY <1>0, <1>1, <1>2, ModUnique
<1>4. QED  BY <1>3 DEF m, r

(* The test of push() for a full ring holds exactly when Capacity items are *)
(* inside, the test of pop() for an empty one exactly when none is.         *)
LEMMA FullMeansFull ==
    ASSUME NEW w \in Nat, NEW n \in Nat, n <= w, w <= n + Capacity
    PROVE  IsFull(n % BufferCapacity, w % BufferCapacity) <=> w = n + Capacity
<1>1. Advance(w % BufferCapacity) = (w + 1) % BufferCapacity
  BY AdvanceSlot
<1>2. CASE w = n + Capacity
  <2>1. w + 1 = n + BufferCapacity  BY <1>2, CapacityAssumption DEF BufferCapacity
  <2>2. (w + 1) % BufferCapacity = n % BufferCapacity  BY <2>1, SlotsWrap
  <2>3. QED  BY <1>1, <1>2, <2>2 DEF IsFull
<1>3. CASE w < n + Capacity
  <2>1. n < w + 1 /\ (w + 1) - n < BufferCapacity /\ w + 1 \in Nat
    BY <1>3, CapacityAssumption DEF BufferCapacity
  <2>2. (w + 1) % BufferCapacity # n % BufferCapacity  BY <2>1, SlotsDiffer
  <2>3. QED  BY <1>1, <1>3, <2>2 DEF IsFull
<1>4. QED  BY <1>2, <1>3, CapacityAssumption

LEMMA EmptyMeansEmpty ==
    ASSUME NEW r \in Nat, NEW n \in Nat, r <= n, n <= r + Capacity
    PROVE  IsEmpty(r % BufferCapacity, n % BufferCapacity) <=> n = r
<1>1. CASE r < n
  <2>1. n - r < BufferCapacity  BY CapacityAssumption DEF BufferCapacity
  <2>2. QED  BY <1>1, <2>1, SlotsDiffer DEF IsEmpty
<1>2. CASE n = r  BY <1>2 DEF IsEmpty
<1>3. QED  BY <1>1, <1>2

----------------------------------------------------------------------------
(* What is left of a sequence after its first r elements. *)
LEMMA RestOf ==
    ASSUME NEW S, NEW s \in Seq(S), NEW r \in 0 .. Len(s)
    PROVE  /\ SubSeq(s, r + 1, Len(s)) \in Seq(S)
           /\ Len(SubSeq(s, r + 1, Len(s))) = Len(s) - r
           /\ \A i \in 1 .. Len(s) - r : SubSeq(s, r + 1, Len(s))[i] = s[r + i]
<1> DEFINE m == r + 1
           w == Len(s)
<1>1. m \in 1 .. w + 1 /\ w \in Nat /\ r \in Nat
  BY LenProperties
<1>2. \A i \in m .. w : s[i] \in S
  BY ElementOfSeq
<1>r. m = r + 1
  OBVIOUS
<1> HIDE DEF m, w
<1>3. /\ SubSeq(s, m, w) \in Seq(S)
      /\ Len(SubSeq(s, m, w)) = IF m <= w THEN w - m + 1 ELSE 0
      /\ \A i \in 1 .. w - m + 1 : SubSeq(s, m, w)[i] = s[m + i - 1]
  BY <1>1, <1>2, SubSeqProperties
<1>4. Len(SubSeq(s, m, w)) = w - r
  BY <1>1, <1>3, <1>r
<1>5. ASSUME NEW i \in 1 .. w - r PROVE SubSeq(s, m, w)[i] = s[r + i]
  <2>1. m + i - 1 = r + i /\ i \in 1 .. w - m + 1  BY <1>1, <1>r
  <2>2. SubSeq(s, m, w)[i] = s[m + i - 1]  BY <1>3, <2>1
  <2>3. QED  BY <2>1, <2>2
<1>6. QED  BY <1>3, <1>4, <1>5 DEF m, w

LEMMA RestOfAppend ==
    ASSUME NEW S, NEW s \in Seq(S), NEW x \in S, NEW r \in 0 .. Len(s)
    PROVE  SubSeq(Append(s, x), r + 1, Len(Append(s, x)))
             = Append(SubSeq(s, r + 1, Len(s)), x)
<1> DEFINE t == Append(s, x)
           u == SubSeq(t, r + 1, Len(t))
           v == SubSeq(s, r + 1, Len(s))
           w == Len(s)
<1>1. w \in Nat /\ r \in 0 .. w
  BY LenProperties
<1>2. /\ t \in Seq(S) /\ Len(t) = w + 1
      /\ \A i \in 1 .. w : t[i] = s[i]
      /\ t[w + 1] = x
  BY AppendProperties
<1>3. /\ v \in Seq(S) /\ Len(v) = w - r
      /\ \A i \in 1 .. w - r : v[i] = s[r + i]
  BY RestOf
<1> HIDE DEF t, v, w
<1>4. r \in 0 .. Len(t)
  BY <1>1, <1>2
<1>5. /\ u \in Seq(S) /\ Len(u) = Len(t) - r
      /\ \A i \in 1 .. Len(t) - r : u[i] = t[r + i]
  BY <1>2, <1>4, RestOf
<1> HIDE DEF u
<1>6. /\ Append(v, x) \in Seq(S) /\ Len(Append(v, x)) = Len(v) + 1
      /\ \A i \in 1 .. Len(v) : Append(v, x)[i] = v[i]
      /\ Append(v, x)[Len(v) + 1] = x
  BY <1>3, AppendProperties
<1>7. Len(u) = w - r + 1 /\ Len(Append(v, x)) = w - r + 1
  BY <1>1, <1>2, <1>3, <1>5, <1>6
<1>8. ASSUME NEW i \in 1 .. w - r + 1 PROVE u[i] = Append(v, x)[i]
  <2>1. u[i] = t[r + i]
    BY <1>1, <1>2, <1>5
  <2>2. CASE i = w - r + 1
    <3>1. r + i = w + 1 /\ i = Len(v) + 1  BY <2>2, <1>1, <1>3
    <3>2. QED  BY <3>1, <2>1, <1>2, <1>6
  <2>3. CASE i \in 1 .. w - r
    <3>1. r + i \in 1 .. w /\ i \in 1 .. Len(v)  BY <2>3, <1>1, <1>3
    <3>2. QED  BY <3>1, <2>1, <2>3, <1>2, <1>3, <1>6
  <2>4. i = w - r + 1 \/ i \in 1 .. w - r
    BY <1>1
  <2>5. QED  BY <2>2, <2>3, <2>4
<1>9. u = Append(v, x)
  BY <1>5, <1>6, <1>7, <1>8, SeqEqual
<1>10. QED  BY <1>9 DEF t, u, v
=============================================================================
