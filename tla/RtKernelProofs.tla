--------------------------- MODULE RtKernelProofs ---------------------------
(***************************************************************************)
(* For every set of threads and priorities, every time slice, timeout and  *)
(* width of the tick counter: the lists of the kernel agree with the state *)
(* of the threads, the highest ready thread has the processor, a context   *)
(* switch saves the registers of the thread that was running, and the      *)
(* blocking calls keep what BlockingCalls promises.                        *)
(***************************************************************************)
EXTENDS RtKernel, SequenceTheorems, WellFoundedInduction, TLAPS

-----------------------------------------------------------------------------
(* Induction over the natural numbers, for sets.                            *)

(* A set of numbers has a least element.                                    *)
LEMMA LeastOf ==
  ASSUME NEW T \in SUBSET Nat, T # {}
  PROVE  \E m \in T : \A n \in T : m <= n
<1>1. PICK m \in T : \A n \in T : <<n, m>> \notin OpToRel(<, Nat)
  BY WFMin, NatLessThanWellFounded
<1>2. \A n \in T : ~ (n < m)
  BY <1>1 DEF OpToRel
<1>3. QED
  BY <1>2

(* What holds of 0, and of n + 1 if of n, holds of every number.            *)
LEMMA Induction ==
  ASSUME NEW S, 0 \in S, \A n \in Nat : n \in S => n + 1 \in S
  PROVE  Nat \subseteq S
<1>1. SUFFICES ASSUME Nat \ S # {} PROVE FALSE
  OBVIOUS
<1>2. PICK m \in Nat \ S : \A n \in Nat \ S : m <= n
  BY <1>1, LeastOf
<1>3. m # 0 /\ m - 1 \in Nat
  BY <1>2
<1>4. m - 1 \in S
  BY <1>2, <1>3
<1>5. QED
  BY <1>2, <1>3, <1>4

-----------------------------------------------------------------------------
(* Lists.                                                                   *)

(* f is the function that Without computes, as far as n.                   *)
Removal(s, S, n, f) ==
  /\ f = [i \in 0 .. n |-> f[i]]
  /\ f[0] = <<>>
  /\ \A i \in 1 .. n : f[i] = IF s[i] \in S THEN f[i - 1] ELSE Append(f[i - 1], s[i])

(* There is such a function.                                                *)
LEMMA RemovalExists ==
  ASSUME NEW s, NEW S, NEW n \in Nat
  PROVE  \E f : Removal(s, S, n, f)
<1> DEFINE Good == {m \in Nat : \E f : Removal(s, S, m, f)}
<1>1. 0 \in Good
  <2> DEFINE f == [i \in 0 .. 0 |-> <<>>]
  <2>1. Removal(s, S, 0, f)
    BY DEF Removal
  <2>2. QED BY <2>1
<1>2. ASSUME NEW m \in Nat, m \in Good PROVE m + 1 \in Good
  <2>1. PICK f : Removal(s, S, m, f)
    BY <1>2
  <2> DEFINE g == [i \in 0 .. m + 1 |-> IF i <= m THEN f[i]
                     ELSE IF s[i] \in S THEN f[m] ELSE Append(f[m], s[i])]
  <2>2. g = [i \in 0 .. m + 1 |-> g[i]] /\ g[0] = f[0]
    OBVIOUS
  <2>3. ASSUME NEW i \in 1 .. m + 1
        PROVE  g[i] = IF s[i] \in S THEN g[i - 1] ELSE Append(g[i - 1], s[i])
    <3>1. g[i - 1] = f[i - 1]
      OBVIOUS
    <3>2. CASE i <= m
      <4>1. g[i] = f[i] /\ i \in 1 .. m
        BY <3>2
      <4> HIDE DEF g
      <4>2. QED BY <4>1, <3>1, <2>1 DEF Removal
    <3>3. CASE i = m + 1
      BY <3>1, <3>3
    <3>4. QED BY <3>2, <3>3
  <2> HIDE DEF g
  <2>4. Removal(s, S, m + 1, g)
    BY <2>1, <2>2, <2>3 DEF Removal
  <2>5. QED BY <2>4
<1> HIDE DEF Good
<1>3. n \in Good
  BY <1>1, <1>2, Induction
<1>4. QED BY <1>3 DEF Good

(* Without takes its last value.                                            *)
LEMMA WithoutIsRemoval ==
  ASSUME NEW T, NEW s \in Seq(T), NEW S
  PROVE  \E f : Removal(s, S, Len(s), f) /\ Without(s, S) = f[Len(s)]
<1> DEFINE Eq(f) == f = [i \in 0 .. Len(s) |->
         IF i = 0 THEN <<>>
         ELSE IF s[i] \in S THEN f[i - 1] ELSE Append(f[i - 1], s[i])]
<1>0. Len(s) \in Nat
  OBVIOUS
<1>1. PICK f : Removal(s, S, Len(s), f)
  BY <1>0, RemovalExists
<1>2. \A i \in 0 .. Len(s) : f[i] = IF i = 0 THEN <<>>
         ELSE IF s[i] \in S THEN f[i - 1] ELSE Append(f[i - 1], s[i])
  BY <1>1 DEF Removal
<1>3. Eq(f)
  BY <1>1, <1>2 DEF Removal
<1>4. Eq(CHOOSE h : Eq(h))
  BY <1>3
<1>5. Without(s, S) = (CHOOSE h : Eq(h))[Len(s)]
  BY DEF Without
<1> DEFINE g == CHOOSE h : Eq(h)
<1>6. Eq(g)
  BY <1>4
<1> HIDE DEF g
<1>7. /\ DOMAIN g = 0 .. Len(s)
      /\ \A i \in 0 .. Len(s) : g[i] = IF i = 0 THEN <<>>
         ELSE IF s[i] \in S THEN g[i - 1] ELSE Append(g[i - 1], s[i])
  BY <1>6
<1> HIDE DEF Eq
<1>7a. g = [i \in 0 .. Len(s) |-> g[i]]
  <2>1. g = [i \in 0 .. Len(s) |->
         IF i = 0 THEN <<>>
         ELSE IF s[i] \in S THEN g[i - 1] ELSE Append(g[i - 1], s[i])]
    BY <1>6 DEF Eq
  <2>2. QED BY <2>1
<1>8. Removal(s, S, Len(s), g)
  BY <1>0, <1>7, <1>7a DEF Removal
<1>9. QED
  BY <1>5, <1>8 DEF g, Eq
(* r holds, in their order, the elements of the first i places of s that    *)
(* are not in S.                                                            *)
Kept(s, S, i, r) ==
  /\ Range(r) = {s[k] : k \in 1 .. i} \ S
  /\ \A a, b \in 1 .. Len(r) : a < b =>
       \E k, l \in 1 .. i : k < l /\ r[a] = s[k] /\ r[b] = s[l]
  /\ (\A k \in 1 .. i : s[k] \notin S) => r = SubSeq(s, 1, i)

(* The elements of a list with one more at its end.                         *)
LEMMA RangeAppend ==
  ASSUME NEW T, NEW r \in Seq(T), NEW x \in T
  PROVE  Range(Append(r, x)) = Range(r) \cup {x}
<1>1. /\ Append(r, x) \in Seq(T) /\ Len(Append(r, x)) = Len(r) + 1
      /\ \A i \in 1 .. Len(r) : Append(r, x)[i] = r[i]
      /\ Append(r, x)[Len(r) + 1] = x
      /\ DOMAIN r = 1 .. Len(r) /\ Len(r) \in Nat
  BY AppendProperties, LenProperties
<1>2. DOMAIN Append(r, x) = 1 .. Len(r) + 1
  BY <1>1
<1>3. QED
  BY <1>1, <1>2 DEF Range

(* Without keeps what it should, by induction over the places of s.         *)
LEMMA WithoutKeeps ==
  ASSUME NEW T, NEW s \in Seq(T), NEW S
  PROVE  Without(s, S) \in Seq(T) /\ Kept(s, S, Len(s), Without(s, S))
<1>1. PICK f : Removal(s, S, Len(s), f) /\ Without(s, S) = f[Len(s)]
  BY WithoutIsRemoval
<1> DEFINE Good == {i \in Nat : i <= Len(s) => f[i] \in Seq(T) /\ Kept(s, S, i, f[i])}
<1>2. 0 \in Good
  <2>1. f[0] = <<>> /\ Range(<<>>) = {} /\ SubSeq(s, 1, 0) = <<>>
    BY <1>1 DEF Removal, Range
  <2>2. {s[k] : k \in 1 .. 0} = {} /\ Len(<<>>) = 0 /\ <<>> \in Seq(T)
    OBVIOUS
  <2>3. Kept(s, S, 0, f[0])
    BY <2>1, <2>2 DEF Kept
  <2>4. QED BY <2>1, <2>2, <2>3
<1>3. ASSUME NEW i \in Nat, i \in Good PROVE i + 1 \in Good
  <2> SUFFICES ASSUME i + 1 <= Len(s)
               PROVE  f[i + 1] \in Seq(T) /\ Kept(s, S, i + 1, f[i + 1])
    OBVIOUS
  <2>1. f[i] \in Seq(T) /\ Kept(s, S, i, f[i]) /\ i + 1 \in 1 .. Len(s) /\ s[i + 1] \in T
    BY <1>3
  <2>2. f[i + 1] = IF s[i + 1] \in S THEN f[i] ELSE Append(f[i], s[i + 1])
    <3>1. i + 1 \in 1 .. Len(s) /\ (i + 1) - 1 = i
      BY <2>1
    <3>2. QED BY <1>1, <3>1 DEF Removal
  <2>3. {s[k] : k \in 1 .. i + 1} = {s[k] : k \in 1 .. i} \cup {s[i + 1]}
    OBVIOUS
  <2>4. CASE s[i + 1] \in S
    <3>1. f[i + 1] = f[i]
      BY <2>2, <2>4
    <3>2. \A k \in 1 .. i : k \in 1 .. i + 1
      OBVIOUS
    <3>3. Range(f[i]) = {s[k] : k \in 1 .. i + 1} \ S
      BY <2>1, <2>3, <2>4 DEF Kept
    <3>4. i + 1 \in 1 .. i + 1
      OBVIOUS
    <3>5. QED BY <3>1, <2>1, <2>4, <3>2, <3>3, <3>4 DEF Kept
  <2>5. CASE s[i + 1] \notin S
    <3> DEFINE r == f[i]
               q == Append(f[i], s[i + 1])
    <3>1. f[i + 1] = q
      BY <2>2, <2>5
    <3>2. /\ q \in Seq(T) /\ Len(q) = Len(r) + 1 /\ Len(r) \in Nat
          /\ \A k \in 1 .. Len(r) : q[k] = r[k]
          /\ q[Len(r) + 1] = s[i + 1]
      BY <2>1, AppendProperties, LenProperties
    <3>3. Range(q) = {s[k] : k \in 1 .. i + 1} \ S
      BY <2>1, <2>3, <2>5, RangeAppend DEF Kept
    <3>4. \A a \in 1 .. Len(r) : \E k \in 1 .. i : r[a] = s[k]
      <4> TAKE a \in 1 .. Len(r)
      <4>1. r[a] \in Range(r)
        BY <2>1, LenProperties DEF Range
      <4>2. QED BY <4>1, <2>1 DEF Kept
    <3>5. \A a, b \in 1 .. Len(q) : a < b =>
            \E k, l \in 1 .. i + 1 : k < l /\ q[a] = s[k] /\ q[b] = s[l]
      <4> SUFFICES ASSUME NEW a \in 1 .. Len(q), NEW b \in 1 .. Len(q), a < b
                   PROVE  \E k, l \in 1 .. i + 1 : k < l /\ q[a] = s[k] /\ q[b] = s[l]
        OBVIOUS
      <4> HIDE DEF q, r
      <4>1. CASE b <= Len(r)
        <5>1. a \in 1 .. Len(r) /\ b \in 1 .. Len(r)
          BY <4>1, <3>2
        <5>2. PICK k \in 1 .. i, l \in 1 .. i : k < l /\ r[a] = s[k] /\ r[b] = s[l]
          BY <5>1, <2>1 DEF Kept, r
        <5>3. q[a] = s[k] /\ q[b] = s[l] /\ k \in 1 .. i + 1 /\ l \in 1 .. i + 1
          BY <5>1, <5>2, <3>2
        <5>4. QED BY <5>2, <5>3
      <4>2. CASE b = Len(r) + 1
        <5>1. a \in 1 .. Len(r)
          BY <4>2, <3>2
        <5>2. PICK k \in 1 .. i : r[a] = s[k]
          BY <5>1, <3>4
        <5>3. /\ k < i + 1 /\ k \in 1 .. i + 1 /\ i + 1 \in 1 .. i + 1
              /\ q[a] = s[k] /\ q[b] = s[i + 1]
          BY <5>1, <5>2, <3>2, <4>2
        <5>4. QED BY <5>3
      <4>3. QED BY <4>1, <4>2, <3>2
    <3>6. (\A k \in 1 .. i + 1 : s[k] \notin S) => q = SubSeq(s, 1, i + 1)
      <4> SUFFICES ASSUME \A k \in 1 .. i + 1 : s[k] \notin S
                   PROVE  q = SubSeq(s, 1, i + 1)
        OBVIOUS
      <4>1. r = SubSeq(s, 1, i)
        BY <2>1 DEF Kept
      <4>2. SubSeq(s, 1, i + 1) = Append(SubSeq(s, 1, i), s[i + 1])
        BY <2>1
      <4>3. QED BY <4>1, <4>2
    <3> HIDE DEF q
    <3>7. QED BY <3>1, <3>2, <3>3, <3>5, <3>6 DEF Kept
  <2>6. QED BY <2>4, <2>5
<1> HIDE DEF Good
<1>4. Len(s) \in Good
  BY <1>2, <1>3, Induction, LenProperties
<1>5. QED
  BY <1>1, <1>4 DEF Good

(* What is left of a list without the elements of S.                       *)
LEMMA WithoutProperties ==
  ASSUME NEW T, NEW s \in Seq(T), NEW S
  PROVE  /\ Without(s, S) \in Seq(T)
         /\ Range(Without(s, S)) = Range(s) \ S
         /\ Distinct(s) => Distinct(Without(s, S))
         /\ \A a, b \in DOMAIN Without(s, S) : a < b =>
              \E k, l \in DOMAIN s :
                 k < l /\ Without(s, S)[a] = s[k] /\ Without(s, S)[b] = s[l]
         /\ Range(s) \cap S = {} => Without(s, S) = s
<1> DEFINE r == Without(s, S)
<1>1. r \in Seq(T) /\ Kept(s, S, Len(s), r)
  BY WithoutKeeps
<1>2. DOMAIN s = 1 .. Len(s) /\ DOMAIN r = 1 .. Len(r) /\ Len(s) \in Nat /\ Len(r) \in Nat
  BY <1>1, LenProperties
<1> HIDE DEF r
<1>3. Range(r) = Range(s) \ S
  BY <1>1, <1>2 DEF Kept, Range
<1>4. \A a, b \in DOMAIN r : a < b =>
         \E k, l \in DOMAIN s : k < l /\ r[a] = s[k] /\ r[b] = s[l]
  <2>1. \A a, b \in 1 .. Len(r) : a < b =>
          \E k, l \in 1 .. Len(s) : k < l /\ r[a] = s[k] /\ r[b] = s[l]
    BY <1>1 DEF Kept
  <2> SUFFICES ASSUME NEW a \in DOMAIN r, NEW b \in DOMAIN r, a < b
               PROVE  \E k, l \in DOMAIN s : k < l /\ r[a] = s[k] /\ r[b] = s[l]
    OBVIOUS
  <2>2. PICK k \in 1 .. Len(s), l \in 1 .. Len(s) : k < l /\ r[a] = s[k] /\ r[b] = s[l]
    BY <1>2, <2>1
  <2>3. k \in DOMAIN s /\ l \in DOMAIN s
    BY <1>2
  <2>4. QED BY <2>2, <2>3
<1>5. ASSUME Distinct(s) PROVE Distinct(r)
  <2> SUFFICES ASSUME NEW a \in DOMAIN r, NEW b \in DOMAIN r, a < b
               PROVE  r[a] # r[b]
    BY <1>2 DEF Distinct
  <2>1. PICK k \in DOMAIN s, l \in DOMAIN s : k < l /\ r[a] = s[k] /\ r[b] = s[l]
    BY <1>4
  <2>2. QED BY <2>1, <1>2, <1>5 DEF Distinct
<1>6. ASSUME Range(s) \cap S = {} PROVE r = s
  <2>1. \A k \in 1 .. Len(s) : s[k] \notin S
    BY <1>2, <1>6 DEF Range
  <2>2. QED BY <1>1, <2>1, SubSeqFull DEF Kept
<1>7. QED
  BY <1>1, <1>3, <1>4, <1>5, <1>6 DEF r

(* A sequence has elements unless it is empty.                              *)
LEMMA EmptyRange ==
  ASSUME NEW T, NEW s \in Seq(T)
  PROVE  s = <<>> <=> Range(s) = {}
<1>1. DOMAIN s = 1 .. Len(s) /\ Len(s) \in Nat
  BY LenProperties
<1>2. CASE s = <<>>
  BY <1>2 DEF Range
<1>3. CASE s # <<>>
  <2>1. 1 \in DOMAIN s
    BY <1>1, <1>3, EmptySeq
  <2>2. s[1] \in Range(s)
    BY <2>1 DEF Range
  <2>3. QED BY <1>3, <2>2
<1>4. QED BY <1>2, <1>3

(* Two lists without a common thread, one behind the other.                 *)
LEMMA DistinctConcat ==
  ASSUME NEW T, NEW s \in Seq(T), NEW r \in Seq(T), Distinct(s), Distinct(r),
         Range(s) \cap Range(r) = {}
  PROVE  Distinct(s \o r)
<1>1. /\ Len(s) \in Nat /\ Len(r) \in Nat
      /\ DOMAIN s = 1 .. Len(s) /\ DOMAIN r = 1 .. Len(r)
  BY LenProperties
<1>2. /\ s \o r \in Seq(T) /\ DOMAIN (s \o r) = 1 .. Len(s) + Len(r)
      /\ \A i \in 1 .. Len(s) + Len(r) :
            (s \o r)[i] = IF i <= Len(s) THEN s[i] ELSE r[i - Len(s)]
  BY <1>1, ConcatProperties, LenProperties
<1> DEFINE q == s \o r
<1> HIDE DEF q
<1>3. SUFFICES ASSUME NEW i \in 1 .. Len(s) + Len(r), NEW j \in 1 .. Len(s) + Len(r),
                      i < j, q[i] = q[j]
               PROVE  FALSE
  BY <1>1, <1>2 DEF Distinct, q
<1>4. CASE j <= Len(s)
  BY <1>1, <1>2, <1>3, <1>4 DEF Distinct, q
<1>5. CASE i > Len(s)
  <2>1. i - Len(s) \in 1 .. Len(r) /\ j - Len(s) \in 1 .. Len(r)
    BY <1>1, <1>3, <1>5
  <2>2. r[i - Len(s)] = r[j - Len(s)]
    BY <1>1, <1>2, <1>3, <1>5 DEF q
  <2>3. QED BY <1>1, <1>3, <2>1, <2>2 DEF Distinct
<1>6. CASE i <= Len(s) /\ j > Len(s)
  <2>1. i \in 1 .. Len(s) /\ j - Len(s) \in 1 .. Len(r)
    BY <1>1, <1>3, <1>6
  <2>2. s[i] = r[j - Len(s)]
    BY <1>1, <1>2, <1>3, <1>6 DEF q
  <2>3. s[i] \in Range(s) /\ r[j - Len(s)] \in Range(r)
    BY <1>1, <2>1 DEF Range
  <2>4. QED BY <2>2, <2>3
<1>7. QED BY <1>1, <1>4, <1>5, <1>6

(* A list with one more thread at its end.                                  *)
LEMMA DistinctAppend ==
  ASSUME NEW T, NEW s \in Seq(T), NEW x \in T, Distinct(s), x \notin Range(s)
  PROVE  Distinct(Append(s, x))
<1>1. <<x>> \in Seq(T) /\ Range(<<x>>) = {x} /\ Distinct(<<x>>)
  BY DEF Range, Distinct
<1>2. Append(s, x) = s \o <<x>>
  BY AppendIsConcat
<1>3. QED
  BY <1>1, <1>2, DistinctConcat

(* The beginning of a list.                                                 *)
LEMMA PrefixProperties ==
  ASSUME NEW T, NEW s \in Seq(T), NEW n \in 0 .. Len(s)
  PROVE  /\ SubSeq(s, 1, n) \in Seq(T) /\ Len(SubSeq(s, 1, n)) = n
         /\ Range(SubSeq(s, 1, n)) = {s[i] : i \in 1 .. n}
         /\ Distinct(s) => Distinct(SubSeq(s, 1, n))
<1> DEFINE r == SubSeq(s, 1, n)
<1>1. DOMAIN s = 1 .. Len(s) /\ Len(s) \in Nat
  BY LenProperties
<1>2. r \in Seq(T) /\ Len(r) = n /\ \A i \in 1 .. n : r[i] = s[i]
  BY <1>1
<1> HIDE DEF r
<1>3. DOMAIN r = 1 .. n
  BY <1>2, LenProperties
<1>4. Range(r) = {s[i] : i \in 1 .. n}
  BY <1>2, <1>3 DEF Range
<1>5. Distinct(s) => Distinct(r)
  BY <1>1, <1>2, <1>3 DEF Distinct
<1>6. QED
  BY <1>2, <1>4, <1>5 DEF r

(* InsertAt leaves the rest in its order.                                   *)
LEMMA Inserted ==
  ASSUME NEW T, NEW s \in Seq(T), NEW x \in T, NEW k \in 1 .. Len(s) + 1
  PROVE  /\ InsertAt(s, k, x) \in Seq(T)
         /\ Len(InsertAt(s, k, x)) = Len(s) + 1
         /\ \A i \in 1 .. Len(s) + 1 :
               InsertAt(s, k, x)[i] = IF i < k THEN s[i]
                                      ELSE IF i = k THEN x ELSE s[i - 1]
<1> DEFINE a == SubSeq(s, 1, k - 1)
           b == SubSeq(s, k, Len(s))
<1>1. Len(s) \in Nat /\ DOMAIN s = 1 .. Len(s) /\ k \in Int
  BY LenProperties
<1>2. a \in Seq(T) /\ Len(a) = k - 1 /\ \A i \in 1 .. k - 1 : a[i] = s[i]
  BY <1>1
<1>3. /\ b \in Seq(T) /\ Len(b) = Len(s) - k + 1
      /\ \A i \in 1 .. Len(s) - k + 1 : b[i] = s[k + i - 1]
  BY <1>1
<1>4. InsertAt(s, k, x) = (a \o <<x>>) \o b
  BY DEF InsertAt
<1> HIDE DEF a, b
<1> DEFINE c == a \o <<x>>
<1>5. /\ c \in Seq(T) /\ Len(c) = k
      /\ \A i \in 1 .. k : c[i] = IF i < k THEN s[i] ELSE x
  BY <1>1, <1>2
<1> HIDE DEF c
<1>6. /\ c \o b \in Seq(T) /\ Len(c \o b) = Len(c) + Len(b)
      /\ \A i \in 1 .. Len(c) + Len(b) :
            (c \o b)[i] = IF i <= Len(c) THEN c[i] ELSE b[i - Len(c)]
  BY <1>3, <1>5, ConcatProperties
<1> DEFINE d == c \o b
<1>7. /\ d \in Seq(T) /\ Len(d) = Len(s) + 1
      /\ \A i \in 1 .. Len(s) + 1 : d[i] = IF i <= k THEN c[i] ELSE b[i - k]
  BY <1>1, <1>3, <1>5, <1>6
<1>8. InsertAt(s, k, x) = d
  BY <1>4 DEF c
<1> HIDE DEF d
<1>9. ASSUME NEW i \in 1 .. Len(s) + 1
      PROVE  d[i] = IF i < k THEN s[i] ELSE IF i = k THEN x ELSE s[i - 1]
  <2>1. CASE i <= k
    BY <1>1, <1>5, <1>7, <2>1
  <2>2. CASE i > k
    <3>1. i - k \in 1 .. Len(s) - k + 1 /\ k + (i - k) - 1 = i - 1
      BY <1>1, <2>2
    <3>2. b[i - k] = s[i - 1]
      BY <1>3, <3>1
    <3>3. QED BY <1>1, <1>7, <2>2, <3>2
  <2>3. QED BY <1>1, <2>1, <2>2
<1>10. QED
  BY <1>7, <1>8, <1>9

-----------------------------------------------------------------------------
(* Ticks, counted modulo TickWrap.                                          *)
LEMMA ModSmall ==
  ASSUME NEW W \in Nat \ {0}, NEW a \in Int, 0 <= a, a < W
  PROVE  a % W = a
BY Z3

LEMMA ModNegative ==
  ASSUME NEW W \in Nat \ {0}, NEW a \in Int, -W <= a, a < 0
  PROVE  a % W = a + W
BY Z3

LEMMA ModOver ==
  ASSUME NEW W \in Nat \ {0}, NEW a \in Int, W <= a, a < W + W
  PROVE  a % W = a - W
BY Z3

(* The types of what a step may change in the lists and the clocks.         *)
ListTypes ==
  /\ stat \in [Thread -> {"init", "ready", "suspend"}]
  /\ ready \in [Priority -> Seq(Thread)] /\ group \subseteq Priority
  /\ suspended \in Seq(Thread) /\ timers \in Seq(Thread)
  /\ active \subseteq Thread /\ due \in [Thread -> 0 .. TickWrap - 1]
  /\ limit \in [Thread -> Timeout \cup {Never}] /\ waited \in [Thread -> Nat]

(* ReadyTable, but for the semaphore.                                       *)
TableOf(rdy, grp, st) ==
  \A p \in Priority :
     /\ Distinct(rdy[p])
     /\ Range(rdy[p]) = {t \in Thread : st[t] = "ready" /\ Prio[t] = p}
     /\ p \in grp <=> rdy[p] # <<>>

Table == TableOf(ready, group, stat)

(* NobodyStranded, but for the order of the timers and the tokens.          *)
Listed ==
  /\ Distinct(suspended)
  /\ \A t \in Thread : stat[t] = "suspend" <=> t \in Range(suspended) \/ t \in active
  /\ active = Range(timers) /\ Distinct(timers)

(* The ticks until the timer of t is due; the list is in their order.       *)
Left(t) == Elapsed(due[t], tick)
Sorted == \A i, j \in DOMAIN timers : i < j => Left(timers[i]) <= Left(timers[j])

LEMMA PriorityIsNat == Priority \subseteq Nat /\ \A t \in Thread : Prio[t] \in Priority
BY KernelAssumption DEF KernelAssumption, Priority

(* rt_thread_resume of threads that are not ready leaves the types, the     *)
(* ready lists and their bitmap in order.                                   *)
LEMMA ResumeTable ==
  ASSUME ListTypes, Table, NEW ws \in Seq(Thread), Distinct(ws),
         \A t \in Range(ws) : stat[t] # "ready", Resume(ws)
  PROVE  ListTypes' /\ Table'
<1> DEFINE others(p) == {t \in Thread : Prio[t] # p}
           added(p) == Without(ws, others(p))
<1>1. Range(ws) \subseteq Thread
  BY RangeOfSeq
<1>2. \A p \in Priority :
         /\ added(p) \in Seq(Thread) /\ Distinct(added(p))
         /\ Range(added(p)) = {t \in Range(ws) : Prio[t] = p}
  <2> TAKE p \in Priority
  <2>1. Range(added(p)) = Range(ws) \ others(p)
    BY WithoutProperties
  <2>2. added(p) \in Seq(Thread) /\ Distinct(added(p))
    BY WithoutProperties
  <2>3. QED BY <1>1, <2>1, <2>2
<1>3. /\ suspended' = Without(suspended, Range(ws))
      /\ timers' = Without(timers, Range(ws))
      /\ active' = active \ Range(ws)
      /\ due' = [t \in Thread |-> IF t \in Range(ws) THEN 0 ELSE due[t]]
      /\ limit' = [t \in Thread |-> IF t \in Range(ws) THEN Never ELSE limit[t]]
      /\ waited' = [t \in Thread |-> IF t \in Range(ws) THEN 0 ELSE waited[t]]
      /\ stat' = [t \in Thread |-> IF t \in Range(ws) THEN "ready" ELSE stat[t]]
      /\ ready' = [p \in Priority |-> ready[p] \o added(p)]
      /\ group' = group \cup {Prio[t] : t \in Range(ws)}
  BY DEF Resume
<1> HIDE DEF added
<1>4. ASSUME NEW p \in Priority
      PROVE  /\ ready'[p] \in Seq(Thread) /\ Distinct(ready'[p])
             /\ Range(ready'[p]) = Range(ready[p]) \cup {t \in Range(ws) : Prio[t] = p}
             /\ ready'[p] = <<>> <=> ready[p] = <<>> /\ added(p) = <<>>
  <2>1. /\ ready[p] \in Seq(Thread) /\ Distinct(ready[p])
        /\ Range(ready[p]) = {t \in Thread : stat[t] = "ready" /\ Prio[t] = p}
    BY DEF ListTypes, Table, TableOf
  <2>2. /\ added(p) \in Seq(Thread) /\ Distinct(added(p))
        /\ Range(added(p)) = {t \in Range(ws) : Prio[t] = p}
    BY <1>2
  <2>3. Range(ready[p]) \cap Range(added(p)) = {}
    BY <2>1, <2>2
  <2>4. ready'[p] = ready[p] \o added(p)
    BY <1>3
  <2>5. ready[p] \o added(p) \in Seq(Thread) /\ Distinct(ready[p] \o added(p))
    BY <2>1, <2>2, <2>3, DistinctConcat, ConcatProperties
  <2>6. Range(ready[p] \o added(p)) = Range(ready[p]) \cup Range(added(p))
    BY <2>1, <2>2, RangeConcatenation
  <2>7. ready[p] \o added(p) = <<>> <=> ready[p] = <<>> /\ added(p) = <<>>
    BY <2>1, <2>2, ConcatEqualIffEmpty
  <2>8. QED BY <2>2, <2>4, <2>5, <2>6, <2>7
<1>5. ListTypes'
  <2>1. suspended' \in Seq(Thread) /\ timers' \in Seq(Thread)
    BY <1>3, WithoutProperties DEF ListTypes
  <2>2. ready' \in [Priority -> Seq(Thread)]
    BY <1>3, <1>4
  <2>3. group' \subseteq Priority
    BY <1>1, <1>3, PriorityIsNat DEF ListTypes
  <2>4. 0 \in 0 .. TickWrap - 1
    BY KernelAssumption DEF KernelAssumption
  <2>5. QED BY <1>3, <2>1, <2>2, <2>3, <2>4 DEF ListTypes
<1>6. Table'
  <2> SUFFICES ASSUME NEW p \in Priority
               PROVE  /\ Distinct(ready'[p])
                      /\ Range(ready'[p]) = {t \in Thread : stat'[t] = "ready" /\ Prio[t] = p}
                      /\ p \in group' <=> ready'[p] # <<>>
    BY DEF Table, TableOf
  <2>1. Range(ready[p]) = {t \in Thread : stat[t] = "ready" /\ Prio[t] = p}
    BY DEF Table, TableOf
  <2>2. Range(ready'[p]) = {t \in Thread : stat'[t] = "ready" /\ Prio[t] = p}
    BY <1>1, <1>3, <1>4, <2>1
  <2>3. added(p) = <<>> <=> {t \in Range(ws) : Prio[t] = p} = {}
    BY <1>2, EmptyRange
  <2>4. p \in group' <=> p \in group \/ {t \in Range(ws) : Prio[t] = p} # {}
    BY <1>3
  <2>5. p \in group <=> ready[p] # <<>>
    BY DEF Table, TableOf
  <2>6. QED BY <1>4, <2>2, <2>3, <2>4, <2>5
<1>7. QED BY <1>5, <1>6

(* It takes the threads off the semaphore and off the timers, which stay in *)
(* their order.                                                             *)
LEMMA ResumeListed ==
  ASSUME ListTypes, Listed, Sorted, NEW ws \in Seq(Thread), Resume(ws), tick' = tick
  PROVE  Listed' /\ Sorted'
<1> DEFINE W == Range(ws)
<1>1. /\ suspended' = Without(suspended, W)
      /\ timers' = Without(timers, W)
      /\ active' = active \ W
      /\ due' = [t \in Thread |-> IF t \in W THEN 0 ELSE due[t]]
      /\ stat' = [t \in Thread |-> IF t \in W THEN "ready" ELSE stat[t]]
  BY DEF Resume
<1>2. suspended \in Seq(Thread) /\ timers \in Seq(Thread)
  BY DEF ListTypes
<1>3. /\ Range(suspended') = Range(suspended) \ W
      /\ Distinct(suspended) => Distinct(suspended')
  BY <1>1, <1>2, WithoutProperties
<1>4. /\ Range(timers') = Range(timers) \ W /\ timers' \in Seq(Thread)
      /\ Distinct(timers) => Distinct(timers')
      /\ \A a, b \in DOMAIN timers' : a < b =>
            \E k, l \in DOMAIN timers :
               k < l /\ timers'[a] = timers[k] /\ timers'[b] = timers[l]
  <2>1. /\ Range(Without(timers, W)) = Range(timers) \ W
        /\ Without(timers, W) \in Seq(Thread)
        /\ Distinct(timers) => Distinct(Without(timers, W))
    BY <1>2, WithoutProperties
  <2>2. \A a, b \in DOMAIN Without(timers, W) : a < b =>
            \E k, l \in DOMAIN timers :
               k < l /\ Without(timers, W)[a] = timers[k] /\ Without(timers, W)[b] = timers[l]
    BY <1>2, WithoutProperties
  <2>3. QED BY <1>1, <2>1, <2>2
<1>5. Listed'
  BY <1>1, <1>3, <1>4 DEF Listed
<1>6. Sorted'
  <2> SUFFICES ASSUME NEW a \in DOMAIN timers', NEW b \in DOMAIN timers', a < b
               PROVE  Left(timers[a])' <= Left(timers[b])'
    BY DEF Sorted
  <2>1. PICK k \in DOMAIN timers, l \in DOMAIN timers :
           k < l /\ timers'[a] = timers[k] /\ timers'[b] = timers[l]
    BY <1>4
  <2>2. timers'[a] \in Range(timers') /\ timers'[b] \in Range(timers')
    BY DEF Range
  <2>3. timers'[a] \in Thread \ W /\ timers'[b] \in Thread \ W
    BY <1>2, <1>4, <2>2, RangeOfSeq
  <2>4. due'[timers'[a]] = due[timers[k]] /\ due'[timers'[b]] = due[timers[l]]
    BY <1>1, <2>1, <2>3
  <2>5. QED BY <2>1, <2>4 DEF Sorted, Left, Elapsed
<1>7. QED BY <1>5, <1>6

(* The thread rt_schedule picks is the first of the highest ready priority. *)
LEMMA CandidateIs ==
  ASSUME NEW rdy \in [Priority -> Seq(Thread)], NEW grp \in SUBSET Priority, NEW st,
         TableOf(rdy, grp, st), st[Idle] = "ready"
  PROVE  LET to == Candidate(rdy, grp) IN
         /\ to \in Thread /\ st[to] = "ready"
         /\ Prio[to] \in grp /\ \A q \in grp : Prio[to] <= q
         /\ to = Head(rdy[Prio[to]])
<1> DEFINE least(p) == p \in grp /\ \A q \in grp : p <= q
           p0 == CHOOSE p \in grp : \A q \in grp : p <= q
<1>1. Idle \in Thread /\ Prio[Idle] \in Priority
  BY KernelAssumption, PriorityIsNat DEF KernelAssumption
<1>2. Idle \in Range(rdy[Prio[Idle]])
  BY <1>1 DEF TableOf
<1>3. Prio[Idle] \in grp
  BY <1>1, <1>2, EmptyRange DEF TableOf
<1>4. \E p \in grp : \A q \in grp : p <= q
  BY <1>3, PriorityIsNat, LeastOf
<1>5. p0 \in grp /\ \A q \in grp : p0 <= q
  BY <1>4
<1>6. Candidate(rdy, grp) = Head(rdy[p0])
  BY DEF Candidate
<1> HIDE DEF p0
<1>7. p0 \in Priority /\ rdy[p0] \in Seq(Thread) /\ rdy[p0] # <<>>
  BY <1>5 DEF TableOf
<1>8. Head(rdy[p0]) = rdy[p0][1] /\ 1 \in DOMAIN rdy[p0]
  BY <1>7, LenProperties, EmptySeq
<1>9. Head(rdy[p0]) \in Range(rdy[p0])
  BY <1>8 DEF Range
<1>10. Head(rdy[p0]) \in Thread /\ st[Head(rdy[p0])] = "ready" /\ Prio[Head(rdy[p0])] = p0
  BY <1>7, <1>9 DEF TableOf
<1>11. QED
  BY <1>5, <1>6, <1>10

(* rt_thread_suspend keeps the ready lists and their bitmap in order.       *)
LEMMA SuspendTable ==
  ASSUME ListTypes, Table, NEW t \in Thread, Suspend(t)
  PROVE  /\ stat' \in [Thread -> {"init", "ready", "suspend"}]
         /\ ready' \in [Priority -> Seq(Thread)] /\ group' \subseteq Priority
         /\ stat' = [stat EXCEPT ![t] = "suspend"]
         /\ Table'
<1> DEFINE mine == Prio[t]
           left == Without(ready[mine], {t})
<1>1. mine \in Priority /\ ready[mine] \in Seq(Thread)
  BY PriorityIsNat DEF ListTypes
<1>2. /\ left \in Seq(Thread) /\ Range(left) = Range(ready[mine]) \ {t}
      /\ Distinct(ready[mine]) => Distinct(left)
  BY <1>1, WithoutProperties
<1>3. /\ stat' = [stat EXCEPT ![t] = "suspend"]
      /\ ready' = [ready EXCEPT ![mine] = left]
      /\ group' = IF left = <<>> THEN group \ {mine} ELSE group
  BY DEF Suspend
<1> HIDE DEF left
<1>4. /\ stat' \in [Thread -> {"init", "ready", "suspend"}]
      /\ ready' \in [Priority -> Seq(Thread)] /\ group' \subseteq Priority
  BY <1>1, <1>2, <1>3 DEF ListTypes
<1>5. ASSUME NEW p \in Priority
      PROVE  /\ Distinct(ready'[p])
             /\ Range(ready'[p]) = {u \in Thread : stat'[u] = "ready" /\ Prio[u] = p}
             /\ p \in group' <=> ready'[p] # <<>>
  <2>1. /\ Distinct(ready[p])
        /\ Range(ready[p]) = {u \in Thread : stat[u] = "ready" /\ Prio[u] = p}
        /\ p \in group <=> ready[p] # <<>>
    BY DEF Table, TableOf
  <2>2. CASE p = mine
    <3>1. ready'[p] = left
      BY <1>3, <2>2 DEF ListTypes
    <3>2. Range(left) = {u \in Thread : stat'[u] = "ready" /\ Prio[u] = p}
      BY <1>2, <1>3, <2>1, <2>2 DEF ListTypes
    <3>3. p \in group' <=> left # <<>>
      <4>1. CASE left = <<>>
        BY <1>3, <2>2, <4>1
      <4>2. CASE left # <<>>
        <5>1. Range(ready[p]) # {}
          BY <1>1, <1>2, <2>2, <4>2, EmptyRange
        <5>2. ready[p] # <<>>
          BY <1>1, <2>2, <5>1, EmptyRange
        <5>3. QED BY <1>3, <2>1, <2>2, <4>2, <5>2
      <4>3. QED BY <4>1, <4>2
    <3>4. QED BY <1>2, <2>1, <2>2, <3>1, <3>2, <3>3
  <2>3. CASE p # mine
    <3>1. ready'[p] = ready[p] /\ (p \in group' <=> p \in group)
      BY <1>3, <2>3 DEF ListTypes
    <3>2. \A u \in Thread : Prio[u] = p => stat'[u] = stat[u]
      BY <1>3, <2>3 DEF ListTypes
    <3>3. QED BY <2>1, <3>1, <3>2
  <2>4. QED BY <2>2, <2>3
<1>6. QED
  BY <1>3, <1>4, <1>5 DEF Table, TableOf

(* rt_timer_start compares due ticks and so compares the ticks left.        *)
LEMMA LaterIsLonger ==
  ASSUME NEW k \in 0 .. TickWrap - 1, NEW d \in 0 .. TickWrap - 1, NEW n \in Nat,
         n < HalfTick, Elapsed(d, k) < HalfTick
  PROVE  LET at == (k + n) % TickWrap IN
         /\ at \in 0 .. TickWrap - 1 /\ Elapsed(at, k) = n
         /\ (d # at /\ Elapsed(d, at) < HalfTick) <=> Elapsed(d, k) > n
<1> DEFINE W == TickWrap
           H == HalfTick
           at == (k + n) % W
<1>1. W \in Nat \ {0} /\ H \in Int /\ H + H < W
  BY KernelAssumption DEF KernelAssumption, HalfTick
<1>2. n < H /\ (d - k) % W < H /\ k \in 0 .. W - 1 /\ d \in 0 .. W - 1
  BY DEF Elapsed
<1> HIDE DEF W, H
<1>3. at \in 0 .. W - 1 /\ (at = k + n \/ at = k + n - W)
  <2>1. CASE k + n < W
    BY <1>1, <1>2, <2>1, ModSmall
  <2>2. CASE k + n >= W
    <3>1. W <= k + n /\ k + n < W + W /\ k + n \in Int
      BY <1>1, <1>2, <2>2
    <3>2. \A a \in Int : W <= a /\ a < W + W => a % W = a - W
      BY <1>1, ModOver
    <3>3. PICK a \in Int : a = k + n
      BY <3>1
    <3>4. a % W = a - W
      BY <3>1, <3>2, <3>3
    <3>5. at = a - W
      BY <3>3, <3>4
    <3>6. QED BY <1>1, <1>2, <2>2, <3>1, <3>3, <3>5
  <2>3. QED BY <1>1, <2>1, <2>2
<1> HIDE DEF at
<1>4. (at - k) % W = n
  <2>1. CASE at = k + n
    <3>1. at - k = n
      BY <1>1, <2>1
    <3>2. QED BY <1>1, <1>2, <3>1, ModSmall
  <2>2. CASE at = k + n - W
    <3>1. at - k = n - W
      BY <1>1, <2>2
    <3>2. QED BY <1>1, <1>2, <3>1, ModNegative
  <2>3. QED BY <1>3, <2>1, <2>2
<1>5. PICK l \in 0 .. H - 1 : (d - k) % W = l /\ (d - k = l \/ d - k = l - W)
  <2>1. CASE d - k >= 0
    <3>1. (d - k) % W = d - k
      BY <1>1, <2>1, ModSmall DEF W
    <3>2. QED BY <1>1, <1>2, <2>1, <3>1
  <2>2. CASE d - k < 0
    <3>1. (d - k) % W = d - k + W
      BY <1>1, <2>2, ModNegative DEF W
    <3>2. d - k + W >= 0
      BY <1>1 DEF W
    <3>3. QED BY <1>1, <1>2, <3>1, <3>2
  <2>3. QED BY <1>1, <2>1, <2>2
<1>6. (d # at /\ (d - at) % W < H) <=> l > n
  <2>1. d - at \in {l - n, l - n - W, l - n + W} /\ -W < d - at /\ d - at < W
    BY <1>1, <1>3, <1>5 DEF W
  <2>2. CASE l >= n
    <3>1. d - at = l - n \/ d - at = l - n - W
      BY <1>1, <2>1, <2>2
    <3>2. (d - at) % W = l - n
      <4>1. CASE d - at = l - n
        BY <1>1, <1>5, <2>2, <4>1, ModSmall
      <4>2. CASE d - at = l - n - W
        <5>1. -W <= d - at /\ d - at < 0 /\ d - at \in Int
          BY <1>1, <1>2, <1>5, <2>1, <2>2, <4>2
        <5>2. (d - at) % W = d - at + W
          BY <1>1, <5>1, ModNegative
        <5>3. QED BY <1>1, <1>5, <4>2, <5>2
      <4>3. QED BY <3>1, <4>1, <4>2
    <3>3. d = at => l = n
      BY <1>1, <1>5, <2>2, <3>1
    <3>4. l = n => d = at
      BY <1>1, <1>3, <1>5, <2>1, <3>1
    <3>5. QED BY <1>1, <1>2, <1>5, <2>2, <3>2, <3>3, <3>4
  <2>3. CASE l < n
    <3>1. d - at = l - n \/ d - at = l - n + W
      BY <1>1, <2>1, <2>3
    <3>2. (d - at) % W = l - n + W
      <4>1. CASE d - at = l - n
        BY <1>1, <1>5, <2>1, <2>3, <4>1, ModNegative
      <4>2. CASE d - at = l - n + W
        BY <1>1, <1>5, <1>2, <2>3, <2>1, <4>2, ModSmall
      <4>3. QED BY <3>1, <4>1, <4>2
    <3>3. l - n + W >= H
      BY <1>1, <1>2, <1>5
    <3>4. QED BY <1>1, <1>5, <2>3, <3>2, <3>3
  <2>4. QED BY <1>1, <1>5, <2>2, <2>3
<1>7. QED
  BY <1>3, <1>4, <1>5, <1>6 DEF Elapsed, W, H, at

LEMMA TimeoutIs ==
  ASSUME NEW n \in Timeout
  PROVE  n \in Nat \ {0} /\ n < HalfTick /\ n # Never
BY KernelAssumption DEF KernelAssumption, HalfTick, Never

(* rt_timer_start finds the place behind the timers that are due no later.  *)
LEMMA PlaceIs ==
  ASSUME ListTypes, Listed, Sorted, tick \in 0 .. TickWrap - 1, NEW n \in Timeout,
         \A u \in active : Left(u) \in Nat /\ Left(u) < HalfTick
  PROVE  LET k == PlaceFor((tick + n) % TickWrap) IN
         /\ k \in 1 .. Len(timers) + 1
         /\ \A i \in DOMAIN timers : IF i < k THEN Left(timers[i]) <= n
                                              ELSE Left(timers[i]) > n
<1> DEFINE at == (tick + n) % TickWrap
           later == {i \in DOMAIN timers : /\ due[timers[i]] # at
                                           /\ Elapsed(due[timers[i]], at) < HalfTick}
           k == PlaceFor(at)
<1>1. DOMAIN timers = 1 .. Len(timers) /\ Len(timers) \in Nat /\ n \in Nat /\ n < HalfTick
  BY LenProperties, TimeoutIs DEF ListTypes
<1>2. \A i \in DOMAIN timers : Left(timers[i]) \in Nat /\ (i \in later <=> Left(timers[i]) > n)
  <2> TAKE i \in DOMAIN timers
  <2>1. timers[i] \in active /\ timers[i] \in Thread
    BY DEF Listed, Range, ListTypes
  <2>2. due[timers[i]] \in 0 .. TickWrap - 1 /\ Left(timers[i]) \in Nat
         /\ Elapsed(due[timers[i]], tick) < HalfTick
    BY <2>1 DEF ListTypes, Left
  <2>3. (due[timers[i]] # at /\ Elapsed(due[timers[i]], at) < HalfTick)
           <=> Elapsed(due[timers[i]], tick) > n
    BY <1>1, <2>2, LaterIsLonger
  <2>4. QED BY <2>2, <2>3 DEF Left
<1>3. k = IF later = {} THEN Len(timers) + 1
          ELSE CHOOSE i \in later : \A j \in later : i <= j
  BY DEF PlaceFor
<1> HIDE DEF later, k
<1>4. later \subseteq DOMAIN timers /\ later \subseteq Nat
  BY <1>1 DEF later
<1>5. /\ k \in 1 .. Len(timers) + 1
      /\ k \in later \/ (later = {} /\ k = Len(timers) + 1)
      /\ \A j \in later : k <= j
  <2>1. CASE later = {}
    BY <1>1, <1>3, <2>1
  <2>2. CASE later # {}
    <3>1. \E i \in later : \A j \in later : i <= j
      BY <1>4, <2>2, LeastOf
    <3>2. k \in later /\ \A j \in later : k <= j
      BY <1>3, <2>2, <3>1
    <3>3. k \in 1 .. Len(timers)
      BY <1>1, <1>4, <3>2
    <3>4. k \in 1 .. Len(timers) + 1
      BY <1>1, <3>3
    <3>5. QED BY <3>2, <3>4
  <2>3. QED BY <2>1, <2>2
<1>6. ASSUME NEW i \in DOMAIN timers
      PROVE  IF i < k THEN Left(timers[i]) <= n ELSE Left(timers[i]) > n
  <2>1. CASE i < k
    <3>1. i \notin later
      BY <1>1, <1>5, <2>1
    <3>2. QED BY <1>1, <1>2, <2>1, <3>1
  <2>2. CASE ~(i < k)
    <3>1. k \in later /\ k \in DOMAIN timers
      BY <1>1, <1>4, <1>5, <2>2
    <3>2. Left(timers[k]) > n /\ (k < i => Left(timers[k]) <= Left(timers[i]))
      BY <1>2, <3>1 DEF Sorted
    <3>3. Left(timers[i]) \in Nat /\ Left(timers[k]) \in Nat /\ (i = k \/ k < i)
      BY <1>1, <1>2, <2>2, <3>1
    <3>4. QED BY <1>1, <2>2, <3>2, <3>3
  <2>3. QED BY <2>1, <2>2
<1>7. QED
  BY <1>5, <1>6 DEF k

(* rt_timer_start puts the timer there, and the list stays in order.        *)
LEMMA StartListed ==
  ASSUME ListTypes, Listed, Sorted, tick \in 0 .. TickWrap - 1, tick' = tick,
         \A u \in active : Left(u) \in Nat /\ Left(u) < HalfTick,
         NEW t \in Thread, t \notin active, NEW n \in Timeout, StartTimer(t, n)
  PROVE  /\ timers' \in Seq(Thread) /\ Distinct(timers') /\ Sorted'
         /\ Range(timers') = active \cup {t} /\ active' = active \cup {t}
         /\ due' \in [Thread -> 0 .. TickWrap - 1] /\ Left(t)' = n
         /\ \A u \in Thread \ {t} : due'[u] = due[u]
         /\ limit' = [limit EXCEPT ![t] = n] /\ waited' = waited
<1> DEFINE at == (tick + n) % TickWrap
           k == PlaceFor(at)
<1>1. /\ DOMAIN timers = 1 .. Len(timers) /\ Len(timers) \in Nat
      /\ n \in Nat /\ n < HalfTick /\ timers \in Seq(Thread)
  BY LenProperties, TimeoutIs DEF ListTypes
<1>2. /\ k \in 1 .. Len(timers) + 1
      /\ \A i \in DOMAIN timers : IF i < k THEN Left(timers[i]) <= n
                                           ELSE Left(timers[i]) > n
  BY PlaceIs
<1>3. /\ timers' = InsertAt(timers, k, t)
      /\ active' = active \cup {t} /\ due' = [due EXCEPT ![t] = at]
      /\ limit' = [limit EXCEPT ![t] = n] /\ waited' = waited
  BY DEF StartTimer
<1>4. at \in 0 .. TickWrap - 1 /\ Elapsed(at, tick) = n
  <2>1. Elapsed(tick, tick) = 0 /\ 0 < HalfTick
    <3>1. TickWrap \in Nat \ {0} /\ tick - tick = 0
      BY KernelAssumption DEF KernelAssumption
    <3>2. QED BY <1>1, <3>1, ModSmall DEF Elapsed, HalfTick
  <2>2. QED BY <1>1, <2>1, LaterIsLonger
<1> HIDE DEF k, at
<1>5. /\ timers' \in Seq(Thread) /\ DOMAIN timers' = 1 .. Len(timers) + 1
      /\ \A i \in 1 .. Len(timers) + 1 :
            timers'[i] = IF i < k THEN timers[i] ELSE IF i = k THEN t ELSE timers[i - 1]
  <2>1. /\ InsertAt(timers, k, t) \in Seq(Thread)
        /\ Len(InsertAt(timers, k, t)) = Len(timers) + 1
        /\ \A i \in 1 .. Len(timers) + 1 :
              InsertAt(timers, k, t)[i] = IF i < k THEN timers[i]
                                          ELSE IF i = k THEN t ELSE timers[i - 1]
    BY <1>1, <1>2, Inserted
  <2>2. /\ timers' \in Seq(Thread) /\ Len(timers') = Len(timers) + 1
        /\ \A i \in 1 .. Len(timers) + 1 :
              timers'[i] = IF i < k THEN timers[i] ELSE IF i = k THEN t ELSE timers[i - 1]
    BY <1>3, <2>1
  <2>3. DOMAIN timers' = 1 .. Len(timers')
    BY <2>2, LenProperties
  <2>4. QED BY <2>2, <2>3
<1>6. \A i \in DOMAIN timers : timers[i] \in active /\ timers[i] \in Thread /\ timers[i] # t
  BY DEF Listed, Range, ListTypes
<1>7. /\ due' \in [Thread -> 0 .. TickWrap - 1] /\ due'[t] = at
      /\ \A u \in Thread \ {t} : due'[u] = due[u]
  BY <1>3, <1>4 DEF ListTypes
<1>8. Left(t)' = n /\ \A u \in Thread \ {t} : Left(u)' = Left(u)
  BY <1>4, <1>7 DEF Left, Elapsed
<1>9. Range(timers') = active \cup {t}
  <2>1. ASSUME NEW x \in Range(timers') PROVE x \in active \cup {t}
    <3>1. PICK i \in 1 .. Len(timers) + 1 : x = timers'[i]
      BY <1>5 DEF Range
    <3>2. CASE i < k
      BY <1>1, <1>2, <1>5, <1>6, <3>1, <3>2
    <3>3. CASE i = k
      BY <1>5, <3>1, <3>3
    <3>4. CASE i > k
      <4>1. i - 1 \in DOMAIN timers /\ x = timers[i - 1]
        BY <1>1, <1>2, <1>5, <3>1, <3>4
      <4>2. QED BY <1>6, <4>1
    <3>5. QED BY <1>2, <3>2, <3>3, <3>4
  <2>2. t \in Range(timers')
    <3>1. timers'[k] = t /\ k \in DOMAIN timers'
      BY <1>2, <1>5
    <3>2. QED BY <3>1 DEF Range
  <2>3. ASSUME NEW x \in active PROVE x \in Range(timers')
    <3>1. PICK i \in DOMAIN timers : x = timers[i]
      BY DEF Listed, Range
    <3>2. CASE i < k
      <4>1. i \in DOMAIN timers' /\ timers'[i] = x
        BY <1>1, <1>2, <1>5, <3>1, <3>2
      <4>2. QED BY <4>1 DEF Range
    <3>3. CASE i >= k
      <4>1. i + 1 \in DOMAIN timers' /\ i + 1 > k /\ (i + 1) - 1 = i
        BY <1>1, <1>2, <1>5, <3>3
      <4>2. timers'[i + 1] = x
        BY <1>2, <1>5, <3>1, <4>1
      <4>3. QED BY <4>1, <4>2 DEF Range
    <3>4. QED BY <1>1, <1>2, <3>2, <3>3
  <2>4. QED BY <2>1, <2>2, <2>3
<1>10. ASSUME NEW i \in DOMAIN timers', NEW j \in DOMAIN timers', i < j
       PROVE  timers'[i] # timers'[j] /\ Left(timers[i])' <= Left(timers[j])'
  <2>1. /\ i \in 1 .. Len(timers) + 1 /\ j \in 1 .. Len(timers) + 1 /\ k \in Int
        /\ timers'[i] = IF i < k THEN timers[i] ELSE IF i = k THEN t ELSE timers[i - 1]
        /\ timers'[j] = IF j < k THEN timers[j] ELSE IF j = k THEN t ELSE timers[j - 1]
    BY <1>2, <1>5
  <2>2. \A a, b \in DOMAIN timers : a < b =>
           timers[a] # timers[b] /\ Left(timers[a]) <= Left(timers[b])
    BY <1>1 DEF Sorted, Listed, Distinct
  <2>3. CASE j < k
    <3>1. i \in DOMAIN timers /\ j \in DOMAIN timers /\ i < k
      BY <1>1, <1>2, <1>10, <2>1, <2>3
    <3>2. timers'[i] = timers[i] /\ timers'[j] = timers[j]
      BY <2>1, <2>3, <3>1
    <3>3. QED BY <1>6, <1>8, <1>10, <2>2, <3>1, <3>2
  <2>4. CASE j = k
    <3>1. i \in DOMAIN timers /\ i < k
      BY <1>1, <1>2, <1>10, <2>1, <2>4
    <3>2. timers'[i] = timers[i] /\ timers'[j] = t
      BY <2>1, <2>4, <3>1
    <3>3. Left(timers[i]) <= n
      BY <1>2, <3>1
    <3>4. QED BY <1>6, <1>8, <3>1, <3>2, <3>3
  <2>5. CASE j > k /\ i = k
    <3>1. j - 1 \in DOMAIN timers /\ ~(j - 1 < k)
      BY <1>1, <2>1, <2>5
    <3>2. timers'[i] = t /\ timers'[j] = timers[j - 1]
      BY <2>1, <2>5
    <3>3. Left(timers[j - 1]) > n
      BY <1>2, <3>1
    <3>4. Left(timers[j - 1]) \in Nat
      BY <1>6, <3>1
    <3>5. QED BY <1>1, <1>6, <1>8, <3>1, <3>2, <3>3, <3>4
  <2>6. CASE j > k /\ i < k
    <3>1. i \in DOMAIN timers /\ j - 1 \in DOMAIN timers /\ ~(j - 1 < k) /\ i < j - 1
      BY <1>1, <1>2, <2>1, <2>6
    <3>2. timers'[i] = timers[i] /\ timers'[j] = timers[j - 1]
      BY <2>1, <2>6
    <3>3. QED BY <1>6, <1>8, <2>2, <3>1, <3>2
  <2>7. CASE i > k
    <3>1. i - 1 \in DOMAIN timers /\ j - 1 \in DOMAIN timers /\ i - 1 < j - 1
      BY <1>1, <1>2, <1>10, <2>1, <2>7
    <3>2. timers'[i] = timers[i - 1] /\ timers'[j] = timers[j - 1]
      BY <1>10, <2>1, <2>7
    <3>3. QED BY <1>6, <1>8, <2>2, <3>1, <3>2
  <2>8. QED BY <1>10, <2>1, <2>3, <2>4, <2>5, <2>6, <2>7
<1>11. Distinct(timers') /\ Sorted'
  <2>1. DOMAIN timers' \subseteq Int
    BY <1>1, <1>5
  <2>2. Distinct(timers')
    BY <1>10, <2>1 DEF Distinct
  <2>3. Sorted'
    BY <1>10 DEF Sorted
  <2>4. QED BY <2>2, <2>3
<1>12. QED
  BY <1>3, <1>5, <1>7, <1>8, <1>9, <1>11

(* A timer is due when no tick is left.                                     *)
LEMMA DueIsOver ==
  ASSUME NEW k \in 0 .. TickWrap - 1, NEW d \in 0 .. TickWrap - 1,
         Elapsed(d, k) < HalfTick
  PROVE  Elapsed(k, d) < HalfTick <=> Elapsed(d, k) = 0
<1> DEFINE W == TickWrap
           H == HalfTick
<1>1. W \in Nat \ {0} /\ H \in Int /\ H + H < W
  BY KernelAssumption DEF KernelAssumption, HalfTick
<1>2. (d - k) % W < H /\ k \in 0 .. W - 1 /\ d \in 0 .. W - 1
  BY DEF Elapsed
<1> HIDE DEF W, H
<1>3. CASE d = k
  <2>1. d - k = 0 /\ k - d = 0
    BY <1>2, <1>3
  <2>2. 0 % W = 0
    BY <1>1, ModSmall
  <2>3. QED BY <1>2, <2>1, <2>2 DEF Elapsed, W, H
<1>4. CASE d > k
  <2>1. (d - k) % W = d - k
    BY <1>1, <1>2, <1>4, ModSmall
  <2>2. (k - d) % W = k - d + W
    BY <1>1, <1>2, <1>4, ModNegative
  <2>3. (k - d) % W > H /\ (d - k) % W # 0
    BY <1>1, <1>2, <1>4, <2>1, <2>2
  <2>4. QED BY <1>1, <2>1, <2>2, <2>3 DEF Elapsed, W, H
<1>5. CASE d < k
  <2>1. (d - k) % W = d - k + W
    BY <1>1, <1>2, <1>5, ModNegative
  <2>2. (k - d) % W = k - d
    BY <1>1, <1>2, <1>5, ModSmall
  <2>3. (k - d) % W > H /\ (d - k) % W # 0
    BY <1>1, <1>2, <1>5, <2>1, <2>2
  <2>4. QED BY <1>1, <2>1, <2>2, <2>3 DEF Elapsed, W, H
<1>6. QED BY <1>2, <1>3, <1>4, <1>5

(* rt_timer_check takes off exactly the timers that are due: the list is in *)
(* order.                                                                   *)
LEMMA FiredIs ==
  ASSUME ListTypes, Listed, Sorted, tick \in 0 .. TickWrap - 1,
         \A u \in active : Left(u) \in Nat /\ Left(u) < HalfTick
  PROVE  /\ Fired \in Seq(Thread) /\ Distinct(Fired)
         /\ Range(Fired) = {t \in active : Left(t) = 0}
<1> DEFINE late == {i \in DOMAIN timers : ~IsDue(timers[i])}
           n == IF late = {} THEN Len(timers)
                ELSE (CHOOSE i \in late : \A j \in late : i <= j) - 1
<1>1. DOMAIN timers = 1 .. Len(timers) /\ Len(timers) \in Nat /\ timers \in Seq(Thread)
  BY LenProperties DEF ListTypes
<1>2. \A i \in DOMAIN timers :
         Left(timers[i]) \in Nat /\ (i \in late <=> Left(timers[i]) # 0)
  <2> TAKE i \in DOMAIN timers
  <2>1. timers[i] \in active /\ timers[i] \in Thread
    BY DEF Listed, Range, ListTypes
  <2>2. due[timers[i]] \in 0 .. TickWrap - 1 /\ Left(timers[i]) \in Nat
         /\ Elapsed(due[timers[i]], tick) < HalfTick
    BY <2>1 DEF ListTypes, Left
  <2>3. Elapsed(tick, due[timers[i]]) < HalfTick <=> Elapsed(due[timers[i]], tick) = 0
    BY <2>2, DueIsOver
  <2>4. QED BY <2>2, <2>3 DEF Left, IsDue
<1>3. Fired = SubSeq(timers, 1, n)
  <2>1. timers = SubSeq(timers, 1, Len(timers))
    BY <1>1, SubSeqFull
  <2>2. Fired = IF late = {} THEN timers ELSE SubSeq(timers, 1, n)
    BY DEF Fired
  <2>3. late = {} => n = Len(timers)
    OBVIOUS
  <2> HIDE DEF late, n
  <2>4. QED BY <2>1, <2>2, <2>3
<1>4. /\ n \in 0 .. Len(timers)
      /\ \A i \in DOMAIN timers : i <= n <=> Left(timers[i]) = 0
  <2>1. CASE late = {}
    <3>1. n = Len(timers)
      BY <2>1
    <3> HIDE DEF n
    <3>2. QED BY <1>1, <1>2, <2>1, <3>1
  <2>2. CASE late # {}
    <3> HIDE DEF late
    <3>1. late \subseteq 1 .. Len(timers)
      BY <1>1 DEF late
    <3>2. \E i \in late : \A j \in late : i <= j
      <4>1. late \subseteq Nat
        BY <3>1
      <4>2. QED BY <2>2, <4>1, LeastOf
    <3>3. n + 1 \in late /\ (\A j \in late : n + 1 <= j) /\ n \in Int
      <4> DEFINE m == CHOOSE i \in late : \A j \in late : i <= j
      <4>1. m \in late /\ \A j \in late : m <= j
        BY <3>2
      <4>2. n = m - 1
        BY <2>2
      <4> HIDE DEF m, n
      <4>3. n + 1 = m /\ n \in Int
        BY <3>1, <4>1, <4>2
      <4>4. QED BY <4>1, <4>3
    <3> HIDE DEF n
    <3>4. n + 1 \in 1 .. Len(timers)
      BY <3>1, <3>3
    <3>5. ASSUME NEW i \in DOMAIN timers PROVE i <= n <=> Left(timers[i]) = 0
      <4>1. CASE i <= n
        <5>1. i \notin late
          BY <1>1, <3>3, <4>1
        <5>2. QED BY <1>2, <4>1, <5>1
      <4>2. CASE i > n
        <5>1. i = n + 1 \/ n + 1 < i
          BY <1>1, <3>3, <4>2
        <5>2. n + 1 \in DOMAIN timers /\ Left(timers[n + 1]) # 0
          BY <1>1, <1>2, <3>3, <3>4
        <5>3. n + 1 < i => Left(timers[n + 1]) <= Left(timers[i])
          BY <5>2 DEF Sorted
        <5>4. Left(timers[n + 1]) \in Nat /\ Left(timers[i]) \in Nat
          BY <1>2, <5>2
        <5>5. Left(timers[i]) # 0
          BY <5>1, <5>2, <5>3, <5>4
        <5>6. QED BY <1>1, <3>3, <4>2, <5>5
      <4>3. QED BY <1>1, <3>3, <4>1, <4>2
    <3>6. QED BY <1>1, <3>3, <3>4, <3>5
  <2>3. QED BY <2>1, <2>2
<1> HIDE DEF n
<1>5. /\ Fired \in Seq(Thread) /\ Range(Fired) = {timers[i] : i \in 1 .. n}
      /\ Distinct(Fired)
  BY <1>1, <1>3, <1>4, PrefixProperties DEF Listed
<1>6. {timers[i] : i \in 1 .. n} = {t \in active : Left(t) = 0}
  <2>1. active = {timers[i] : i \in 1 .. Len(timers)}
    BY <1>1 DEF Listed, Range
  <2>2. QED BY <1>1, <1>4, <2>1
<1>7. QED BY <1>5, <1>6

-----------------------------------------------------------------------------
(* The invariant of the kernel.                                             *)
TakePlaces == {"take_sched", "take_ret"}
SleepPlaces == {"sleep_sched", "sleep_ret"}
SchedPlaces == {"sched", "take_sched", "sleep_sched"}

(* Only the thread that locked the scheduler is between lock and unlock,    *)
(* and it keeps the processor.                                              *)
Lockers ==
  /\ \A t \in Thread : pc[t] = "locked" <=> lockNest = 1 /\ t = cpu
  /\ lockNest = 1 => switchFlag = FALSE

(* The current thread is ready, or has suspended itself and is about to     *)
(* call rt_schedule; idle never blocks.                                     *)
CurrentReady ==
  /\ stat[Idle] = "ready"
  /\ stat[current] = "ready" \/
        (switchFlag = FALSE /\ pc[current] \in {"take_sched", "sleep_sched"})
  /\ \A t \in Thread : stat[t] = "init" => pc[t] = "run"

(* Who is on the semaphore's list is in rt_sem_take, with no result yet;    *)
(* whose timer runs is there too, or sleeps.                                *)
Waiters ==
  /\ \A t \in Range(suspended) : pc[t] \in TakePlaces /\ error[t] = "EOK"
  /\ \A t \in active : pc[t] \in SleepPlaces \/
                         (pc[t] \in TakePlaces /\ t \in Range(suspended))

(* A timed call has waited for what is not left of its time, and a timer    *)
(* that comes due is seen by the tick that makes it so.                     *)
Clocks ==
  \A t \in Thread :
     IF t \in active
     THEN /\ limit[t] \in Timeout /\ waited[t] + Left(t) = limit[t]
          /\ Left(t) \in Nat /\ Left(t) < HalfTick
          /\ handler.at = "none" => Left(t) > 0
     ELSE limit[t] = Never /\ waited[t] = 0

Tokens == value > 0 => suspended = <<>>

(* Unless an rt_schedule is still to come, the current thread is the one it *)
(* would pick.                                                              *)
Served ==
  (/\ handler.at # "sched" /\ lockNest = 0
   /\ switchFlag = TRUE \/ pc[cpu] \notin SchedPlaces)
  => current = Candidate(ready, group)

ListInv == ListTypes /\ Table /\ Listed /\ Sorted

KernelInv ==
  /\ TypeOK /\ ContextSaved /\ ListInv /\ Lockers /\ CurrentReady /\ Waiters
  /\ Clocks /\ Tokens /\ Served

(* What a thread that runs its own code knows.                              *)
LEMMA RunnerIs ==
  ASSUME KernelInv, NEW t \in Thread, Runs(t)
  PROVE  /\ t = cpu /\ t = current /\ handler.at = "none" /\ switchFlag = FALSE
         /\ pc[t] \notin {"take_sched", "sleep_sched"} =>
               stat[t] = "ready" /\ t \notin Range(suspended) /\ t \notin active
         /\ pc[t] # "locked" => lockNest = 0
<1>1. t = cpu /\ t = current /\ handler.at = "none" /\ switchFlag = FALSE
  BY DEF Runs, KernelInv, ContextSaved, TypeOK
<1>2. pc[t] \notin {"take_sched", "sleep_sched"} => stat[t] = "ready"
  BY <1>1 DEF KernelInv, CurrentReady
<1>3. stat[t] = "ready" => t \notin Range(suspended) /\ t \notin active
  BY DEF KernelInv, ListInv, Listed
<1>4. pc[t] # "locked" => lockNest = 0
  BY <1>1 DEF KernelInv, Lockers, TypeOK
<1>5. QED BY <1>1, <1>2, <1>3, <1>4

(* A tick later, one tick less is left.                                     *)
LEMMA TickLeft ==
  ASSUME NEW k \in 0 .. TickWrap - 1, NEW d \in 0 .. TickWrap - 1,
         Elapsed(d, k) > 0, Elapsed(d, k) < HalfTick
  PROVE  Elapsed(d, (k + 1) % TickWrap) = Elapsed(d, k) - 1
<1> DEFINE W == TickWrap
           H == HalfTick
           m == (k + 1) % W
<1>1. W \in Nat \ {0} /\ H \in Int /\ H + H < W
  BY KernelAssumption DEF KernelAssumption, HalfTick
<1>2. k \in 0 .. W - 1 /\ d \in 0 .. W - 1
  OBVIOUS
<1> HIDE DEF W, H
<1>3. m = k + 1 \/ (k = W - 1 /\ m = 0)
  <2>1. CASE k + 1 < W
    BY <1>1, <1>2, <2>1, ModSmall
  <2>2. CASE k + 1 >= W
    <3>1. PICK a \in Int : a = k + 1 /\ a = W
      BY <1>1, <1>2, <2>2
    <3>2. a % W = a - W
      BY <1>1, <3>1, ModOver
    <3>3. QED BY <1>1, <1>2, <3>1, <3>2
  <2>3. QED BY <1>1, <1>2, <2>1, <2>2
<1> HIDE DEF m
<1>4. CASE d >= k
  <2>1. (d - k) % W = d - k
    BY <1>1, <1>2, <1>4, ModSmall
  <2>2. d > k
    BY <1>2, <1>4, <2>1 DEF Elapsed, W
  <2>3. m = k + 1
    BY <1>1, <1>2, <1>3, <2>2
  <2>4. d - m >= 0 /\ d - m < W /\ d - m \in Int /\ d - m = d - k - 1
    BY <1>1, <1>2, <2>2, <2>3
  <2>5. (d - m) % W = d - m
    BY <1>1, <2>4, ModSmall
  <2>6. QED BY <2>1, <2>4, <2>5 DEF Elapsed, m, W
<1>5. CASE d < k
  <2>1. (d - k) % W = d - k + W
    <3>1. -W <= d - k /\ d - k < 0 /\ d - k \in Int
      BY <1>1, <1>2, <1>5
    <3>2. QED BY <1>1, <3>1, ModNegative
  <2>2. CASE m = k + 1
    <3>1. d - m >= -W /\ d - m < 0 /\ d - m \in Int /\ d - m = d - k - 1
      BY <1>1, <1>2, <1>5, <2>2
    <3>2. (d - m) % W = d - m + W
      BY <1>1, <3>1, ModNegative
    <3>3. (d - m) % W = d - k + W - 1
      BY <1>1, <1>2, <3>1, <3>2
    <3>4. QED BY <1>2, <1>1, <2>1, <3>3 DEF Elapsed, m, W
  <2>3. CASE k = W - 1 /\ m = 0
    <3>1. (d - m) % W = d
      BY <1>1, <1>2, <2>3, ModSmall
    <3>2. d = d - k + W - 1
      BY <1>1, <1>2, <2>3
    <3>3. QED BY <1>1, <1>2, <2>1, <3>1, <3>2 DEF Elapsed, m, W
  <2>4. QED BY <1>3, <2>2, <2>3
<1>6. QED BY <1>2, <1>4, <1>5

(* The waiting threads have each a place of their own and are not ready.    *)
LEMMA WaitersAre ==
  ASSUME KernelInv
  PROVE  /\ suspended \in Seq(Thread) /\ Distinct(suspended)
         /\ Range(suspended) \subseteq Thread
         /\ \A t \in Range(suspended) : stat[t] = "suspend"
         /\ \A t \in active : t \in Thread /\ stat[t] = "suspend"
         /\ tick \in 0 .. TickWrap - 1
         /\ \A u \in active : Left(u) \in Nat /\ Left(u) < HalfTick
<1>1. suspended \in Seq(Thread) /\ Range(suspended) \subseteq Thread
  <2>1. suspended \in Seq(Thread)
    BY DEF KernelInv, ListInv, ListTypes
  <2>2. QED BY <2>1, RangeOfSeq
<1>2. active \subseteq Thread /\ tick \in 0 .. TickWrap - 1
  BY DEF KernelInv, TypeOK
<1>3. Distinct(suspended) /\
      \A t \in Thread : stat[t] = "suspend" <=> t \in Range(suspended) \/ t \in active
  BY DEF KernelInv, ListInv, Listed
<1>4. \A u \in active : Left(u) \in Nat /\ Left(u) < HalfTick
  BY <1>2 DEF KernelInv, Clocks
<1>5. QED BY <1>1, <1>2, <1>3, <1>4

(* A release serves the oldest waiter or leaves a token.                    *)
LEMMA ReleaseIs ==
  ASSUME KernelInv, ReleaseSem
  PROVE  \/ /\ suspended # <<>> /\ Head(suspended) \in Range(suspended)
            /\ Head(suspended) \in Thread
            /\ Resume(<<Head(suspended)>>) /\ value' = value
         \/ /\ suspended = <<>> /\ value < MaxValue /\ value' = value + 1
            /\ UNCHANGED <<lists, wait>>
<1>1. suspended # <<>> => Head(suspended) \in Range(suspended)
  <2> SUFFICES ASSUME suspended # <<>> PROVE Head(suspended) \in Range(suspended)
    OBVIOUS
  <2>1. 1 \in DOMAIN suspended /\ Head(suspended) = suspended[1]
    BY WaitersAre, LenProperties, EmptySeq
  <2>2. QED BY <2>1 DEF Range
<1>2. QED
  BY <1>1, WaitersAre DEF ReleaseSem

LEMMA Single ==
  ASSUME NEW t \in Thread
  PROVE  <<t>> \in Seq(Thread) /\ Range(<<t>>) = {t} /\ Distinct(<<t>>)
BY DEF Range, Distinct

(* Whoever is resumed, the lists stay in order.                             *)
LEMMA ResumeLists ==
  ASSUME KernelInv, NEW ws \in Seq(Thread), Distinct(ws),
         \A t \in Range(ws) : stat[t] # "ready", Resume(ws), tick' = tick
  PROVE  ListInv'
BY ResumeTable, ResumeListed DEF KernelInv, ListInv

LEMMA ReleaseLists ==
  ASSUME KernelInv, ReleaseSem, tick' = tick
  PROVE  ListInv'
<1>1. CASE suspended # <<>> /\ Head(suspended) \in Range(suspended)
           /\ Head(suspended) \in Thread /\ Resume(<<Head(suspended)>>)
  <2>1. stat[Head(suspended)] # "ready"
    BY <1>1, WaitersAre
  <2>2. QED BY <1>1, <2>1, Single, ResumeLists
<1>2. CASE UNCHANGED <<lists, wait>>
  BY <1>2 DEF KernelInv, ListInv, ListTypes, Table, TableOf, Listed, Sorted, Left,
              Elapsed, lists, wait
<1>3. QED BY <1>1, <1>2, ReleaseIs

(* Steps that leave lists and clocks alone.                                 *)
LEMMA SameLists ==
  ASSUME KernelInv, UNCHANGED <<lists, wait, tick>>
  PROVE  ListInv'
BY DEF KernelInv, ListInv, ListTypes, Table, TableOf, Listed, Sorted, Left, Elapsed,
       lists, wait

(* A call that blocks: off the ready list, and on with the timer.           *)
LEMMA BlockLists ==
  ASSUME KernelInv, NEW t \in Thread, t \notin active, t \notin Range(suspended),
         Suspend(t), tick' = tick, NEW q, q \in {suspended, Append(suspended, t)},
         suspended' = q,
         \/ /\ q = Append(suspended, t)
            /\ UNCHANGED <<timers, active, due, limit, waited>>
         \/ \E n \in Timeout : StartTimer(t, n)
  PROVE  ListInv'
<1>1. /\ stat' \in [Thread -> {"init", "ready", "suspend"}]
      /\ ready' \in [Priority -> Seq(Thread)] /\ group' \subseteq Priority
      /\ stat' = [stat EXCEPT ![t] = "suspend"] /\ Table'
  BY SuspendTable DEF KernelInv, ListInv
<1>2. /\ suspended' \in Seq(Thread) /\ Distinct(suspended')
      /\ Range(suspended') \subseteq Range(suspended) \cup {t}
      /\ Range(suspended) \subseteq Range(suspended')
      /\ q = Append(suspended, t) => t \in Range(suspended')
  <2>1. suspended \in Seq(Thread) /\ Distinct(suspended)
    BY WaitersAre
  <2>2. /\ Append(suspended, t) \in Seq(Thread) /\ Distinct(Append(suspended, t))
        /\ Range(Append(suspended, t)) = Range(suspended) \cup {t}
    BY <2>1, DistinctAppend, RangeAppend, AppendProperties
  <2>3. QED BY <2>1, <2>2
<1>3. ListTypes /\ Listed /\ Sorted
  BY DEF KernelInv, ListInv
<1>4. CASE q = Append(suspended, t) /\ UNCHANGED <<timers, active, due, limit, waited>>
  <2>1. Sorted' /\ ListTypes'
    BY <1>1, <1>2, <1>3, <1>4 DEF Sorted, Left, Elapsed, ListTypes
  <2>2. Listed'
    BY <1>1, <1>2, <1>3, <1>4 DEF Listed, ListTypes
  <2>3. QED BY <1>1, <2>1, <2>2 DEF ListInv
<1>5. ASSUME NEW n \in Timeout, StartTimer(t, n) PROVE ListInv'
  <2>1. /\ timers' \in Seq(Thread) /\ Distinct(timers') /\ Sorted'
        /\ Range(timers') = active \cup {t} /\ active' = active \cup {t}
        /\ due' \in [Thread -> 0 .. TickWrap - 1]
        /\ limit' = [limit EXCEPT ![t] = n] /\ waited' = waited
    BY <1>3, <1>5, WaitersAre, StartListed
  <2>2. ListTypes'
    BY <1>1, <1>2, <1>3, <2>1 DEF ListTypes
  <2>3. Listed'
    BY <1>1, <1>2, <1>3, <2>1 DEF Listed, ListTypes
  <2>4. QED BY <1>1, <2>1, <2>2, <2>3 DEF ListInv
<1>6. QED BY <1>4, <1>5

(* The rotation of a time slice keeps the ready lists.                      *)
LEMMA YieldLists ==
  ASSUME KernelInv, TickYield
  PROVE  ListInv'
<1> DEFINE mine == Prio[current]
           rest == Without(ready[mine], {current})
           rotated == Append(rest, current)
<1>1. /\ UNCHANGED <<stat, group, wait, tick>>
      /\ \/ ready' = ready
         \/ stat[current] = "ready" /\ ready' = [ready EXCEPT ![mine] = rotated]
  BY DEF TickYield
<1>2. CASE ready' = ready
  BY <1>1, <1>2, SameLists DEF lists
<1>3. CASE stat[current] = "ready" /\ ready' = [ready EXCEPT ![mine] = rotated]
  <2>1. ListTypes /\ Table /\ Listed /\ Sorted /\ current \in Thread
    BY DEF KernelInv, ListInv, TypeOK
  <2>2. mine \in Priority /\ ready[mine] \in Seq(Thread)
    BY <2>1, PriorityIsNat DEF ListTypes
  <2>3. /\ Distinct(ready[mine])
        /\ Range(ready[mine]) = {t \in Thread : stat[t] = "ready" /\ Prio[t] = mine}
        /\ mine \in group <=> ready[mine] # <<>>
    BY <2>1, <2>2 DEF Table, TableOf
  <2>4. current \in Range(ready[mine])
    BY <1>3, <2>1, <2>3
  <2>5. rest \in Seq(Thread) /\ Distinct(rest) /\ Range(rest) = Range(ready[mine]) \ {current}
    BY <2>2, <2>3, WithoutProperties
  <2> HIDE DEF rest
  <2>6. /\ rotated \in Seq(Thread) /\ Distinct(rotated)
        /\ Range(rotated) = Range(ready[mine]) /\ rotated # <<>>
    <3>1. rotated \in Seq(Thread) /\ rotated # <<>>
      BY <2>1, <2>5, AppendProperties
    <3>2. Distinct(rotated)
      BY <2>1, <2>5, DistinctAppend
    <3>3. Range(rotated) = Range(rest) \cup {current}
      BY <2>1, <2>5, RangeAppend
    <3>4. QED BY <2>4, <2>5, <3>1, <3>2, <3>3
  <2>7. ready[mine] # <<>>
    BY <2>2, <2>4, EmptyRange
  <2> HIDE DEF rotated
  <2>8. ListTypes'
    BY <1>1, <1>3, <2>1, <2>2, <2>6 DEF ListTypes, wait
  <2>9. Table'
    <3> SUFFICES ASSUME NEW p \in Priority
                 PROVE  /\ Distinct(ready'[p])
                        /\ Range(ready'[p]) = {t \in Thread : stat[t] = "ready" /\ Prio[t] = p}
                        /\ p \in group <=> ready'[p] # <<>>
      BY <1>1 DEF Table, TableOf
    <3>1. CASE p = mine
      <4>1. ready'[p] = rotated
        BY <1>3, <2>1, <2>2, <3>1 DEF ListTypes
      <4>2. QED BY <2>3, <2>6, <2>7, <3>1, <4>1
    <3>2. CASE p # mine
      <4>1. ready'[p] = ready[p]
        BY <1>3, <2>1, <3>2 DEF ListTypes
      <4>2. QED BY <2>1, <4>1 DEF Table, TableOf
    <3>3. QED BY <3>1, <3>2
  <2>10. Listed' /\ Sorted'
    BY <1>1, <2>1 DEF Listed, Sorted, Left, Elapsed, wait
  <2>11. QED BY <2>8, <2>9, <2>10 DEF ListInv
<1>4. QED BY <1>1, <1>2, <1>3

(* A tick brings every timer one nearer, so their order stays.              *)
LEMMA TickLists ==
  ASSUME KernelInv, TickEnter
  PROVE  /\ ListInv' /\ tick' \in 0 .. TickWrap - 1
         /\ \A t \in active : Left(t)' = Left(t) - 1
<1>1. /\ tick' = (tick + 1) % TickWrap /\ handler.at = "none"
      /\ UNCHANGED <<lists, suspended, timers, active, due, limit>>
      /\ waited' = [t \in Thread |-> IF t \in active THEN waited[t] + 1 ELSE waited[t]]
  BY DEF TickEnter
<1>2. ListTypes /\ Table /\ Listed /\ Sorted /\ tick \in 0 .. TickWrap - 1
  BY DEF KernelInv, ListInv, TypeOK
<1>3. \A t \in active : Left(t)' = Left(t) - 1 /\ Left(t) \in Nat
  <2> TAKE t \in active
  <2>1. t \in Thread /\ due[t] \in 0 .. TickWrap - 1
    BY <1>2 DEF ListTypes
  <2>2. Left(t) \in Nat /\ Left(t) > 0 /\ Left(t) < HalfTick
    BY <1>1, <2>1 DEF KernelInv, Clocks
  <2>3. Elapsed(due[t], (tick + 1) % TickWrap) = Elapsed(due[t], tick) - 1
    BY <1>2, <2>1, <2>2, TickLeft DEF Left
  <2>4. QED BY <1>1, <2>2, <2>3 DEF Left, Elapsed
<1>4. tick' \in 0 .. TickWrap - 1
  BY <1>1, <1>2, KernelAssumption DEF KernelAssumption
<1>5. Sorted'
  <2> SUFFICES ASSUME NEW i \in DOMAIN timers, NEW j \in DOMAIN timers, i < j
               PROVE  Left(timers[i])' <= Left(timers[j])'
    BY <1>1 DEF Sorted
  <2>1. timers[i] \in active /\ timers[j] \in active
    BY <1>2 DEF Listed, Range
  <2>2. Left(timers[i]) <= Left(timers[j])
    BY <1>2 DEF Sorted
  <2>3. Left(timers[i])' = Left(timers[i]) - 1 /\ Left(timers[j])' = Left(timers[j]) - 1
    BY <1>1, <1>3, <2>1 DEF Left, Elapsed
  <2>4. QED BY <1>3, <2>1, <2>2, <2>3
<1>6. ListTypes' /\ Table' /\ Listed'
  BY <1>1, <1>2 DEF ListTypes, Table, TableOf, Listed, lists
<1>7. QED BY <1>3, <1>4, <1>5, <1>6 DEF ListInv

-----------------------------------------------------------------------------
(* What the steps have in common.                                           *)

(* Threads that are not ready are made ready.                               *)
Wakes(W) ==
  \E ws \in Seq(Thread) :
     /\ W = Range(ws) /\ Distinct(ws) /\ \A t \in W : stat[t] # "ready"
     /\ Resume(ws)

LEMMA WakesIs ==
  ASSUME KernelInv, NEW W, Wakes(W), tick' = tick
  PROVE  /\ ListInv' /\ W \subseteq Thread
         /\ Range(suspended') = Range(suspended) \ W /\ active' = active \ W
         /\ suspended' = Without(suspended, W)
         /\ \A t \in Thread :
               /\ stat'[t] = IF t \in W THEN "ready" ELSE stat[t]
               /\ t \notin W => due'[t] = due[t]
               /\ limit'[t] = IF t \in W THEN Never ELSE limit[t]
               /\ waited'[t] = IF t \in W THEN 0 ELSE waited[t]
<1>1. PICK ws \in Seq(Thread) :
         /\ W = Range(ws) /\ Distinct(ws) /\ \A t \in W : stat[t] # "ready"
         /\ Resume(ws)
  BY DEF Wakes
<1>2. ListInv' /\ W \subseteq Thread
  BY <1>1, ResumeLists, RangeOfSeq
<1>3. /\ suspended' = Without(suspended, W) /\ active' = active \ W
      /\ \A t \in Thread :
            /\ stat'[t] = IF t \in W THEN "ready" ELSE stat[t]
            /\ t \notin W => due'[t] = due[t]
            /\ limit'[t] = IF t \in W THEN Never ELSE limit[t]
            /\ waited'[t] = IF t \in W THEN 0 ELSE waited[t]
  BY <1>1 DEF Resume
<1>4. Range(suspended') = Range(suspended) \ W
  BY <1>3, WaitersAre, WithoutProperties
<1>5. QED BY <1>2, <1>3, <1>4

(* rt_thread_startup of a thread that has not run.                          *)
LEMMA StartupWakes ==
  ASSUME KernelInv, NEW t \in Thread, NEW u \in Thread, Startup(t, u)
  PROVE  Wakes({u})
<1>1. stat[u] = "init" /\ Resume(<<u>>)
  BY DEF Startup
<1>2. QED BY <1>1, Single DEF Wakes

LEMMA ReleaseWakes ==
  ASSUME KernelInv, ReleaseSem
  PROVE  \/ /\ suspended # <<>> /\ Head(suspended) \in Range(suspended)
            /\ Wakes({Head(suspended)}) /\ value' = value
         \/ /\ suspended = <<>> /\ value < MaxValue /\ value' = value + 1
            /\ UNCHANGED <<lists, wait>>
<1>1. CASE suspended # <<>> /\ Head(suspended) \in Range(suspended)
           /\ Head(suspended) \in Thread /\ Resume(<<Head(suspended)>>) /\ value' = value
  <2>1. stat[Head(suspended)] # "ready"
    BY <1>1, WaitersAre
  <2>2. Wakes({Head(suspended)})
    BY <1>1, <2>1, Single DEF Wakes
  <2>3. QED BY <1>1, <2>2
<1>2. QED BY <1>1, ReleaseIs

LEMMA ResetWakes ==
  ASSUME KernelInv, NEW t \in Thread, Reset(t)
  PROVE  Wakes(Range(suspended))
<1>1. Resume(suspended)
  BY DEF Reset
<1>2. \A u \in Range(suspended) : stat[u] # "ready"
  BY WaitersAre
<1>3. QED BY <1>1, <1>2, WaitersAre DEF Wakes

LEMMA CheckWakes ==
  ASSUME KernelInv, TickCheck
  PROVE  Wakes({t \in active : Left(t) = 0}) /\ Range(Fired) = {t \in active : Left(t) = 0}
<1>1. Fired \in Seq(Thread) /\ Distinct(Fired) /\ Range(Fired) = {t \in active : Left(t) = 0}
  BY FiredIs, WaitersAre DEF KernelInv, ListInv
<1>2. \A u \in Range(Fired) : stat[u] # "ready"
  BY <1>1, WaitersAre
<1>3. Resume(Fired)
  BY DEF TickCheck
<1>4. QED BY <1>1, <1>2, <1>3 DEF Wakes

(* A blocking call takes only its caller off the ready lists.               *)
LEMMA BlockIs ==
  ASSUME KernelInv, NEW t \in Thread,
         (\E n \in Timeout \cup {Never} : TakeBlock(t, n)) \/ (\E n \in Timeout : Sleep(t, n))
  PROVE  /\ ListInv' /\ Calls(t) /\ t \notin active /\ t \notin Range(suspended)
         /\ stat' = [stat EXCEPT ![t] = "suspend"] /\ tick' = tick
         /\ UNCHANGED <<switch, lockNest, value, remaining, handler, cpu>>
<1>1. Calls(t) /\ Suspend(t) /\ tick' = tick
      /\ UNCHANGED <<switch, lockNest, value, remaining, handler, cpu>>
  BY DEF TakeBlock, Sleep
<1>2. t \notin active /\ t \notin Range(suspended)
  BY <1>1, RunnerIs DEF Calls
<1>3. stat' = [stat EXCEPT ![t] = "suspend"]
  BY <1>1 DEF Suspend
<1>4. ASSUME NEW n \in Timeout \cup {Never}, TakeBlock(t, n) PROVE ListInv'
  <2>1. /\ suspended' = Append(suspended, t)
        /\ IF n = Never THEN UNCHANGED <<timers, active, due, limit, waited>>
                        ELSE StartTimer(t, n)
    BY <1>4 DEF TakeBlock
  <2>2. UNCHANGED <<timers, active, due, limit, waited>> \/ \E m \in Timeout : StartTimer(t, m)
    BY <2>1
  <2>3. QED BY <1>1, <1>2, <2>1, <2>2, BlockLists
<1>5. ASSUME NEW n \in Timeout, Sleep(t, n) PROVE ListInv'
  <2>1. suspended' = suspended /\ StartTimer(t, n)
    BY <1>5 DEF Sleep
  <2>2. \E m \in Timeout : StartTimer(t, m)
    BY <2>1
  <2>3. QED BY <1>1, <1>2, <2>1, <2>2, BlockLists
<1>6. QED BY <1>1, <1>2, <1>3, <1>4, <1>5

(* Every step keeps the lists in order.                                     *)
LEMMA ListStep == ASSUME KernelInv, [Next]_vars PROVE ListInv'
<1>1. ASSUME NEW t \in Thread, Call(t) PROVE ListInv'
  <2>1. ASSUME NEW u \in Thread, Startup(t, u) PROVE ListInv'
    <3>1. tick' = tick
      BY <2>1 DEF Startup
    <3>2. QED BY <2>1, <3>1, StartupWakes, WakesIs
  <2>2. CASE TakeNow(t) \/ EnterCritical(t)
    <3>1. UNCHANGED <<lists, wait, tick>>
      BY <2>2 DEF TakeNow, EnterCritical
    <3>2. QED BY <3>1, SameLists
  <2>3. CASE Release(t)
    <3>1. ReleaseSem /\ tick' = tick
      BY <2>3 DEF Release
    <3>2. QED BY <3>1, ReleaseLists
  <2>4. CASE Reset(t)
    <3>1. tick' = tick
      BY <2>4 DEF Reset
    <3>2. QED BY <2>4, <3>1, ResetWakes, WakesIs
  <2>5. CASE (\E n \in Timeout \cup {Never} : TakeBlock(t, n)) \/ (\E n \in Timeout : Sleep(t, n))
    BY <2>5, BlockIs
  <2>6. QED BY <1>1, <2>1, <2>2, <2>3, <2>4, <2>5 DEF Call
<1>2. ASSUME NEW t \in Thread, Continue(t) PROVE ListInv'
  <2>1. UNCHANGED <<lists, wait, tick>>
    BY <1>2 DEF Continue, CallSchedule, Return, ExitCritical
  <2>2. QED BY <2>1, SameLists
<1>3. CASE TickEnter
  BY <1>3, TickLists
<1>4. CASE TickSlice \/ TickSchedule \/ PendSV
  <2>1. UNCHANGED <<lists, wait, tick>>
    BY <1>4 DEF TickSlice, TickSchedule, PendSV
  <2>2. QED BY <2>1, SameLists
<1>5. CASE TickYield
  BY <1>5, YieldLists
<1>6. CASE TickCheck
  <2>1. tick' = tick
    BY <1>6 DEF TickCheck
  <2>2. QED BY <1>6, <2>1, CheckWakes, WakesIs
<1>7. CASE DeviceRelease
  <2>1. ReleaseSem /\ tick' = tick
    BY <1>7 DEF DeviceRelease
  <2>2. QED BY <2>1, ReleaseLists
<1>8. CASE UNCHANGED vars
  <2>1. UNCHANGED <<lists, wait, tick>>
    BY <1>8 DEF vars
  <2>2. QED BY <2>1, SameLists
<1>9. QED
  BY <1>1, <1>2, <1>3, <1>4, <1>5, <1>6, <1>7, <1>8 DEF Next, TickHandler

(* rt_schedule leaves a ready thread current, the candidate if it may.      *)
LEMMA ScheduleIs ==
  ASSUME KernelInv, NEW rdy \in [Priority -> Seq(Thread)], NEW grp \in SUBSET Priority,
         NEW st, TableOf(rdy, grp, st), st[Idle] = "ready", Schedule(rdy, grp)
  PROVE  /\ current' \in Thread /\ fromThread' \in Thread /\ toThread' \in Thread
         /\ switchFlag' \in BOOLEAN
         /\ lockNest = 0 => current' = Candidate(rdy, grp) /\ st[current'] = "ready"
         /\ UNCHANGED switch \/ (lockNest = 0 /\ switchFlag' = TRUE)
<1>1. Candidate(rdy, grp) \in Thread /\ st[Candidate(rdy, grp)] = "ready"
  BY CandidateIs
<1>2. /\ current \in Thread /\ fromThread \in Thread /\ toThread \in Thread
      /\ switchFlag \in BOOLEAN
  BY DEF KernelInv, TypeOK
<1>3. CASE lockNest = 0 /\ Candidate(rdy, grp) # current
  BY <1>1, <1>2, <1>3 DEF Schedule
<1>4. CASE ~(lockNest = 0 /\ Candidate(rdy, grp) # current)
  <2>1. UNCHANGED switch
    BY <1>4 DEF Schedule
  <2>2. QED BY <1>1, <1>2, <1>4, <2>1 DEF switch
<1>5. QED BY <1>3, <1>4

(* Its uses: at the end of a call, and in a handler that has made threads   *)
(* ready.                                                                   *)
LEMMA ScheduleNow ==
  ASSUME KernelInv, Schedule(ready, group)
  PROVE  /\ current' \in Thread /\ fromThread' \in Thread /\ toThread' \in Thread
         /\ switchFlag' \in BOOLEAN
         /\ lockNest = 0 => current' = Candidate(ready, group) /\ stat[current'] = "ready"
         /\ UNCHANGED switch \/ (lockNest = 0 /\ switchFlag' = TRUE)
<1>1. /\ ready \in [Priority -> Seq(Thread)] /\ group \in SUBSET Priority
      /\ TableOf(ready, group, stat) /\ stat[Idle] = "ready"
  BY DEF KernelInv, ListInv, ListTypes, Table, CurrentReady
<1>2. QED BY <1>1, ScheduleIs

LEMMA IdleStays ==
  ASSUME KernelInv, NEW W, Wakes(W), tick' = tick
  PROVE  stat'[Idle] = "ready"
<1>1. Idle \in Thread /\ stat[Idle] = "ready"
  BY KernelAssumption DEF KernelAssumption, KernelInv, CurrentReady
<1>2. QED BY <1>1, WakesIs

LEMMA ScheduleThen ==
  ASSUME KernelInv, NEW W, Wakes(W), tick' = tick, Schedule(ready', group')
  PROVE  /\ current' \in Thread /\ fromThread' \in Thread /\ toThread' \in Thread
         /\ switchFlag' \in BOOLEAN
         /\ lockNest = 0 => current' = Candidate(ready', group') /\ stat'[current'] = "ready"
         /\ UNCHANGED switch \/ (lockNest = 0 /\ switchFlag' = TRUE)
<1>1. /\ ready' \in [Priority -> Seq(Thread)] /\ group' \in SUBSET Priority
      /\ TableOf(ready', group', stat') /\ stat'[Idle] = "ready"
  BY IdleStays, WakesIs DEF ListInv, ListTypes, Table
<1>2. QED BY <1>1, ScheduleIs

(* What a handler that resumes somebody, or nobody, does to the switch.     *)
LEMMA HandlerSwitch ==
  ASSUME KernelInv, TickCheck \/ DeviceRelease
  PROVE  /\ current' \in Thread /\ fromThread' \in Thread /\ toThread' \in Thread
         /\ switchFlag' \in BOOLEAN
         /\ \/ UNCHANGED <<switch, lists>>
            \/ lockNest = 0 => current' = Candidate(ready', group')
                               /\ stat'[current'] = "ready"
         /\ UNCHANGED switch \/ (lockNest = 0 /\ switchFlag' = TRUE)
<1>1. /\ current \in Thread /\ fromThread \in Thread /\ toThread \in Thread
      /\ switchFlag \in BOOLEAN /\ tick' = tick
  BY DEF KernelInv, TypeOK, TickCheck, DeviceRelease
<1>2. CASE TickCheck
  <2>1. /\ Wakes({t \in active : Left(t) = 0})
        /\ Range(Fired) = {t \in active : Left(t) = 0}
        /\ Fired \in Seq(Thread)
    BY <1>2, CheckWakes, FiredIs, WaitersAre DEF KernelInv, ListInv
  <2>2. CASE Fired # <<>>
    <3>1. Schedule(ready', group')
      BY <1>2, <2>2 DEF TickCheck
    <3>2. QED BY <1>1, <2>1, <3>1, ScheduleThen
  <2>3. CASE Fired = <<>>
    <3>1. UNCHANGED switch
      BY <1>2, <2>3 DEF TickCheck
    <3>2. Range(Fired) = {}
      BY <2>3 DEF Range
    <3>3. UNCHANGED lists
      <4>1. Resume(<<>>) /\ Range(<<>>) = {}
        BY <1>2, <2>3 DEF TickCheck, Range
      <4>2. stat' = [t \in Thread |-> stat[t]]
        BY <4>1 DEF Resume
      <4>3. group' = group
        BY <4>1 DEF Resume
      <4>4. ready' = [p \in Priority |-> ready[p] \o Without(<<>>, {t \in Thread : Prio[t] # p})]
        BY <4>1 DEF Resume
      <4>5. \A S : Without(<<>>, S) = <<>>
        <5>1. <<>> \in Seq(Thread)
          OBVIOUS
        <5>2. QED BY <4>1, <5>1, WithoutProperties
      <4>6. \A p \in Priority : ready[p] \in Seq(Thread)
        BY DEF KernelInv, ListInv, ListTypes
      <4>7. \A p \in Priority : ready[p] \o <<>> = ready[p]
        BY <4>6, ConcatEmptySeq
      <4>8. ready' = ready
        BY <4>4, <4>5, <4>7 DEF KernelInv, ListInv, ListTypes
      <4>9. stat' = stat
        BY <4>2 DEF KernelInv, ListInv, ListTypes
      <4>10. QED BY <4>3, <4>8, <4>9 DEF lists
    <3>4. QED BY <1>1, <3>1, <3>3 DEF switch
  <2>4. QED BY <2>2, <2>3
<1>3. CASE DeviceRelease
  <2>1. ReleaseSem
    BY <1>3 DEF DeviceRelease
  <2>2. CASE suspended # <<>> /\ Wakes({Head(suspended)})
    <3>1. Schedule(ready', group')
      BY <1>3, <2>2 DEF DeviceRelease
    <3>2. QED BY <1>1, <2>2, <3>1, ScheduleThen
  <2>3. CASE suspended = <<>> /\ UNCHANGED <<lists, wait>>
    <3>1. UNCHANGED switch
      BY <1>3, <2>3 DEF DeviceRelease
    <3>2. QED BY <1>1, <2>3, <3>1 DEF switch
  <2>4. QED BY <2>1, <2>2, <2>3, ReleaseWakes
<1>4. QED BY <1>2, <1>3

LEMMA ReleaseValue ==
  ASSUME KernelInv, ReleaseSem
  PROVE  value' \in 0 .. MaxValue
<1>1. value \in 0 .. MaxValue /\ MaxValue \in Nat
  BY KernelAssumption DEF KernelAssumption, KernelInv, TypeOK
<1>2. value' = value \/ (value' = value + 1 /\ value < MaxValue)
  BY ReleaseIs
<1>3. QED BY <1>1, <1>2

(* Types, and the scheduler lock.                                           *)
LEMMA TypeStep == ASSUME KernelInv, [Next]_vars PROVE TypeOK' /\ Lockers'
<1>1. ListTypes'
  BY ListStep DEF ListInv
<1>2. TypeOK /\ Lockers /\ ContextSaved
  BY DEF KernelInv
<1> USE DEF TypeOK, Lockers, Goto
<1>3. ASSUME NEW t \in Thread, Call(t) PROVE TypeOK' /\ Lockers'
  <2>1. Calls(t)
    BY <1>3 DEF Call, Startup, TakeNow, TakeBlock, Sleep, Release, Reset, EnterCritical
  <2>2. t = cpu /\ lockNest = 0 /\ switchFlag = FALSE /\ pc[t] = "run"
    BY <2>1, RunnerIs DEF Calls
  <2>3. ASSUME NEW u \in Thread, Startup(t, u) PROVE TypeOK' /\ Lockers'
    BY <1>1, <1>2, <2>2, <2>3 DEF Startup, ListTypes, switch
  <2>4. CASE TakeNow(t)
    <3>1. value' = value - 1 /\ value > 0
          /\ UNCHANGED <<tick, switch, lockNest, error, remaining, pc, handler, cpu>>
      BY <2>4 DEF TakeNow
    <3>2. value' \in 0 .. MaxValue
      BY <1>2, <3>1, KernelAssumption DEF KernelAssumption
    <3>3. QED BY <1>1, <1>2, <3>1, <3>2 DEF ListTypes, switch
  <2>5. CASE EnterCritical(t)
    <3>1. /\ lockNest' = 1 /\ pc' = [pc EXCEPT ![t] = "locked"]
          /\ UNCHANGED <<tick, switch, value, error, remaining, handler, cpu>>
      BY <2>2, <2>5 DEF EnterCritical
    <3>2. TypeOK'
      BY <1>1, <1>2, <3>1 DEF ListTypes, switch
    <3>3. \A u \in Thread : pc'[u] = "locked" <=> u = t
      BY <1>2, <2>2, <3>1
    <3>4. QED BY <2>2, <3>1, <3>2, <3>3 DEF switch
  <2>6. CASE Release(t)
    <3>1. ReleaseSem /\ UNCHANGED <<tick, switch, lockNest, error, remaining, handler, cpu>>
          /\ pc' = [pc EXCEPT ![t] = IF suspended # <<>> THEN "sched" ELSE "run"]
      BY <2>6 DEF Release
    <3>2. value' \in 0 .. MaxValue
      BY <1>2, <3>1, ReleaseValue
    <3>3. QED BY <1>1, <1>2, <2>2, <3>1, <3>2 DEF ListTypes, switch
  <2>7. CASE Reset(t)
    <3>1. /\ error' \in [Thread -> {"EOK", "ETIMEOUT", "ERROR"}]
          /\ value' \in 0 .. MaxValue
      BY <1>2, <2>7, KernelAssumption DEF Reset, KernelAssumption
    <3>2. UNCHANGED <<tick, switch, lockNest, remaining, handler, cpu>>
          /\ pc' = [pc EXCEPT ![t] = "sched"]
      BY <2>7 DEF Reset
    <3>3. QED BY <1>1, <1>2, <2>2, <3>1, <3>2 DEF ListTypes, switch
  <2>8. ASSUME NEW n \in Timeout \cup {Never}, TakeBlock(t, n) PROVE TypeOK' /\ Lockers'
    BY <1>1, <1>2, <2>2, <2>8 DEF TakeBlock, ListTypes, switch
  <2>9. ASSUME NEW n \in Timeout, Sleep(t, n) PROVE TypeOK' /\ Lockers'
    BY <1>1, <1>2, <2>2, <2>9 DEF Sleep, ListTypes, switch
  <2>10. QED
    BY <1>3, <2>3, <2>4, <2>5, <2>6, <2>7, <2>8, <2>9 DEF Call
<1>4. ASSUME NEW t \in Thread, Continue(t) PROVE TypeOK' /\ Lockers'
  <2>1. Runs(t)
    BY <1>4 DEF Continue, CallSchedule, Return, ExitCritical
  <2>2. t = cpu /\ switchFlag = FALSE /\ (pc[t] # "locked" => lockNest = 0)
    BY <2>1, RunnerIs
  <2>3. CASE CallSchedule(t)
    <3>1. /\ Schedule(ready, group) /\ pc[t] \in {"sched", "take_sched", "sleep_sched"}
          /\ UNCHANGED <<tick, lists, wait, lockNest, value, error, remaining, handler, cpu>>
          /\ pc' = [pc EXCEPT ![t] = CASE pc[t] = "sched" -> "run"
                                       [] pc[t] = "take_sched" -> "take_ret"
                                       [] pc[t] = "sleep_sched" -> "sleep_ret"]
      BY <2>3 DEF CallSchedule
    <3>2. \E x \in {"run", "take_ret", "sleep_ret"} : pc' = [pc EXCEPT ![t] = x]
      BY <3>1
    <3>3. /\ current' \in Thread /\ fromThread' \in Thread /\ toThread' \in Thread
          /\ switchFlag' \in BOOLEAN
      BY <3>1, ScheduleNow
    <3>4. QED BY <1>1, <1>2, <2>2, <3>1, <3>2, <3>3 DEF ListTypes
  <2>4. CASE Return(t)
    BY <1>1, <1>2, <2>2, <2>4 DEF Return, ListTypes, switch
  <2>5. CASE ExitCritical(t)
    <3>1. /\ pc[t] = "locked" /\ lockNest' = lockNest - 1 /\ pc' = [pc EXCEPT ![t] = "sched"]
          /\ UNCHANGED <<tick, switch, value, error, remaining, handler, cpu>>
      BY <2>5 DEF ExitCritical
    <3>2. lockNest' = 0
      BY <1>2, <2>2, <3>1
    <3>3. TypeOK'
      BY <1>1, <1>2, <3>1, <3>2 DEF ListTypes, switch
    <3>4. \A u \in Thread : pc'[u] # "locked"
      BY <1>2, <2>2, <3>1
    <3>5. Lockers'
      BY <3>2, <3>4
    <3>6. QED BY <3>3, <3>5
  <2>6. QED BY <1>4, <2>3, <2>4, <2>5 DEF Continue
<1>5. CASE TickEnter
  BY <1>1, <1>2, <1>5, TickLists DEF TickEnter, ListTypes, switch
<1>6. CASE TickSlice
  <2>1. /\ UNCHANGED <<tick, lists, wait, switch, lockNest, value, error, pc, cpu>>
        /\ remaining' = [remaining EXCEPT ![handler.thread] =
              IF remaining[handler.thread] = 1 THEN Slice[handler.thread] ELSE @ - 1]
        /\ handler' = [handler EXCEPT !.at =
              IF remaining[handler.thread] = 1 THEN "yield" ELSE "check"]
    BY <1>6 DEF TickSlice
  <2>2. /\ handler.thread \in Thread /\ \A t \in Thread : Slice[t] \in Nat \ {0}
    BY <1>2, KernelAssumption DEF KernelAssumption
  <2>3. /\ remaining' \in [Thread -> Nat]
        /\ \A t \in Thread : remaining'[t] \in 1 .. Slice[t]
    <3>1. /\ remaining \in [Thread -> Nat]
          /\ \A t \in Thread : remaining[t] \in 1 .. Slice[t]
      BY <1>2
    <3>2. CASE remaining[handler.thread] = 1
      <4>1. remaining' = [remaining EXCEPT ![handler.thread] = Slice[handler.thread]]
        BY <2>1, <3>2
      <4>2. QED BY <2>2, <3>1, <4>1
    <3>3. CASE remaining[handler.thread] # 1
      <4>1. remaining' = [remaining EXCEPT ![handler.thread] = remaining[handler.thread] - 1]
        BY <2>1, <3>3
      <4>2. QED BY <2>2, <3>1, <3>3, <4>1
    <3>4. QED BY <3>2, <3>3
  <2>4. handler' \in [at : {"none", "slice", "yield", "sched", "check"}, thread : Thread]
    BY <1>2, <2>1
  <2>5. QED BY <1>1, <1>2, <2>1, <2>3, <2>4 DEF ListTypes, switch
<1>7. CASE TickYield
  <2>1. /\ UNCHANGED <<tick, switch, lockNest, value, error, remaining, pc, cpu>>
        /\ \E x \in {"sched", "check"} : handler' = [handler EXCEPT !.at = x]
    BY <1>7 DEF TickYield
  <2>2. QED BY <1>1, <1>2, <2>1 DEF ListTypes, switch
<1>8. CASE TickSchedule
  <2>1. /\ Schedule(ready, group) /\ handler' = [handler EXCEPT !.at = "check"]
        /\ UNCHANGED <<tick, lists, wait, lockNest, value, error, remaining, pc, cpu>>
    BY <1>8 DEF TickSchedule
  <2>2. /\ current' \in Thread /\ fromThread' \in Thread /\ toThread' \in Thread
        /\ switchFlag' \in BOOLEAN /\ (UNCHANGED switch \/ lockNest = 0)
    BY <2>1, ScheduleNow
  <2>3. TypeOK'
    <3>1. handler' \in [at : {"none", "slice", "yield", "sched", "check"}, thread : Thread]
      BY <1>2, <2>1
    <3>2. {current', cpu', fromThread', toThread'} \subseteq Thread /\ switchFlag' \in BOOLEAN
      BY <1>2, <2>1, <2>2
    <3>3. UNCHANGED <<tick, lockNest, value, error, remaining, pc>>
      BY <2>1
    <3> HIDE DEF Lockers
    <3>4. QED BY <1>1, <1>2, <3>1, <3>2, <3>3 DEF ListTypes
  <2>4. Lockers'
    BY <1>2, <2>1, <2>2 DEF switch
  <2>5. QED BY <2>3, <2>4
<1>9. CASE TickCheck
  <2>1. /\ error' \in [Thread -> {"EOK", "ETIMEOUT", "ERROR"}] /\ handler' = NoTick
        /\ UNCHANGED <<tick, lockNest, value, remaining, pc, cpu>>
    BY <1>2, <1>9 DEF TickCheck
  <2>2. /\ current' \in Thread /\ fromThread' \in Thread /\ toThread' \in Thread
        /\ switchFlag' \in BOOLEAN /\ (UNCHANGED switch \/ lockNest = 0)
    BY <1>9, HandlerSwitch
  <2>3. NoTick \in [at : {"none", "slice", "yield", "sched", "check"}, thread : Thread]
    BY KernelAssumption DEF NoTick, KernelAssumption
  <2>4. TypeOK'
    <3>1. handler' \in [at : {"none", "slice", "yield", "sched", "check"}, thread : Thread]
      BY <2>1, <2>3
    <3>2. {current', cpu', fromThread', toThread'} \subseteq Thread /\ switchFlag' \in BOOLEAN
      BY <1>2, <2>1, <2>2
    <3>3. UNCHANGED <<tick, lockNest, value, remaining, pc>>
      BY <2>1
    <3>4. error' \in [Thread -> {"EOK", "ETIMEOUT", "ERROR"}]
      BY <2>1
    <3> HIDE DEF Lockers
    <3>5. QED BY <1>1, <1>2, <3>1, <3>2, <3>3, <3>4 DEF ListTypes
  <2>5. Lockers'
    BY <1>2, <2>1, <2>2 DEF switch
  <2>6. QED BY <2>4, <2>5
<1>10. CASE DeviceRelease
  <2>1. ReleaseSem /\ UNCHANGED <<tick, lockNest, error, remaining, pc, handler, cpu>>
    BY <1>10 DEF DeviceRelease
  <2>2. value' \in 0 .. MaxValue
    BY <1>2, <2>1, ReleaseValue
  <2>3. /\ current' \in Thread /\ fromThread' \in Thread /\ toThread' \in Thread
        /\ switchFlag' \in BOOLEAN /\ (UNCHANGED switch \/ lockNest = 0)
    BY <1>10, HandlerSwitch
  <2>4. TypeOK'
    <3>1. {current', cpu', fromThread', toThread'} \subseteq Thread /\ switchFlag' \in BOOLEAN
      BY <1>2, <2>1, <2>3
    <3>2. UNCHANGED <<tick, lockNest, error, remaining, pc, handler>>
      BY <2>1
    <3> HIDE DEF Lockers
    <3>3. QED BY <1>1, <1>2, <2>2, <3>1, <3>2 DEF ListTypes
  <2>5. Lockers'
    BY <1>2, <2>1, <2>3 DEF switch
  <2>6. QED BY <2>4, <2>5
<1>11. CASE PendSV
  <2>1. lockNest = 0
    BY <1>2, <1>11 DEF PendSV
  <2>2. QED BY <1>1, <1>2, <1>11, <2>1 DEF PendSV, ListTypes
<1>12. CASE UNCHANGED vars
  BY <1>1, <1>2, <1>12 DEF vars, ListTypes, switch
<1>13. QED
  BY <1>3, <1>4, <1>5, <1>6, <1>7, <1>8, <1>9, <1>10, <1>11, <1>12 DEF Next, TickHandler

-----------------------------------------------------------------------------
(* The current thread.                                                      *)

(* Threads that wake up leave the current thread as ready as it was, and    *)
(* start nobody but those that wake up.                                     *)
LEMMA WokenReady ==
  ASSUME KernelInv, NEW W, Wakes(W), tick' = tick
  PROVE  /\ stat'[Idle] = "ready"
         /\ stat[current] = "ready" => stat'[current] = "ready"
         /\ \A t \in Thread : stat'[t] = "init" => stat[t] = "init"
<1>1. current \in Thread
  BY DEF KernelInv, TypeOK
<1>2. QED BY <1>1, IdleStays, WakesIs

(* The caller of a step stays current; only what it does next changes.      *)
LEMMA CallerStays ==
  ASSUME KernelInv, NEW t \in Thread, Runs(t), stat[t] = "ready", UNCHANGED switch,
         \A u \in Thread : u # t => pc'[u] = pc[u],
         stat'[Idle] = "ready", stat'[t] = "ready",
         \A u \in Thread : stat'[u] = "init" => stat[u] = "init"
  PROVE  CurrentReady'
<1>1. current = t /\ current' = t
  BY RunnerIs DEF switch
<1>2. \A u \in Thread : stat[u] = "init" => pc[u] = "run" /\ u # t
  BY DEF KernelInv, CurrentReady
<1>3. ASSUME NEW u \in Thread, stat'[u] = "init" PROVE pc'[u] = "run"
  BY <1>2, <1>3
<1>4. QED BY <1>1, <1>3 DEF CurrentReady

LEMMA CurrentStep == ASSUME KernelInv, [Next]_vars PROVE CurrentReady'
<1>0. /\ CurrentReady /\ current \in Thread
      /\ pc \in [Thread -> {"run", "sched", "locked", "take_sched", "take_ret",
                            "sleep_sched", "sleep_ret"}]
  BY DEF KernelInv, TypeOK
<1>1. ASSUME NEW t \in Thread, Call(t) PROVE CurrentReady'
  <2>1. Calls(t)
    BY <1>1 DEF Call, Startup, TakeNow, TakeBlock, Sleep, Release, Reset, EnterCritical
  <2>2. Runs(t) /\ stat[t] = "ready" /\ current = t /\ t # Idle /\ switchFlag = FALSE
    BY <2>1, RunnerIs DEF Calls
  <2>3. ASSUME NEW W, Wakes(W), tick' = tick, UNCHANGED switch,
               \A u \in Thread : u # t => pc'[u] = pc[u]
        PROVE  CurrentReady'
    BY <2>2, <2>3, WokenReady, CallerStays
  <2>4. ASSUME UNCHANGED <<stat, switch>>,
               \A u \in Thread : u # t => pc'[u] = pc[u]
        PROVE  CurrentReady'
    BY <1>0, <2>2, <2>4, CallerStays DEF CurrentReady
  <2>5. ASSUME NEW u \in Thread, Startup(t, u) PROVE CurrentReady'
    <3>1. UNCHANGED <<tick, switch>> /\ \A v \in Thread : v # t => pc'[v] = pc[v]
      BY <1>0, <2>5 DEF Startup, Goto
    <3>2. QED BY <2>3, <2>5, <3>1, StartupWakes
  <2>6. CASE TakeNow(t) \/ EnterCritical(t)
    <3>1. UNCHANGED <<stat, switch>> /\ \A v \in Thread : v # t => pc'[v] = pc[v]
      BY <1>0, <2>6 DEF TakeNow, EnterCritical, Goto, lists
    <3>2. QED BY <2>4, <3>1
  <2>7. CASE Release(t)
    <3>1. /\ ReleaseSem /\ UNCHANGED <<tick, switch>>
          /\ \A v \in Thread : v # t => pc'[v] = pc[v]
      BY <1>0, <2>7 DEF Release, Goto
    <3>2. CASE Wakes({Head(suspended)})
      BY <2>3, <3>1, <3>2
    <3>3. CASE UNCHANGED <<lists, wait>>
      BY <2>4, <3>1, <3>3 DEF lists
    <3>4. QED BY <3>1, <3>2, <3>3, ReleaseWakes
  <2>8. CASE Reset(t)
    <3>1. UNCHANGED <<tick, switch>> /\ \A v \in Thread : v # t => pc'[v] = pc[v]
      BY <1>0, <2>8 DEF Reset, Goto
    <3>2. QED BY <2>3, <2>8, <3>1, ResetWakes
  <2>9. CASE (\E n \in Timeout \cup {Never} : TakeBlock(t, n)) \/ (\E n \in Timeout : Sleep(t, n))
    <3>1. stat' = [stat EXCEPT ![t] = "suspend"] /\ UNCHANGED switch
      BY <2>9, BlockIs
    <3>2. pc' = [pc EXCEPT ![t] = "take_sched"] \/ pc' = [pc EXCEPT ![t] = "sleep_sched"]
      BY <2>9 DEF TakeBlock, Sleep, Goto
    <3>3. current' = t /\ switchFlag' = FALSE /\ pc'[t] \in {"take_sched", "sleep_sched"}
      BY <1>0, <2>2, <3>1, <3>2 DEF switch
    <3>4. \A u \in Thread : u # t => stat'[u] = stat[u] /\ pc'[u] = pc[u]
      BY <1>0, <3>1, <3>2 DEF KernelInv, TypeOK
    <3>5. stat'[t] # "init"
      BY <3>1 DEF KernelInv, TypeOK
    <3>6. stat'[Idle] = "ready"
      BY <1>0, <2>2, <3>4, KernelAssumption DEF KernelAssumption, CurrentReady
    <3>7. QED BY <1>0, <3>3, <3>4, <3>5, <3>6 DEF CurrentReady
  <2>10. QED BY <1>1, <2>5, <2>6, <2>7, <2>8, <2>9 DEF Call
<1>2. ASSUME NEW t \in Thread, Continue(t) PROVE CurrentReady'
  <2>1. Runs(t) /\ pc[t] # "run"
    BY <1>2 DEF Continue, CallSchedule, Return, ExitCritical
  <2>2. CASE CallSchedule(t)
    <3>1. /\ Schedule(ready, group) /\ stat' = stat
          /\ pc[t] \in {"sched", "take_sched", "sleep_sched"}
          /\ \E x \in {"run", "take_ret", "sleep_ret"} : pc' = [pc EXCEPT ![t] = x]
      BY <2>2 DEF CallSchedule, Goto, lists
    <3>2. stat'[current'] = "ready"
      BY <2>1, <3>1, RunnerIs, ScheduleNow
    <3>3. \A u \in Thread : stat[u] = "init" => u # t /\ pc'[u] = "run"
      BY <1>0, <2>1, <3>1 DEF CurrentReady
    <3>4. QED BY <1>0, <3>1, <3>2, <3>3 DEF CurrentReady
  <2>3. CASE Return(t) \/ ExitCritical(t)
    <3>1. /\ UNCHANGED <<stat, switch>> /\ pc[t] \in {"take_ret", "sleep_ret", "locked"}
          /\ \A v \in Thread : v # t => pc'[v] = pc[v]
      BY <1>0, <2>3 DEF Return, ExitCritical, Goto, lists
    <3>2. stat[t] = "ready"
      BY <2>1, <3>1, RunnerIs
    <3>3. QED BY <1>0, <2>1, <3>1, <3>2, CallerStays DEF CurrentReady
  <2>4. QED BY <1>2, <2>2, <2>3 DEF Continue
<1>3. CASE TickEnter \/ TickSlice \/ TickYield \/ UNCHANGED vars
  <2>1. UNCHANGED <<stat, switch, pc>>
    BY <1>3 DEF TickEnter, TickSlice, TickYield, vars, lists
  <2>2. QED BY <1>0, <2>1 DEF CurrentReady, switch
<1>4. CASE TickSchedule
  <2>1. Schedule(ready, group) /\ UNCHANGED <<stat, pc>>
    BY <1>4 DEF TickSchedule, lists
  <2>2. stat'[current'] = "ready" \/ UNCHANGED switch
    BY <2>1, ScheduleNow
  <2>3. QED BY <1>0, <2>1, <2>2 DEF CurrentReady, switch
<1>5. ASSUME NEW W, Wakes(W), UNCHANGED <<tick, pc>>,
             UNCHANGED switch \/ stat'[current'] = "ready"
      PROVE  CurrentReady'
  <2>1. /\ stat'[Idle] = "ready"
        /\ stat[current] = "ready" => stat'[current] = "ready"
        /\ \A t \in Thread : stat'[t] = "init" => stat[t] = "init"
    BY <1>5, WokenReady
  <2>2. CASE UNCHANGED switch
    <3>1. current' = current /\ switchFlag' = switchFlag /\ pc' = pc
      BY <1>5, <2>2 DEF switch
    <3>2. QED BY <1>0, <2>1, <3>1 DEF CurrentReady
  <2>3. CASE stat'[current'] = "ready"
    BY <1>0, <1>5, <2>1, <2>3 DEF CurrentReady
  <2>4. QED BY <1>5, <2>2, <2>3
<1>6. CASE TickCheck \/ DeviceRelease
  <2>1. UNCHANGED <<tick, pc>>
    BY <1>6 DEF TickCheck, DeviceRelease
  <2>2. /\ UNCHANGED <<switch, lists>> \/ UNCHANGED switch \/ stat'[current'] = "ready"
    BY <1>6, HandlerSwitch
  <2>3. (\E W : Wakes(W)) \/ UNCHANGED <<lists, wait>>
    BY <1>6, CheckWakes, ReleaseWakes DEF DeviceRelease
  <2>4. CASE UNCHANGED <<lists, wait>>
    BY <1>0, <2>1, <2>2, <2>4 DEF CurrentReady, switch, lists
  <2>5. QED BY <1>5, <2>1, <2>2, <2>3, <2>4 DEF switch
<1>7. CASE PendSV
  <2>1. switchFlag = TRUE /\ UNCHANGED <<stat, current, pc>>
    BY <1>7 DEF PendSV, lists, KernelInv, TypeOK
  <2>2. QED BY <1>0, <2>1 DEF CurrentReady
<1>8. QED
  BY <1>1, <1>2, <1>3, <1>4, <1>5, <1>6, <1>7 DEF Next, TickHandler

-----------------------------------------------------------------------------
(* Who waits, and the tokens.                                               *)

(* Threads that wake up leave the lists; the others keep their places.      *)
LEMMA WokenWaiters ==
  ASSUME KernelInv, NEW W, Wakes(W), tick' = tick,
         \A t \in Thread : stat[t] = "suspend" => pc'[t] = pc[t],
         \A t \in Range(suspended) \ W : error'[t] = error[t],
         value' = value
  PROVE  Waiters' /\ Tokens'
<1>1. /\ Range(suspended') = Range(suspended) \ W /\ active' = active \ W
      /\ suspended' \in Seq(Thread)
  BY WakesIs DEF ListInv, ListTypes
<1>2. /\ \A t \in Range(suspended) : t \in Thread /\ stat[t] = "suspend"
      /\ \A t \in active : t \in Thread /\ stat[t] = "suspend"
      /\ suspended \in Seq(Thread)
  BY WaitersAre
<1>3. Waiters'
  BY <1>1, <1>2 DEF KernelInv, Waiters
<1>4. suspended = <<>> => suspended' = <<>>
  <2>1. suspended = <<>> => Range(suspended) = {}
    BY <1>2, EmptyRange
  <2>2. QED BY <1>1, <2>1, EmptyRange
<1>5. QED BY <1>3, <1>4 DEF KernelInv, Tokens

(* Nobody joins or leaves; whoever waits stays where it is.                 *)
LEMMA SameWaiters ==
  ASSUME KernelInv, UNCHANGED <<suspended, active>>,
         \A t \in Thread : stat[t] = "suspend" =>
            /\ pc'[t] = pc[t] \/ (pc[t] = "take_sched" /\ pc'[t] = "take_ret")
                              \/ (pc[t] = "sleep_sched" /\ pc'[t] = "sleep_ret")
            /\ error'[t] = error[t],
         value' = value \/ suspended = <<>>
  PROVE  Waiters' /\ Tokens'
<1>1. /\ \A t \in Range(suspended) : t \in Thread /\ stat[t] = "suspend"
      /\ \A t \in active : t \in Thread /\ stat[t] = "suspend"
  BY WaitersAre
<1>2. Waiters'
  BY <1>1 DEF KernelInv, Waiters, TakePlaces, SleepPlaces
<1>3. QED BY <1>2 DEF KernelInv, Tokens

LEMMA WaiterStep == ASSUME KernelInv, [Next]_vars PROVE Waiters' /\ Tokens'
<1>0. /\ pc \in [Thread -> {"run", "sched", "locked", "take_sched", "take_ret",
                            "sleep_sched", "sleep_ret"}]
      /\ error \in [Thread -> {"EOK", "ETIMEOUT", "ERROR"}]
      /\ suspended \in Seq(Thread) /\ Waiters /\ Tokens
  BY DEF KernelInv, TypeOK
<1>1. ASSUME NEW t \in Thread, Call(t) PROVE Waiters' /\ Tokens'
  <2>1. Calls(t)
    BY <1>1 DEF Call, Startup, TakeNow, TakeBlock, Sleep, Release, Reset, EnterCritical
  <2>2. stat[t] = "ready" /\ t \notin Range(suspended) /\ t \notin active
    BY <2>1, RunnerIs DEF Calls
  <2>3. ASSUME NEW u \in Thread, Startup(t, u) PROVE Waiters' /\ Tokens'
    <3>1. UNCHANGED <<tick, error, value>> /\ \A v \in Thread : v # t => pc'[v] = pc[v]
      BY <1>0, <2>3 DEF Startup, Goto
    <3>2. QED BY <2>2, <2>3, <3>1, StartupWakes, WokenWaiters
  <2>4. CASE TakeNow(t) \/ EnterCritical(t)
    <3>1. /\ UNCHANGED <<suspended, active, error>> /\ (value' = value \/ value > 0)
          /\ \A v \in Thread : v # t => pc'[v] = pc[v]
      BY <1>0, <2>4 DEF TakeNow, EnterCritical, Goto, wait
    <3>2. QED BY <1>0, <2>2, <3>1, SameWaiters DEF Tokens
  <2>5. CASE Release(t)
    <3>1. /\ ReleaseSem /\ UNCHANGED <<tick, error>>
          /\ \A v \in Thread : v # t => pc'[v] = pc[v]
      BY <1>0, <2>5 DEF Release, Goto
    <3>2. CASE Wakes({Head(suspended)}) /\ value' = value
      BY <2>2, <3>1, <3>2, WokenWaiters
    <3>3. CASE suspended = <<>> /\ UNCHANGED <<lists, wait>>
      BY <2>2, <3>1, <3>3, SameWaiters DEF wait
    <3>4. QED BY <3>1, <3>2, <3>3, ReleaseWakes
  <2>6. CASE Reset(t)
    <3>1. /\ tick' = tick /\ value' = 0 /\ Wakes(Range(suspended))
          /\ \A v \in Thread : v # t => pc'[v] = pc[v]
      BY <1>0, <2>6, ResetWakes DEF Reset, Goto
    <3>2. /\ Range(suspended') = {} /\ active' = active \ Range(suspended)
      BY <3>1, WakesIs
    <3>3. \A v \in active : v \in Thread
      BY WaitersAre
    <3>4. QED BY <1>0, <2>2, <3>1, <3>2, <3>3 DEF Waiters, Tokens
  <2>7. ASSUME NEW n \in Timeout \cup {Never}, TakeBlock(t, n) PROVE Waiters' /\ Tokens'
    <3>1. /\ suspended' = Append(suspended, t) /\ active' \subseteq active \cup {t}
          /\ value' = value /\ value = 0
          /\ pc' = [pc EXCEPT ![t] = "take_sched"] /\ error' = [error EXCEPT ![t] = "EOK"]
      BY <2>7 DEF TakeBlock, StartTimer, Goto
    <3>2. Range(suspended') = Range(suspended) \cup {t}
      BY <1>0, <3>1, RangeAppend
    <3>3. Range(suspended) \subseteq Thread /\ active \subseteq Thread
      BY WaitersAre
    <3>4. Waiters'
      BY <1>0, <3>1, <3>2, <3>3 DEF Waiters, TakePlaces
    <3>5. QED BY <3>1, <3>4 DEF Tokens
  <2>8. ASSUME NEW n \in Timeout, Sleep(t, n) PROVE Waiters' /\ Tokens'
    <3>1. /\ suspended' = suspended /\ active' = active \cup {t}
          /\ UNCHANGED <<value, error>> /\ pc' = [pc EXCEPT ![t] = "sleep_sched"]
      BY <2>8 DEF Sleep, StartTimer, Goto
    <3>2. Range(suspended) \subseteq Thread /\ active \subseteq Thread
      BY WaitersAre
    <3>3. Waiters'
      BY <1>0, <2>2, <3>1, <3>2 DEF Waiters, SleepPlaces
    <3>4. QED BY <1>0, <3>1, <3>3 DEF Tokens
  <2>9. QED BY <1>1, <2>3, <2>4, <2>5, <2>6, <2>7, <2>8 DEF Call
<1>2. ASSUME NEW t \in Thread, Continue(t) PROVE Waiters' /\ Tokens'
  <2>1. Runs(t) /\ UNCHANGED <<suspended, active, value>>
    BY <1>2 DEF Continue, CallSchedule, Return, ExitCritical, wait
  <2>2. CASE CallSchedule(t)
    <3>1. /\ UNCHANGED error /\ pc[t] \in {"sched", "take_sched", "sleep_sched"}
          /\ pc' = [pc EXCEPT ![t] = CASE pc[t] = "sched" -> "run"
                                       [] pc[t] = "take_sched" -> "take_ret"
                                       [] pc[t] = "sleep_sched" -> "sleep_ret"]
      BY <2>2 DEF CallSchedule, Goto
    <3>2. pc[t] = "sched" => stat[t] = "ready"
      BY <2>1, RunnerIs
    <3>3. /\ pc[t] = "take_sched" => pc' = [pc EXCEPT ![t] = "take_ret"]
          /\ pc[t] = "sleep_sched" => pc' = [pc EXCEPT ![t] = "sleep_ret"]
      BY <3>1
    <3>4. /\ \A u \in Thread : u # t => pc'[u] = pc[u]
          /\ pc[t] = "take_sched" => pc'[t] = "take_ret"
          /\ pc[t] = "sleep_sched" => pc'[t] = "sleep_ret"
      BY <1>0, <3>1, <3>3
    <3>5. QED BY <2>1, <3>1, <3>2, <3>4, SameWaiters
  <2>3. CASE Return(t) \/ ExitCritical(t)
    <3>1. /\ pc[t] \in {"take_ret", "sleep_ret", "locked"}
          /\ \A u \in Thread : u # t => pc'[u] = pc[u] /\ error'[u] = error[u]
      BY <1>0, <2>3 DEF Return, ExitCritical, Goto
    <3>2. stat[t] = "ready"
      BY <2>1, <3>1, RunnerIs
    <3>3. QED BY <2>1, <3>1, <3>2, SameWaiters
  <2>4. QED BY <1>2, <2>2, <2>3 DEF Continue
<1>3. CASE TickEnter \/ TickSlice \/ TickYield \/ TickSchedule \/ PendSV \/ UNCHANGED vars
  <2>1. UNCHANGED <<suspended, active, value, error, pc>>
    BY <1>3 DEF TickEnter, TickSlice, TickYield, TickSchedule, PendSV, vars, wait
  <2>2. QED BY <2>1, SameWaiters
<1>4. CASE TickCheck
  <2>1. /\ UNCHANGED <<tick, value, pc>>
        /\ error' = [t \in Thread |-> IF t \in Range(Fired) THEN "ETIMEOUT" ELSE error[t]]
    BY <1>4 DEF TickCheck
  <2>2. Wakes(Range(Fired)) /\ Range(suspended) \subseteq Thread
    BY <1>4, CheckWakes, WaitersAre
  <2>3. \A t \in Range(suspended) \ Range(Fired) : error'[t] = error[t]
    BY <2>1, <2>2
  <2>4. QED BY <2>1, <2>2, <2>3, WokenWaiters
<1>5. CASE DeviceRelease
  <2>1. ReleaseSem /\ UNCHANGED <<tick, error, pc>>
    BY <1>5 DEF DeviceRelease
  <2>2. CASE Wakes({Head(suspended)}) /\ value' = value
    BY <2>1, <2>2, WokenWaiters
  <2>3. CASE suspended = <<>> /\ UNCHANGED <<lists, wait>>
    BY <2>1, <2>3, SameWaiters DEF wait
  <2>4. QED BY <2>1, <2>2, <2>3, ReleaseWakes
<1>6. QED
  BY <1>1, <1>2, <1>3, <1>4, <1>5 DEF Next, TickHandler

-----------------------------------------------------------------------------
(* The clocks of the timed calls.                                           *)

(* Nothing about the clocks changes.                                        *)
LEMMA SameClocks ==
  ASSUME KernelInv, UNCHANGED <<tick, active, due, limit, waited>>,
         handler'.at = "none" => handler.at = "none"
  PROVE  Clocks'
BY DEF KernelInv, Clocks, Left, Elapsed

(* The clocks of the threads that wake up stop; a handler that ends leaves  *)
(* none that is over.                                                       *)
LEMMA WokenClocks ==
  ASSUME KernelInv, NEW W, Wakes(W), tick' = tick,
         \/ handler' = handler
         \/ \A t \in active : Left(t) = 0 => t \in W
  PROVE  Clocks'
<1>1. /\ active' = active \ W
      /\ \A t \in Thread :
            /\ t \notin W => due'[t] = due[t]
            /\ limit'[t] = IF t \in W THEN Never ELSE limit[t]
            /\ waited'[t] = IF t \in W THEN 0 ELSE waited[t]
  BY WakesIs
<1>2. Clocks
  BY DEF KernelInv
<1>3. ASSUME NEW t \in Thread, t \in active' 
      PROVE  /\ limit'[t] \in Timeout /\ waited'[t] + Left(t)' = limit'[t]
             /\ Left(t)' \in Nat /\ Left(t)' < HalfTick
             /\ handler'.at = "none" => Left(t)' > 0
  <2>1. t \in active /\ t \notin W
    BY <1>1, <1>3
  <2>2. Left(t)' = Left(t) /\ limit'[t] = limit[t] /\ waited'[t] = waited[t]
    BY <1>1, <2>1 DEF Left, Elapsed
  <2>3. /\ limit[t] \in Timeout /\ waited[t] + Left(t) = limit[t]
        /\ Left(t) \in Nat /\ Left(t) < HalfTick
        /\ handler.at = "none" => Left(t) > 0
    BY <1>2, <2>1 DEF Clocks
  <2>4. handler'.at = "none" => Left(t) > 0
    <3>1. (handler'.at = "none" => handler.at = "none") \/ Left(t) # 0
      BY <2>1
    <3>2. QED BY <2>3, <3>1
  <2>5. QED BY <2>2, <2>3, <2>4
<1>4. ASSUME NEW t \in Thread, t \notin active' PROVE limit'[t] = Never /\ waited'[t] = 0
  BY <1>1, <1>2, <1>4 DEF Clocks
<1>5. QED BY <1>3, <1>4 DEF Clocks

(* A timed call that begins has all its time left.                          *)
LEMMA StartClocks ==
  ASSUME KernelInv, NEW t \in Thread, t \notin active, NEW n \in Timeout,
         StartTimer(t, n), UNCHANGED <<tick, handler>>
  PROVE  Clocks'
<1>1. /\ active' = active \cup {t} /\ Left(t)' = n
      /\ \A u \in Thread \ {t} : due'[u] = due[u]
      /\ limit' = [limit EXCEPT ![t] = n] /\ waited' = waited
  BY WaitersAre, StartListed DEF KernelInv, ListInv
<1>2. Clocks /\ limit \in [Thread -> Timeout \cup {Never}]
  BY DEF KernelInv, TypeOK
<1>3. n \in Nat \ {0} /\ n < HalfTick
  BY TimeoutIs
<1>4. ASSUME NEW u \in Thread, u # t
      PROVE  /\ Left(u)' = Left(u) /\ limit'[u] = limit[u] /\ waited'[u] = waited[u]
             /\ u \in active' <=> u \in active
  BY <1>1, <1>2, <1>4 DEF Left, Elapsed
<1>5. limit'[t] = n /\ waited'[t] = 0 /\ t \in active'
  BY <1>1, <1>2 DEF Clocks
<1>6. \A u \in Thread :
         IF u \in active'
         THEN /\ limit'[u] \in Timeout /\ waited'[u] + Left(u)' = limit'[u]
              /\ Left(u)' \in Nat /\ Left(u)' < HalfTick
              /\ handler'.at = "none" => Left(u)' > 0
         ELSE limit'[u] = Never /\ waited'[u] = 0
  <2> TAKE u \in Thread
  <2>1. CASE u = t
    BY <1>1, <1>3, <1>5, <2>1
  <2>2. CASE u # t
    BY <1>2, <1>4, <2>2 DEF Clocks
  <2>3. QED BY <2>1, <2>2
<1>7. QED BY <1>6 DEF Clocks

LEMMA ClockStep == ASSUME KernelInv, [Next]_vars PROVE Clocks'
<1>1. ASSUME NEW t \in Thread, Call(t) PROVE Clocks'
  <2>1. ASSUME NEW u \in Thread, Startup(t, u) PROVE Clocks'
    <3>1. UNCHANGED <<tick, handler>>
      BY <2>1 DEF Startup
    <3>2. QED BY <2>1, <3>1, StartupWakes, WokenClocks
  <2>2. CASE TakeNow(t) \/ EnterCritical(t)
    <3>1. UNCHANGED <<tick, active, due, limit, waited, handler>>
      BY <2>2 DEF TakeNow, EnterCritical, wait
    <3>2. QED BY <3>1, SameClocks
  <2>3. CASE Release(t)
    <3>1. ReleaseSem /\ UNCHANGED <<tick, handler>>
      BY <2>3 DEF Release
    <3>2. CASE UNCHANGED wait
      BY <3>1, <3>2, SameClocks DEF wait
    <3>3. QED BY <3>1, <3>2, ReleaseWakes, WokenClocks
  <2>4. CASE Reset(t)
    <3>1. UNCHANGED <<tick, handler>>
      BY <2>4 DEF Reset
    <3>2. QED BY <2>4, <3>1, ResetWakes, WokenClocks
  <2>5. ASSUME NEW n \in Timeout \cup {Never}, TakeBlock(t, n) PROVE Clocks'
    <3>1. /\ UNCHANGED <<tick, handler>>
          /\ IF n = Never THEN UNCHANGED <<timers, active, due, limit, waited>>
                          ELSE StartTimer(t, n)
      BY <2>5 DEF TakeBlock
    <3>2. t \notin active
      BY <2>5, BlockIs
    <3>3. CASE n = Never
      BY <3>1, <3>3, SameClocks
    <3>4. CASE n # Never
      <4>1. StartTimer(t, n) /\ n \in Timeout
        BY <3>1, <3>4
      <4>2. QED BY <3>1, <3>2, <4>1, StartClocks
    <3>5. QED BY <3>3, <3>4
  <2>6. ASSUME NEW n \in Timeout, Sleep(t, n) PROVE Clocks'
    <3>1. UNCHANGED <<tick, handler>> /\ StartTimer(t, n)
      BY <2>6 DEF Sleep
    <3>2. t \notin active
      BY <2>6, BlockIs
    <3>3. QED BY <3>1, <3>2, StartClocks
  <2>7. QED BY <1>1, <2>1, <2>2, <2>3, <2>4, <2>5, <2>6 DEF Call
<1>2. ASSUME NEW t \in Thread, Continue(t) PROVE Clocks'
  <2>1. UNCHANGED <<tick, active, due, limit, waited, handler>>
    BY <1>2 DEF Continue, CallSchedule, Return, ExitCritical, wait
  <2>2. QED BY <2>1, SameClocks
<1>3. CASE TickEnter
  <2>1. /\ handler.at = "none" /\ handler'.at = "slice" /\ UNCHANGED <<active, limit>>
        /\ waited' = [t \in Thread |-> IF t \in active THEN waited[t] + 1 ELSE waited[t]]
    BY <1>3 DEF TickEnter
  <2>2. \A t \in active : Left(t)' = Left(t) - 1
    BY <1>3, TickLists
  <2>3. Clocks /\ waited \in [Thread -> Nat] /\ \A n \in Timeout : n \in Nat
    BY TimeoutIs DEF KernelInv, TypeOK
  <2>4. HalfTick \in Int
    BY KernelAssumption DEF KernelAssumption, HalfTick
  <2>5. ASSUME NEW t \in Thread, t \in active
        PROVE  /\ limit'[t] \in Timeout /\ waited'[t] + Left(t)' = limit'[t]
               /\ Left(t)' \in Nat /\ Left(t)' < HalfTick
    <3>1. /\ limit[t] \in Timeout /\ waited[t] + Left(t) = limit[t]
          /\ Left(t) \in Nat /\ Left(t) < HalfTick /\ Left(t) > 0
      BY <2>1, <2>3, <2>5 DEF Clocks
    <3>2. /\ Left(t)' = Left(t) - 1 /\ waited'[t] = waited[t] + 1
          /\ limit'[t] = limit[t] /\ waited[t] \in Nat
      BY <2>1, <2>2, <2>3, <2>5
    <3>3. QED BY <2>3, <2>4, <3>1, <3>2
  <2>6. ASSUME NEW t \in Thread, t \notin active PROVE limit'[t] = Never /\ waited'[t] = 0
    BY <2>1, <2>3, <2>6 DEF Clocks
  <2>7. QED BY <2>1, <2>5, <2>6 DEF Clocks
<1>4. CASE TickSlice \/ TickYield \/ TickSchedule
  <2>1. /\ UNCHANGED <<tick, active, due, limit, waited>>
        /\ \E x \in {"yield", "sched", "check"} : handler' = [handler EXCEPT !.at = x]
    BY <1>4 DEF TickSlice, TickYield, TickSchedule, wait
  <2>2. handler \in [at : {"none", "slice", "yield", "sched", "check"}, thread : Thread]
    BY DEF KernelInv, TypeOK
  <2>3. handler'.at # "none"
    BY <2>1, <2>2
  <2>4. QED BY <2>1, <2>3, SameClocks
<1>5. CASE TickCheck
  <2>1. tick' = tick
    BY <1>5 DEF TickCheck
  <2>2. QED BY <1>5, <2>1, CheckWakes, WokenClocks
<1>6. CASE DeviceRelease
  <2>1. ReleaseSem /\ UNCHANGED <<tick, handler>>
    BY <1>6 DEF DeviceRelease
  <2>2. CASE UNCHANGED wait
    BY <2>1, <2>2, SameClocks DEF wait
  <2>3. QED BY <2>1, <2>2, ReleaseWakes, WokenClocks
<1>7. CASE PendSV \/ UNCHANGED vars
  <2>1. UNCHANGED <<tick, active, due, limit, waited, handler>>
    BY <1>7 DEF PendSV, vars, wait
  <2>2. QED BY <2>1, SameClocks
<1>8. QED
  BY <1>1, <1>2, <1>3, <1>4, <1>5, <1>6, <1>7 DEF Next, TickHandler

-----------------------------------------------------------------------------
(* The current thread is the one rt_schedule would pick.                    *)

(* A step that leaves the lists and the switch alone cannot change that.    *)
LEMMA SameServed ==
  ASSUME KernelInv, UNCHANGED <<ready, group, current>>,
         (/\ handler'.at # "sched" /\ lockNest' = 0
          /\ switchFlag' = TRUE \/ pc'[cpu'] \notin SchedPlaces)
         => /\ handler.at # "sched" /\ lockNest = 0
            /\ switchFlag = TRUE \/ pc[cpu] \notin SchedPlaces
  PROVE  Served'
BY DEF KernelInv, Served, Candidate

LEMMA ServedStep == ASSUME KernelInv, [Next]_vars PROVE Served'
<1>0. /\ pc \in [Thread -> {"run", "sched", "locked", "take_sched", "take_ret",
                            "sleep_sched", "sleep_ret"}]
      /\ handler \in [at : {"none", "slice", "yield", "sched", "check"}, thread : Thread]
      /\ Served /\ cpu \in Thread
  BY DEF KernelInv, TypeOK
<1>1. ASSUME NEW t \in Thread, Call(t) PROVE Served'
  <2>1. Calls(t)
    BY <1>1 DEF Call, Startup, TakeNow, TakeBlock, Sleep, Release, Reset, EnterCritical
  <2>2. t = cpu /\ switchFlag = FALSE /\ handler.at = "none" /\ pc[t] = "run"
    BY <2>1, RunnerIs DEF Calls
  <2>3. cpu' = cpu /\ UNCHANGED switch
    BY <1>1 DEF Call, Startup, TakeNow, TakeBlock, Sleep, Release, Reset, EnterCritical
  <2>4. CASE TakeNow(t)
    <3>1. UNCHANGED <<ready, group, current, handler, lockNest, switchFlag, pc>>
      BY <2>3, <2>4 DEF TakeNow, lists, switch
    <3>2. QED BY <2>3, <3>1, SameServed
  <2>5. CASE Release(t) /\ UNCHANGED lists /\ suspended = <<>>
    <3>1. /\ UNCHANGED <<ready, group, current, handler, lockNest, switchFlag>>
          /\ pc' = [pc EXCEPT ![t] = "run"]
      BY <2>3, <2>5 DEF Release, lists, switch, Goto
    <3>2. pc'[cpu'] = pc[cpu]
      BY <1>0, <2>2, <2>3, <3>1
    <3>3. QED BY <2>3, <3>1, <3>2, SameServed
  <2>6. ASSUME pc' = [pc EXCEPT ![t] = "sched"] \/ pc' = [pc EXCEPT ![t] = "take_sched"]
               \/ pc' = [pc EXCEPT ![t] = "sleep_sched"]
        PROVE  Served'
    <3>1. pc'[cpu'] \in SchedPlaces /\ switchFlag' = FALSE
      BY <1>0, <2>2, <2>3, <2>6 DEF SchedPlaces, switch
    <3>2. QED BY <3>1 DEF Served
  <2>7. CASE EnterCritical(t)
    <3>1. Runs(t)
      BY <2>1 DEF Calls
    <3>2. lockNest = 0
      BY <2>2, <3>1, RunnerIs
    <3>3. lockNest' = 1
      BY <2>7, <3>2 DEF EnterCritical
    <3>4. QED BY <3>3 DEF Served
  <2>8. CASE Release(t)
    <3>1. CASE suspended # <<>>
      BY <2>6, <2>8, <3>1 DEF Release, Goto
    <3>2. CASE suspended = <<>>
      <4>1. UNCHANGED lists
        BY <2>8, <3>2 DEF Release, ReleaseSem
      <4>2. QED BY <2>5, <2>8, <3>2, <4>1
    <3>3. QED BY <3>1, <3>2
  <2>9. CASE \/ \E u \in Thread : Startup(t, u)
             \/ Reset(t)
             \/ \E n \in Timeout \cup {Never} : TakeBlock(t, n)
             \/ \E n \in Timeout : Sleep(t, n)
    BY <2>6, <2>9 DEF Startup, Reset, TakeBlock, Sleep, Goto
  <2>10. QED BY <1>1, <2>4, <2>7, <2>8, <2>9 DEF Call
<1>2. ASSUME NEW t \in Thread, Continue(t) PROVE Served'
  <2>1. /\ Runs(t) /\ t = cpu /\ switchFlag = FALSE /\ handler.at = "none"
        /\ pc[t] # "locked" => lockNest = 0
    BY <1>2, RunnerIs DEF Continue, CallSchedule, Return, ExitCritical
  <2>2. CASE CallSchedule(t)
    <3>1. Schedule(ready, group) /\ UNCHANGED <<ready, group>> /\ pc[t] # "locked"
      BY <2>2 DEF CallSchedule, lists
    <3>2. current' = Candidate(ready, group)
      BY <2>1, <3>1, ScheduleNow
    <3>3. QED BY <3>1, <3>2 DEF Served, Candidate
  <2>3. CASE Return(t)
    <3>1. /\ UNCHANGED <<ready, group, current, handler, lockNest, switchFlag, cpu>>
          /\ pc[cpu] \in {"take_ret", "sleep_ret"}
      BY <2>1, <2>3 DEF Return, lists, switch
    <3>2. QED BY <3>1, SameServed DEF SchedPlaces
  <2>4. CASE ExitCritical(t)
    <3>1. UNCHANGED <<switchFlag, cpu>> /\ pc' = [pc EXCEPT ![t] = "sched"]
      BY <2>4 DEF ExitCritical, switch, Goto
    <3>2. pc'[cpu'] \in SchedPlaces /\ switchFlag' = FALSE
      BY <1>0, <2>1, <3>1 DEF SchedPlaces
    <3>3. QED BY <3>2 DEF Served
  <2>5. QED BY <1>2, <2>2, <2>3, <2>4 DEF Continue
<1>3. CASE TickEnter \/ TickSlice \/ UNCHANGED vars
  <2>1. /\ UNCHANGED <<ready, group, current, lockNest, switchFlag, cpu, pc>>
        /\ handler' = handler \/ handler.at \in {"none", "slice"}
    BY <1>3 DEF TickEnter, TickSlice, vars, lists, switch
  <2>2. QED BY <2>1, SameServed
<1>4. CASE TickYield
  <2>1. /\ handler.at = "yield"
        /\ UNCHANGED <<group, current, lockNest, switchFlag, cpu, pc>>
        /\ \/ ready' = ready
           \/ handler' = [handler EXCEPT !.at = "sched"]
    BY <1>4 DEF TickYield, switch
  <2>2. CASE ready' = ready
    BY <2>1, <2>2, SameServed
  <2>3. CASE handler' = [handler EXCEPT !.at = "sched"]
    BY <1>0, <2>3 DEF Served
  <2>4. QED BY <2>1, <2>2, <2>3
<1>5. CASE TickSchedule
  <2>1. Schedule(ready, group) /\ UNCHANGED <<ready, group, lockNest>>
    BY <1>5 DEF TickSchedule, lists
  <2>2. lockNest = 0 => current' = Candidate(ready, group)
    BY <2>1, ScheduleNow
  <2>3. QED BY <2>1, <2>2 DEF Served, Candidate
<1>6. CASE TickCheck \/ DeviceRelease
  <2>1. /\ UNCHANGED <<lockNest, cpu, pc>>
        /\ handler' = handler \/ handler.at = "check"
    BY <1>6 DEF TickCheck, DeviceRelease
  <2>2. CASE UNCHANGED <<switch, lists>>
    <3>1. UNCHANGED <<ready, group, current, switchFlag>>
      BY <2>2 DEF switch, lists
    <3>2. QED BY <2>1, <3>1, SameServed
  <2>3. CASE lockNest = 0 => current' = Candidate(ready', group')
    <3>1. Candidate(ready', group') = Candidate(ready, group)'
      BY DEF Candidate
    <3>2. QED BY <2>1, <2>3, <3>1 DEF Served
  <2>4. QED BY <1>6, <2>2, <2>3, HandlerSwitch
<1>7. CASE PendSV
  <2>1. /\ switchFlag = TRUE /\ handler.at = "none"
        /\ UNCHANGED <<ready, group, current, lockNest, handler>>
    BY <1>7 DEF PendSV, lists, KernelInv, TypeOK
  <2>2. QED BY <2>1, SameServed
<1>8. QED
  BY <1>1, <1>2, <1>3, <1>4, <1>5, <1>6, <1>7 DEF Next, TickHandler

-----------------------------------------------------------------------------
(* The context switch.                                                      *)
(* rt_schedule, called where the CPU belongs to the current thread or a     *)
(* switch is pending, leaves the switch in good order. *)
LEMMA ScheduleKeepsContext ==
  ASSUME NEW rdy, NEW grp, ContextSaved, Schedule(rdy, grp), cpu' = cpu
  PROVE  ContextSaved'
BY DEF ContextSaved, Schedule, switch

(* No step of a thread, an interrupt or the switch itself loses the thread *)
(* that rt_schedule switched from.                                         *)
LEMMA ContextStep == ASSUME ContextSaved, [Next]_vars PROVE ContextSaved'
<1>1. ASSUME NEW t \in Thread, Call(t) PROVE ContextSaved'
  <2>1. UNCHANGED switch /\ UNCHANGED cpu
    BY <1>1 DEF Call, Startup, TakeNow, Release, Reset, EnterCritical, TakeBlock, Sleep
  <2>2. QED BY <2>1 DEF ContextSaved, switch
<1>2. ASSUME NEW t \in Thread, Continue(t) PROVE ContextSaved'
  <2>1. CASE CallSchedule(t)
    <3>1. Schedule(ready, group) /\ cpu' = cpu
      BY <2>1 DEF CallSchedule
    <3>2. QED BY <3>1, ScheduleKeepsContext
  <2>2. CASE Return(t) \/ ExitCritical(t)
    <3>1. UNCHANGED switch /\ UNCHANGED cpu
      BY <2>2 DEF Return, ExitCritical
    <3>2. QED BY <3>1 DEF ContextSaved, switch
  <2>3. QED BY <1>2, <2>1, <2>2 DEF Continue
<1>3. CASE TickEnter \/ TickSlice \/ TickYield
  <2>1. UNCHANGED switch /\ UNCHANGED cpu
    BY <1>3 DEF TickEnter, TickSlice, TickYield
  <2>2. QED BY <2>1 DEF ContextSaved, switch
<1>4. CASE TickSchedule
  <2>1. Schedule(ready, group) /\ cpu' = cpu
    BY <1>4 DEF TickSchedule
  <2>2. QED BY <2>1, ScheduleKeepsContext
<1>5. CASE TickCheck
  <2>1. cpu' = cpu /\ (UNCHANGED switch \/ Schedule(ready', group'))
    BY <1>5 DEF TickCheck
  <2>2. QED BY <2>1, ScheduleKeepsContext DEF ContextSaved, switch
<1>6. CASE DeviceRelease
  <2>1. cpu' = cpu /\ (UNCHANGED switch \/ Schedule(ready', group'))
    BY <1>6 DEF DeviceRelease
  <2>2. QED BY <2>1, ScheduleKeepsContext DEF ContextSaved, switch
<1>7. CASE PendSV
  BY <1>7 DEF PendSV, ContextSaved
<1>8. CASE UNCHANGED vars
  BY <1>8 DEF vars, switch, ContextSaved
<1>9. QED
  BY <1>1, <1>2, <1>3, <1>4, <1>5, <1>6, <1>7, <1>8 DEF Next, TickHandler

-----------------------------------------------------------------------------
(* The kernel at the start of the scheduler.                                *)
LEMMA InitLists == ASSUME Init PROVE ListInv
<1>1. /\ Idle \in Thread /\ First \in Thread /\ Prio[First] < Prio[Idle]
      /\ Prio \in [Thread -> Nat] /\ TickWrap \in Nat \ {0}
  BY KernelAssumption DEF KernelAssumption
<1>2. /\ stat = [t \in Thread |-> IF t \in {Idle, First} THEN "ready" ELSE "init"]
      /\ group = {Prio[Idle], Prio[First]}
      /\ suspended = <<>> /\ timers = <<>> /\ active = {} /\ due = [t \in Thread |-> 0]
      /\ limit = [t \in Thread |-> Never] /\ waited = [t \in Thread |-> 0]
  BY DEF Init
<1>3. \A p \in Priority : ready[p] = IF p = Prio[Idle] THEN <<Idle>>
                                     ELSE IF p = Prio[First] THEN <<First>> ELSE <<>>
  <2>1. ready = [p \in Priority |-> CASE p = Prio[Idle] -> <<Idle>>
                                      [] p = Prio[First] -> <<First>>
                                      [] OTHER -> <<>>]
    BY DEF Init
  <2>2. Prio[Idle] # Prio[First]
    BY <1>1
  <2> TAKE p \in Priority
  <2>3. ready[p] = CASE p = Prio[Idle] -> <<Idle>>
                     [] p = Prio[First] -> <<First>>
                     [] OTHER -> <<>>
    BY <2>1
  <2>4. CASE p = Prio[Idle]
    BY <2>2, <2>3, <2>4
  <2>5. CASE p = Prio[First]
    BY <2>2, <2>3, <2>5
  <2>6. CASE p # Prio[Idle] /\ p # Prio[First]
    BY <2>3, <2>6
  <2>7. QED BY <2>4, <2>5, <2>6
<1>4. ready \in [Priority -> Seq(Thread)]
  <2>1. /\ <<Idle>> \in Seq(Thread) /\ <<First>> \in Seq(Thread) /\ <<>> \in Seq(Thread)
    BY <1>1
  <2>2. ready = [p \in Priority |-> ready[p]]
    BY DEF Init
  <2>3. \A p \in Priority : ready[p] \in Seq(Thread)
    BY <1>3, <2>1
  <2>4. QED BY <2>2, <2>3
<1>5. ASSUME NEW p \in Priority
      PROVE  /\ Distinct(ready[p])
             /\ Range(ready[p]) = {t \in Thread : stat[t] = "ready" /\ Prio[t] = p}
             /\ p \in group <=> ready[p] # <<>>
  <2>1. p \in Nat /\ Prio[Idle] \in Nat /\ Prio[First] \in Nat
    BY <1>1, PriorityIsNat
  <2>2. {t \in Thread : stat[t] = "ready" /\ Prio[t] = p}
           = {t \in {Idle, First} : Prio[t] = p}
    BY <1>1, <1>2
  <2>3. CASE p = Prio[Idle]
    <3>1. ready[p] = <<Idle>>
      BY <1>3, <2>3
    <3>2. /\ {t \in {Idle, First} : Prio[t] = p} = {Idle} /\ p \in group
      BY <1>1, <1>2, <2>1, <2>3
    <3>3. Distinct(<<Idle>>) /\ Range(<<Idle>>) = {Idle} /\ <<Idle>> # <<>>
      BY <1>1, Single
    <3>4. QED BY <2>2, <3>1, <3>2, <3>3
  <2>4. CASE p = Prio[First]
    <3>1. ready[p] = <<First>>
      BY <1>1, <1>3, <2>1, <2>4
    <3>2. /\ {t \in {Idle, First} : Prio[t] = p} = {First} /\ p \in group
      BY <1>1, <1>2, <2>1, <2>4
    <3>3. Distinct(<<First>>) /\ Range(<<First>>) = {First} /\ <<First>> # <<>>
      BY <1>1, Single
    <3>4. QED BY <2>2, <3>1, <3>2, <3>3
  <2>5. CASE p # Prio[Idle] /\ p # Prio[First]
    <3>1. ready[p] = <<>>
      BY <1>3, <2>5
    <3>2. /\ {t \in {Idle, First} : Prio[t] = p} = {} /\ p \notin group
      BY <1>2, <2>5
    <3>3. Distinct(<<>>) /\ Range(<<>>) = {}
      BY DEF Distinct, Range
    <3>4. QED BY <2>2, <3>1, <3>2, <3>3
  <2>6. QED BY <2>3, <2>4, <2>5
<1>6. Table
  BY <1>5 DEF Table, TableOf
<1>7. Range(<<>>) = {} /\ Distinct(<<>>)
  BY DEF Range, Distinct
<1>8. Listed
  BY <1>2, <1>7 DEF Listed
<1>9. Sorted
  BY <1>2 DEF Sorted
<1>10. ListTypes
  BY <1>1, <1>2, <1>4, PriorityIsNat DEF ListTypes
<1>11. QED BY <1>6, <1>8, <1>9, <1>10 DEF ListInv

LEMMA KernelInit == ASSUME Init PROVE KernelInv
<1>1. /\ Idle \in Thread /\ First \in Thread /\ Prio[First] < Prio[Idle] /\ First # Idle
      /\ Prio \in [Thread -> Nat] /\ TickWrap \in Nat \ {0} /\ MaxValue \in Nat
      /\ Slice \in [Thread -> Nat \ {0}]
  BY KernelAssumption DEF KernelAssumption
<1>2. ListInv
  BY InitLists
<1>3. /\ tick = 0 /\ current = First /\ cpu = First /\ switchFlag = FALSE
      /\ fromThread = First /\ toThread = First /\ lockNest = 0 /\ value = 0
      /\ error = [t \in Thread |-> "EOK"] /\ remaining = Slice
      /\ pc = [t \in Thread |-> "run"] /\ handler = NoTick
      /\ suspended = <<>> /\ active = {}
      /\ limit = [t \in Thread |-> Never] /\ waited = [t \in Thread |-> 0]
      /\ stat = [t \in Thread |-> IF t \in {Idle, First} THEN "ready" ELSE "init"]
      /\ group = {Prio[Idle], Prio[First]}
  BY DEF Init
<1>4. NoTick \in [at : {"none", "slice", "yield", "sched", "check"}, thread : Thread]
  BY <1>1 DEF NoTick
<1>5. remaining \in [Thread -> Nat] /\ \A t \in Thread : remaining[t] \in 1 .. Slice[t]
  BY <1>1, <1>3
<1>6. TypeOK
  <2>1. tick \in 0 .. TickWrap - 1 /\ value \in 0 .. MaxValue
    BY <1>1, <1>3
  <2>2. /\ error \in [Thread -> {"EOK", "ETIMEOUT", "ERROR"}]
        /\ pc \in [Thread -> {"run", "sched", "locked", "take_sched", "take_ret",
                              "sleep_sched", "sleep_ret"}]
    BY <1>3
  <2>3. /\ {current, cpu, fromThread, toThread} \subseteq Thread
        /\ switchFlag \in BOOLEAN /\ lockNest \in {0, 1}
    BY <1>1, <1>3
  <2>4. ListTypes
    BY <1>2 DEF ListInv
  <2>5. handler \in [at : {"none", "slice", "yield", "sched", "check"}, thread : Thread]
    BY <1>3, <1>4
  <2>6. QED BY <1>5, <2>1, <2>2, <2>3, <2>4, <2>5 DEF TypeOK, ListTypes
<1>7. ContextSaved /\ Lockers /\ CurrentReady /\ Tokens
  BY <1>1, <1>3 DEF ContextSaved, Lockers, CurrentReady, Tokens
<1>8. Waiters
  BY <1>3 DEF Waiters, Range
<1>9. Clocks
  BY <1>3 DEF Clocks
<1>10. Served
  <2>1. Prio[First] \in Nat /\ Prio[Idle] \in Nat /\ Prio[First] \in Priority
    BY <1>1, PriorityIsNat
  <2>2. (CHOOSE p \in group : \A q \in group : p <= q) = Prio[First]
    <3>1. Prio[First] \in group /\ \A q \in group : Prio[First] <= q
      BY <1>1, <1>3, <2>1
    <3>2. \A p \in group : (\A q \in group : p <= q) => p = Prio[First]
      BY <1>1, <1>3, <2>1
    <3>3. QED BY <3>1, <3>2
  <2>3. ready[Prio[First]] = <<First>>
    BY <1>1, <2>1 DEF Init
  <2>4. Candidate(ready, group) = First
    <3>1. Head(<<First>>) = First
      OBVIOUS
    <3>2. Candidate(ready, group) = Head(ready[Prio[First]])
      BY <2>2 DEF Candidate
    <3>3. QED BY <2>3, <3>1, <3>2
  <2>5. QED BY <1>3, <2>4 DEF Served
<1>11. QED BY <1>2, <1>6, <1>7, <1>8, <1>9, <1>10 DEF KernelInv

(* The invariant that makes the kernel correct.                             *)
LEMMA KernelStep == ASSUME KernelInv, [Next]_vars PROVE KernelInv'
<1>1. ContextSaved'
  BY ContextStep DEF KernelInv
<1>2. QED
  BY <1>1, ListStep, TypeStep, CurrentStep, WaiterStep, ClockStep, ServedStep DEF KernelInv

LEMMA KernelAlways == Spec => []KernelInv
BY KernelInit, KernelStep, PTL DEF Spec

-----------------------------------------------------------------------------
(* What it says of the kernel.                                              *)

(* Whatever the threads, interrupts and ticks do, every variable keeps its  *)
(* type: the priorities stay in the bitmap, the ticks in their width and    *)
(* the slice that is left between 1 and init_tick.                          *)
THEOREM KernelTypes == Spec => []TypeOK
<1>1. KernelInv => TypeOK
  BY DEF KernelInv
<1>2. QED BY <1>1, KernelAlways, PTL

(* The ready lists, the bitmap that rt_schedule reads and the states of the *)
(* threads agree (scheduler.c:294-372): the bit that is found is that of a  *)
(* list with a ready thread.                                                *)
THEOREM TableTrue == Spec => []ReadyTable
<1>1. KernelInv => ReadyTable
  BY DEF KernelInv, ListInv, Table, TableOf, Listed, ReadyTable
<1>2. QED BY <1>1, KernelAlways, PTL

(* Counted from the tick that is handled, a timer has one tick more left.   *)
LEMMA LeftBefore ==
  ASSUME KernelInv, NEW t \in active
  PROVE  Elapsed(due[t], tick - 1) = Left(t) + 1 /\ Left(t) \in Nat
<1> DEFINE W == TickWrap
           H == HalfTick
           d == due[t]
           k == tick
<1>1. W \in Nat \ {0} /\ H \in Int /\ H + H < W
  BY KernelAssumption DEF KernelAssumption, HalfTick
<1>2. /\ t \in Thread /\ d \in 0 .. W - 1 /\ k \in 0 .. W - 1
      /\ (d - k) % W < H /\ (d - k) % W \in Nat
  BY WaitersAre DEF KernelInv, TypeOK, Left, Elapsed
<1> HIDE DEF W, H, d, k
<1>3. PICK a \in Int : a = d - k
  BY <1>2
<1>4. d - (k - 1) = a + 1 /\ a % W < H /\ -W < a /\ a < W
  BY <1>1, <1>2, <1>3
<1>5. (a + 1) % W = (a % W) + 1
  <2>1. CASE a >= 0
    <3>1. a % W = a
      BY <1>1, <1>4, <2>1, ModSmall
    <3>2. a + 1 < W
      BY <1>1, <1>4, <3>1
    <3>3. PICK b \in Int : b = a + 1
      OBVIOUS
    <3>4. b % W = b
      BY <1>1, <2>1, <3>2, <3>3, ModSmall
    <3>5. QED BY <3>1, <3>3, <3>4
  <2>2. CASE a < 0
    <3>1. a % W = a + W
      <4>1. -W <= a
        BY <1>1, <1>4
      <4>2. QED BY <1>1, <2>2, <4>1, ModNegative
    <3>2. a + 1 < 0
      BY <1>1, <1>4, <2>2, <3>1
    <3>3. PICK b \in Int : b = a + 1
      OBVIOUS
    <3>4. b % W = b + W
      <4>1. -W <= b /\ b < 0
        BY <1>1, <1>4, <3>2, <3>3
      <4>2. QED BY <1>1, <4>1, ModNegative
    <3>5. QED BY <1>1, <3>1, <3>3, <3>4
  <2>3. QED BY <2>1, <2>2
<1>6. QED BY <1>2, <1>3, <1>4, <1>5 DEF Left, Elapsed, W, d, k

(* No thread is forgotten (thread.c:739, timer.c:494-553): whoever is       *)
(* suspended is on the list of the semaphore or has its timer running, the  *)
(* timers are in the order they fall due although the counter wraps, and    *)
(* nobody waits while there is a token.                                     *)
THEOREM NoneStranded == Spec => []NobodyStranded
<1>1. ASSUME KernelInv PROVE TimersInOrder
  <2>1. ASSUME NEW i \in DOMAIN timers, NEW j \in DOMAIN timers, i < j
        PROVE  Elapsed(due[timers[i]], tick - 1) <= Elapsed(due[timers[j]], tick - 1)
    <3>1. timers[i] \in active /\ timers[j] \in active
      BY <1>1 DEF KernelInv, ListInv, Listed, Range
    <3>2. Left(timers[i]) <= Left(timers[j])
      BY <1>1, <2>1 DEF KernelInv, ListInv, Sorted
    <3>3. /\ Elapsed(due[timers[i]], tick - 1) = Left(timers[i]) + 1
          /\ Left(timers[i]) \in Nat
      BY <1>1, <3>1, LeftBefore
    <3>4. /\ Elapsed(due[timers[j]], tick - 1) = Left(timers[j]) + 1
          /\ Left(timers[j]) \in Nat
      BY <1>1, <3>1, LeftBefore
    <3>5. QED BY <3>2, <3>3, <3>4
  <2>2. QED BY <2>1 DEF TimersInOrder
<1>2. KernelInv => NobodyStranded
  BY <1>1 DEF KernelInv, ListInv, Listed, Tokens, NobodyStranded
<1>3. QED BY <1>2, KernelAlways, PTL

(* Once no rt_schedule is outstanding, the processor belongs to the thread  *)
(* that has waited longest at the highest ready priority                    *)
(* (scheduler.c:189-277), for every assignment of priorities.               *)
THEOREM HighestHasCpu == Spec => []HighestRuns
<1>1. ASSUME KernelInv, handler.at = "none", switchFlag = FALSE, lockNest = 0,
             pc[cpu] \notin {"sched", "take_sched", "sleep_sched"}
      PROVE  \A p \in group : p >= Prio[cpu] /\ cpu = Head(ready[Prio[cpu]])
  <2>1. current = Candidate(ready, group) /\ current = cpu
    BY <1>1 DEF KernelInv, Served, ContextSaved, SchedPlaces
  <2>2. /\ ready \in [Priority -> Seq(Thread)] /\ group \in SUBSET Priority
        /\ TableOf(ready, group, stat) /\ stat[Idle] = "ready"
    BY <1>1 DEF KernelInv, ListInv, ListTypes, Table, CurrentReady
  <2>3. QED BY <2>1, <2>2, CandidateIs
<1>2. KernelInv => switchFlag \in BOOLEAN
  BY DEF KernelInv, TypeOK
<1>3. KernelInv => HighestRuns
  BY <1>1, <1>2 DEF HighestRuns
<1>4. QED BY <1>3, KernelAlways, PTL

(* However calls, ticks and device interrupts interleave, PendSV saves the  *)
(* registers of the thread that was running, and the CPU then belongs to    *)
(* the thread the kernel calls current (context_rvds.S:65).                *)
THEOREM SwitchSavesContext == Spec => []ContextSaved
<1>1. Init => ContextSaved
  BY DEF Init, ContextSaved
<1>2. QED
  BY <1>1, ContextStep, PTL DEF Spec

-----------------------------------------------------------------------------
(* The blocking calls implement BlockingCalls, step by step.                *)

phases == [t \in Thread |-> PhaseOf(t)]

(* A call that did not begin is idle; one that did stands as its list, its  *)
(* state and its error say.                                                 *)
LEMMA PhaseIs ==
  ASSUME KernelInv, NEW t \in Thread
  PROVE  /\ pc[t] \notin TakePlaces \cup SleepPlaces => PhaseOf(t) = "idle"
         /\ t \in Range(suspended) => PhaseOf(t) = "waiting"
         /\ t \in active /\ t \notin Range(suspended) => PhaseOf(t) = "asleep"
         /\ stat[t] = "ready" /\ pc[t] \in TakePlaces =>
               PhaseOf(t) \in {"granted", "timeout", "aborted"}
         /\ stat[t] = "ready" /\ pc[t] \in SleepPlaces => PhaseOf(t) = "rested"
<1>1. pc[t] \notin TakePlaces \cup SleepPlaces => PhaseOf(t) = "idle"
  BY DEF PhaseOf, TakePlaces, SleepPlaces
<1>2. t \in Range(suspended) => PhaseOf(t) = "waiting"
  <2>1. t \in Range(suspended) => pc[t] \in TakePlaces
    BY DEF KernelInv, Waiters
  <2>2. QED BY <2>1 DEF PhaseOf, TakePlaces
<1>3. t \in active /\ t \notin Range(suspended) => PhaseOf(t) = "asleep"
  <2>1. t \in active /\ t \notin Range(suspended) => pc[t] \in SleepPlaces /\ stat[t] = "suspend"
    BY WaitersAre DEF KernelInv, Waiters
  <2>2. QED BY <2>1 DEF PhaseOf, SleepPlaces
<1>4. stat[t] = "ready" => t \notin Range(suspended)
  BY WaitersAre
<1>5. error[t] \in {"EOK", "ETIMEOUT", "ERROR"}
  BY DEF KernelInv, TypeOK
<1>6. stat[t] = "ready" /\ pc[t] \in TakePlaces =>
        PhaseOf(t) \in {"granted", "timeout", "aborted"}
  BY <1>4, <1>5 DEF PhaseOf, TakePlaces
<1>7. stat[t] = "ready" /\ pc[t] \in SleepPlaces => PhaseOf(t) = "rested"
  BY DEF PhaseOf, SleepPlaces
<1>8. QED BY <1>1, <1>2, <1>3, <1>6, <1>7

(* The same call at the same place stands where it stood.                   *)
LEMMA PhaseKept ==
  ASSUME NEW t \in Thread, stat'[t] = stat[t], error'[t] = error[t],
         t \in Range(suspended') <=> t \in Range(suspended),
         \/ pc'[t] = pc[t]
         \/ pc[t] = "take_sched" /\ pc'[t] = "take_ret"
         \/ pc[t] = "sleep_sched" /\ pc'[t] = "sleep_ret"
         \/ {pc[t], pc'[t]} \cap (TakePlaces \cup SleepPlaces) = {}
  PROVE  PhaseOf(t)' = PhaseOf(t)
BY DEF PhaseOf, TakePlaces, SleepPlaces

(* Threads that wake up leave their calls as Wake says.                     *)
LEMMA WokenPromise ==
  ASSUME KernelInv, NEW W, Wakes(W), tick' = tick, NEW res,
         \A t \in W : PhaseOf(t)' = res[t],
         \A t \in Thread \ W :
            /\ error'[t] = error[t]
            /\ \/ pc'[t] = pc[t]
               \/ {pc[t], pc'[t]} \cap (TakePlaces \cup SleepPlaces) = {}
  PROVE  Promise!Wake(W, res)
<1>1. /\ ListTypes' /\ W \subseteq Thread
      /\ Range(suspended') = Range(suspended) \ W
      /\ suspended' = Without(suspended, W)
      /\ \A t \in Thread :
            /\ stat'[t] = IF t \in W THEN "ready" ELSE stat[t]
            /\ limit'[t] = IF t \in W THEN Never ELSE limit[t]
            /\ waited'[t] = IF t \in W THEN 0 ELSE waited[t]
  BY WakesIs DEF ListInv
<1>2. \A t \in Thread \ W : PhaseOf(t)' = PhaseOf(t)
  BY <1>1, PhaseKept
<1>3. phases' = [t \in Thread |-> IF t \in W THEN res[t] ELSE phases[t]]
  BY <1>1, <1>2 DEF phases
<1>4. /\ limit' = [t \in Thread |-> IF t \in W THEN Never ELSE limit[t]]
      /\ waited' = [t \in Thread |-> IF t \in W THEN 0 ELSE waited[t]]
  BY <1>1 DEF ListTypes
<1>5. suspended' = Promise!Without(suspended, W)
  BY <1>1 DEF Without, Promise!Without
<1>6. QED BY <1>3, <1>4, <1>5 DEF Promise!Wake, Promise!Never, Never, phases

(* A step that only moves threads between places of one call is a stutter.  *)
LEMMA PromiseStutter ==
  ASSUME UNCHANGED <<suspended, value, limit, waited, stat>>,
         \A t \in Thread :
            \/ pc'[t] = pc[t] /\ error'[t] = error[t]
            \/ /\ error'[t] = error[t]
               /\ \/ pc[t] = "take_sched" /\ pc'[t] = "take_ret"
                  \/ pc[t] = "sleep_sched" /\ pc'[t] = "sleep_ret"
            \/ {pc[t], pc'[t]} \cap (TakePlaces \cup SleepPlaces) = {}
  PROVE  UNCHANGED Promise!vars
<1>1. \A t \in Thread : PhaseOf(t)' = PhaseOf(t)
  BY DEF PhaseOf, TakePlaces, SleepPlaces
<1>2. phases' = phases
  BY <1>1 DEF phases
<1>3. QED BY <1>2 DEF Promise!vars, phases

(* A release, by a thread or by a device, is a Post.                        *)
LEMMA ReleasePosts ==
  ASSUME KernelInv, ReleaseSem, UNCHANGED <<tick, error>>,
         \A t \in Thread :
            \/ pc'[t] = pc[t]
            \/ {pc[t], pc'[t]} \cap (TakePlaces \cup SleepPlaces) = {}
  PROVE  Promise!Post
<1>1. CASE suspended # <<>> /\ Wakes({Head(suspended)}) /\ value' = value
                           /\ Head(suspended) \in Range(suspended)
  <2> DEFINE res == [t \in Thread |-> "granted"]
  <2>0. PICK h \in Range(suspended) :
           /\ h = Head(suspended) /\ Wakes({h}) /\ tick' = tick /\ value' = value
           /\ suspended # <<>>
    BY <1>1
  <2>1. h \in Thread /\ pc[h] \in TakePlaces /\ error[h] = "EOK"
    BY <2>0, WaitersAre DEF KernelInv, Waiters
  <2>2. h \notin Range(suspended')
    BY <2>0, WakesIs
  <2>3. pc'[h] = pc[h] /\ error'[h] = "EOK"
    BY <2>1
  <2>4. PhaseOf(h)' = "granted"
    BY <2>1, <2>2, <2>3 DEF PhaseOf, TakePlaces
  <2>5. res[h] = "granted"
    BY <2>1
  <2> HIDE DEF res
  <2>6. Promise!Wake({h}, res)
    BY <2>0, <2>4, <2>5, WokenPromise
  <2>7. QED BY <2>0, <2>6 DEF Promise!Post, res
<1>2. CASE suspended = <<>> /\ value' = value + 1 /\ UNCHANGED <<lists, wait>>
  <2>1. \A t \in Thread : PhaseOf(t)' = PhaseOf(t)
    BY <1>2 DEF PhaseOf, TakePlaces, SleepPlaces, lists, wait
  <2>2. phases' = phases
    BY <2>1 DEF phases
  <2>3. QED BY <1>2, <2>2 DEF Promise!Post, phases, wait
<1>3. QED BY <1>1, <1>2, ReleaseWakes

LEMMA PromiseCall ==
  ASSUME KernelInv, NEW t \in Thread, Call(t)
  PROVE  [Promise!Next]_(Promise!vars)
<1>0. /\ pc \in [Thread -> {"run", "sched", "locked", "take_sched", "take_ret",
                            "sleep_sched", "sleep_ret"}]
      /\ error \in [Thread -> {"EOK", "ETIMEOUT", "ERROR"}]
      /\ stat \in [Thread -> {"init", "ready", "suspend"}]
      /\ limit \in [Thread -> Timeout \cup {Never}]
      /\ suspended \in Seq(Thread) /\ Range(suspended) \subseteq Thread
  BY WaitersAre DEF KernelInv, TypeOK
<1>1. Calls(t)
  BY DEF Call, Startup, TakeNow, TakeBlock, Sleep, Release, Reset, EnterCritical
<1>2. /\ pc[t] = "run" /\ stat[t] = "ready" /\ t \notin Range(suspended) /\ t \notin active
      /\ PhaseOf(t) = "idle" /\ phases[t] = "idle"
  <2>1. Runs(t) /\ pc[t] = "run"
    BY <1>1 DEF Calls
  <2>2. QED BY <2>1, RunnerIs DEF PhaseOf, phases
<1>3. ASSUME NEW u \in Thread, Startup(t, u) PROVE UNCHANGED Promise!vars
  <2>1. /\ UNCHANGED <<tick, value, error>> /\ pc' = [pc EXCEPT ![t] = "sched"]
        /\ stat[u] = "init"
    BY <1>3 DEF Startup, Goto
  <2>2. /\ ListTypes' /\ suspended' = Without(suspended, {u})
        /\ Range(suspended') = Range(suspended) \ {u}
        /\ \A v \in Thread : /\ stat'[v] = IF v = u THEN "ready" ELSE stat[v]
                             /\ limit'[v] = IF v = u THEN Never ELSE limit[v]
                             /\ waited'[v] = IF v = u THEN 0 ELSE waited[v]
    BY <1>3, <2>1, StartupWakes, WakesIs DEF ListInv
  <2>3. u \notin Range(suspended) /\ u \notin active /\ pc[u] = "run" /\ u # t
    BY <1>2, <2>1, WaitersAre DEF KernelInv, CurrentReady
  <2>4. suspended' = suspended
    BY <1>0, <2>2, <2>3, WithoutProperties
  <2>5. limit[u] = Never /\ waited[u] = 0
    BY <2>3 DEF KernelInv, Clocks
  <2>6. limit' = limit /\ waited' = waited
    <3>1. /\ limit = [v \in Thread |-> limit[v]] /\ waited = [v \in Thread |-> waited[v]]
          /\ limit' = [v \in Thread |-> limit'[v]] /\ waited' = [v \in Thread |-> waited'[v]]
      BY <2>2 DEF ListTypes, KernelInv, TypeOK
    <3>2. \A v \in Thread : limit'[v] = limit[v] /\ waited'[v] = waited[v]
      BY <2>2, <2>5
    <3>3. QED BY <3>1, <3>2
  <2>7. \A v \in Thread : PhaseOf(v)' = PhaseOf(v)
    <3> TAKE v \in Thread
    <3>1. CASE v \in {t, u}
      BY <1>0, <1>2, <2>1, <2>3, <3>1 DEF PhaseOf
    <3>2. CASE v \notin {t, u}
      BY <1>0, <2>1, <2>2, <2>4, <3>2, PhaseKept
    <3>3. QED BY <3>1, <3>2
  <2>8. phases' = phases
    BY <2>7 DEF phases
  <2>9. QED BY <2>1, <2>4, <2>6, <2>8 DEF Promise!vars, phases
<1>4. CASE TakeNow(t)
  <2>1. /\ value > 0 /\ value' = value - 1
        /\ UNCHANGED <<suspended, limit, waited, stat, pc, error>>
    BY <1>4 DEF TakeNow, wait, lists
  <2>2. phases' = phases
    BY <2>1 DEF phases, PhaseOf
  <2>3. QED BY <2>1, <2>2 DEF Promise!Next, Promise!Take, phases
<1>5. CASE Release(t)
  <2>1. /\ ReleaseSem /\ UNCHANGED <<tick, error>>
        /\ \E x \in {"run", "sched"} : pc' = [pc EXCEPT ![t] = x]
    BY <1>5 DEF Release, Goto
  <2>2. \A u \in Thread : \/ pc'[u] = pc[u]
                          \/ {pc[u], pc'[u]} \cap (TakePlaces \cup SleepPlaces) = {}
    BY <1>0, <1>2, <2>1 DEF TakePlaces, SleepPlaces
  <2>3. QED BY <2>1, <2>2, ReleasePosts DEF Promise!Next
<1>6. CASE Reset(t)
  <2>1. /\ tick' = tick /\ value' = 0 /\ pc' = [pc EXCEPT ![t] = "sched"]
        /\ error' = [u \in Thread |-> IF u \in Range(suspended) THEN "ERROR" ELSE error[u]]
    BY <1>6 DEF Reset, Goto
  <2>2. Wakes(Range(suspended)) /\ Range(suspended') = {}
    BY <1>6, <2>1, ResetWakes, WakesIs
  <2> DEFINE res == [u \in Thread |-> "aborted"]
  <2>3. \A u \in Range(suspended) : PhaseOf(u)' = res[u]
    <3> TAKE u \in Range(suspended)
    <3>1. pc[u] \in TakePlaces /\ u # t /\ u \in Thread
      BY <1>0, <1>2 DEF KernelInv, Waiters
    <3>2. pc'[u] = pc[u] /\ error'[u] = "ERROR" /\ u \notin Range(suspended')
      BY <1>0, <2>1, <2>2, <3>1
    <3>3. QED BY <3>1, <3>2 DEF PhaseOf, TakePlaces
  <2>4. \A u \in Thread \ Range(suspended) :
          /\ error'[u] = error[u]
          /\ \/ pc'[u] = pc[u]
             \/ {pc[u], pc'[u]} \cap (TakePlaces \cup SleepPlaces) = {}
    BY <1>0, <1>2, <2>1 DEF TakePlaces, SleepPlaces
  <2> HIDE DEF res
  <2>5. Promise!Wake(Range(suspended), res)
    BY <2>1, <2>2, <2>3, <2>4, WokenPromise
  <2>6. Promise!Reset
    BY <2>1, <2>5 DEF Promise!Reset, res, Range, Promise!Range
  <2>7. QED BY <2>6 DEF Promise!Next
<1>7. CASE EnterCritical(t)
  <2>1. /\ UNCHANGED <<suspended, value, limit, waited, stat, error>>
        /\ pc' = [pc EXCEPT ![t] = "locked"]
    BY <1>7 DEF EnterCritical, Goto, wait, lists
  <2>2. \A u \in Thread : \/ pc'[u] = pc[u]
                          \/ {pc[u], pc'[u]} \cap (TakePlaces \cup SleepPlaces) = {}
    BY <1>0, <1>2, <2>1 DEF TakePlaces, SleepPlaces
  <2>3. QED BY <2>1, <2>2, PromiseStutter
<1>8. ASSUME NEW n \in Timeout \cup {Never}, TakeBlock(t, n) PROVE Promise!Wait(t, n)
  <2>1. /\ value = 0 /\ value' = value /\ suspended' = Append(suspended, t)
        /\ error' = [error EXCEPT ![t] = "EOK"] /\ pc' = [pc EXCEPT ![t] = "take_sched"]
        /\ stat' = [stat EXCEPT ![t] = "suspend"] /\ waited' = waited
        /\ IF n = Never THEN limit' = limit ELSE limit' = [limit EXCEPT ![t] = n]
    BY <1>8 DEF TakeBlock, StartTimer, Goto, Suspend
  <2>2. limit[t] = Never
    BY <1>2 DEF KernelInv, Clocks
  <2>3. limit' = [limit EXCEPT ![t] = n]
    BY <1>0, <2>1, <2>2
  <2>4. Range(suspended') = Range(suspended) \cup {t}
    BY <1>0, <2>1, RangeAppend
  <2>5. PhaseOf(t)' = "waiting"
    BY <1>0, <2>1, <2>4 DEF PhaseOf
  <2>6. \A u \in Thread \ {t} : PhaseOf(u)' = PhaseOf(u)
    BY <1>0, <2>1, <2>4, PhaseKept
  <2>7. phases' = [phases EXCEPT ![t] = "waiting"]
    BY <2>5, <2>6 DEF phases
  <2>8. QED BY <1>2, <2>1, <2>3, <2>7 DEF Promise!Wait, phases
<1>9. ASSUME NEW n \in Timeout, Sleep(t, n) PROVE Promise!Sleep(t, n)
  <2>1. /\ UNCHANGED <<value, suspended, error, waited>>
        /\ pc' = [pc EXCEPT ![t] = "sleep_sched"]
        /\ stat' = [stat EXCEPT ![t] = "suspend"]
        /\ limit' = [limit EXCEPT ![t] = n]
    BY <1>9 DEF Sleep, StartTimer, Goto, Suspend
  <2>2. PhaseOf(t)' = "asleep"
    BY <1>0, <2>1 DEF PhaseOf
  <2>3. \A u \in Thread \ {t} : PhaseOf(u)' = PhaseOf(u)
    BY <1>0, <2>1, PhaseKept
  <2>4. phases' = [phases EXCEPT ![t] = "asleep"]
    BY <2>2, <2>3 DEF phases
  <2>5. QED BY <1>2, <2>1, <2>4 DEF Promise!Sleep, phases
<1>10. QED
  <2>1. ASSUME NEW n \in Timeout \cup {Never}, Promise!Wait(t, n) PROVE Promise!Next
    BY <2>1 DEF Promise!Next, Promise!Never, Never
  <2>2. ASSUME NEW n \in Timeout, Promise!Sleep(t, n) PROVE Promise!Next
    BY <2>2 DEF Promise!Next
  <2>3. QED
    BY <1>3, <1>4, <1>5, <1>6, <1>7, <1>8, <1>9, <2>1, <2>2 DEF Call

LEMMA PromiseContinue ==
  ASSUME KernelInv, NEW t \in Thread, Continue(t)
  PROVE  [Promise!Next]_(Promise!vars)
<1>0. /\ pc \in [Thread -> {"run", "sched", "locked", "take_sched", "take_ret",
                            "sleep_sched", "sleep_ret"}]
      /\ error \in [Thread -> {"EOK", "ETIMEOUT", "ERROR"}]
  BY DEF KernelInv, TypeOK
<1>1. /\ Runs(t) /\ UNCHANGED <<suspended, value, limit, waited, stat>>
  BY DEF Continue, CallSchedule, Return, ExitCritical, wait, lists
<1>2. CASE CallSchedule(t)
  <2>1. /\ UNCHANGED error /\ pc[t] \in {"sched", "take_sched", "sleep_sched"}
        /\ pc' = [pc EXCEPT ![t] = CASE pc[t] = "sched" -> "run"
                                     [] pc[t] = "take_sched" -> "take_ret"
                                     [] pc[t] = "sleep_sched" -> "sleep_ret"]
    BY <1>2 DEF CallSchedule, Goto
  <2>2. /\ pc[t] = "take_sched" => pc' = [pc EXCEPT ![t] = "take_ret"]
        /\ pc[t] = "sleep_sched" => pc' = [pc EXCEPT ![t] = "sleep_ret"]
        /\ pc[t] = "sched" => pc' = [pc EXCEPT ![t] = "run"]
    BY <2>1
  <2>3. /\ \A u \in Thread : u # t => pc'[u] = pc[u]
        /\ pc[t] = "take_sched" => pc'[t] = "take_ret"
        /\ pc[t] = "sleep_sched" => pc'[t] = "sleep_ret"
        /\ pc[t] = "sched" => pc'[t] = "run"
    BY <1>0, <2>1, <2>2
  <2>4. pc[t] = "sched" => {pc[t], pc'[t]} \cap (TakePlaces \cup SleepPlaces) = {}
    BY <2>3 DEF TakePlaces, SleepPlaces
  <2>5. QED BY <1>1, <2>1, <2>3, <2>4, PromiseStutter
<1>3. CASE Return(t)
  <2>1. /\ pc[t] \in {"take_ret", "sleep_ret"} /\ pc' = [pc EXCEPT ![t] = "run"]
        /\ error' = [error EXCEPT ![t] = "EOK"]
    BY <1>3 DEF Return, Goto
  <2>2. stat[t] = "ready"
    BY <1>1, <2>1, RunnerIs
  <2>3. PhaseOf(t) \in Promise!Woken
    BY <2>1, <2>2, PhaseIs DEF TakePlaces, SleepPlaces, Promise!Woken
  <2>4. PhaseOf(t)' = "idle"
    BY <1>0, <2>1 DEF PhaseOf
  <2>5. \A u \in Thread \ {t} : PhaseOf(u)' = PhaseOf(u)
    BY <1>0, <1>1, <2>1, PhaseKept
  <2>6. phases' = [phases EXCEPT ![t] = "idle"] /\ phases[t] = PhaseOf(t)
    BY <2>4, <2>5 DEF phases
  <2>7. Promise!Return(t)
    BY <1>1, <2>3, <2>6 DEF Promise!Return, phases
  <2>8. QED BY <2>7 DEF Promise!Next
<1>4. CASE ExitCritical(t)
  <2>1. /\ UNCHANGED error /\ pc[t] = "locked" /\ pc' = [pc EXCEPT ![t] = "sched"]
    BY <1>4 DEF ExitCritical, Goto
  <2>2. \A u \in Thread : \/ pc'[u] = pc[u]
                          \/ {pc[u], pc'[u]} \cap (TakePlaces \cup SleepPlaces) = {}
    BY <1>0, <2>1 DEF TakePlaces, SleepPlaces
  <2>3. QED BY <1>1, <2>1, <2>2, PromiseStutter
<1>5. QED BY <1>2, <1>3, <1>4 DEF Continue

(* No tick passes over a call whose time is up.                             *)
LEMMA PromiseTick ==
  ASSUME KernelInv, TickEnter
  PROVE  Promise!Tick
<1>1. /\ handler.at = "none" /\ UNCHANGED <<stat, suspended, limit, value, error, pc>>
      /\ waited' = [t \in Thread |-> IF t \in active THEN waited[t] + 1 ELSE waited[t]]
  BY DEF TickEnter, lists
<1>2. Clocks /\ waited \in [Thread -> Nat] /\ \A n \in Timeout : n \in Nat /\ n # Never
  BY TimeoutIs DEF KernelInv, TypeOK
<1>3. \A t \in Thread : limit[t] # Never <=> t \in active
  BY <1>2 DEF Clocks
<1>4. ASSUME NEW t \in Thread, limit[t] # Never PROVE waited[t] < limit[t]
  <2>1. waited[t] + Left(t) = limit[t] /\ Left(t) \in Nat /\ Left(t) > 0 /\ waited[t] \in Nat
    BY <1>1, <1>2, <1>3, <1>4 DEF Clocks
  <2>2. QED BY <2>1
<1>5. waited' = [t \in Thread |-> IF limit[t] # Never THEN waited[t] + 1 ELSE waited[t]]
  BY <1>1, <1>3
<1>6. phases' = phases
  BY <1>1 DEF phases, PhaseOf
<1>7. QED
  BY <1>1, <1>4, <1>5, <1>6 DEF Promise!Tick, Promise!Never, Never, phases

(* rt_timer_check ends the calls whose time is up, and no others.           *)
LEMMA PromiseCheck ==
  ASSUME KernelInv, TickCheck
  PROVE  Promise!Expire
<1> DEFINE W == {t \in active : Left(t) = 0}
           res == [t \in Thread |-> IF phases[t] = "asleep" THEN "rested" ELSE "timeout"]
<1>1. /\ UNCHANGED <<tick, value, pc>>
      /\ error' = [t \in Thread |-> IF t \in Range(Fired) THEN "ETIMEOUT" ELSE error[t]]
  BY DEF TickCheck
<1>2. Wakes(W) /\ Range(Fired) = W
  BY CheckWakes
<1>3. /\ W \subseteq Thread /\ Range(suspended') = Range(suspended) \ W
      /\ \A t \in W : stat'[t] = "ready"
  BY <1>1, <1>2, WakesIs
<1>4. \A t \in W : t \in active
  OBVIOUS
<1>5. \A t \in W : limit[t] # Never /\ waited[t] = limit[t]
  <2> TAKE t \in W
  <2>1. /\ limit[t] \in Timeout /\ waited[t] + 0 = limit[t] /\ waited[t] \in Nat
    BY <1>3 DEF KernelInv, Clocks, TypeOK
  <2>2. QED BY <2>1, TimeoutIs
<1> HIDE DEF W
<1>6. ASSUME NEW t \in W PROVE PhaseOf(t)' = res[t]
  <2>1. /\ t \in Thread /\ error'[t] = "ETIMEOUT" /\ pc'[t] = pc[t]
        /\ t \notin Range(suspended') /\ stat'[t] = "ready" /\ t \in active
        /\ phases[t] = PhaseOf(t)
    BY <1>1, <1>2, <1>3, <1>4 DEF phases
  <2>2. CASE t \in Range(suspended)
    <3>1. PhaseOf(t) = "waiting" /\ pc[t] \in TakePlaces
      BY <2>1, <2>2, PhaseIs DEF KernelInv, Waiters
    <3>2. PhaseOf(t)' = "timeout"
      BY <2>1, <3>1 DEF PhaseOf, TakePlaces
    <3>3. QED BY <2>1, <3>1, <3>2
  <2>3. CASE t \notin Range(suspended)
    <3>1. PhaseOf(t) = "asleep" /\ pc[t] \in SleepPlaces
      BY <2>1, <2>3, PhaseIs DEF KernelInv, Waiters
    <3>2. PhaseOf(t)' = "rested"
      BY <2>1, <3>1 DEF PhaseOf, SleepPlaces
    <3>3. QED BY <2>1, <3>1, <3>2
  <2>4. QED BY <2>2, <2>3
<1>7. \A t \in Thread \ W : error'[t] = error[t] /\ pc'[t] = pc[t]
  BY <1>1, <1>2
<1> HIDE DEF res
<1>8. Promise!Wake(W, res)
  BY <1>1, <1>2, <1>6, <1>7, WokenPromise
<1>9. W \in SUBSET {t \in Thread : limit[t] # Promise!Never /\ waited[t] = limit[t]}
  BY <1>3, <1>5 DEF Promise!Never, Never
<1>10. QED
  BY <1>1, <1>8, <1>9 DEF Promise!Expire, res, phases

LEMMA PromiseStep ==
  ASSUME KernelInv, [Next]_vars
  PROVE  [Promise!Next]_(Promise!vars)
<1>1. CASE TickSlice \/ TickYield \/ TickSchedule \/ PendSV \/ UNCHANGED vars
  <2>1. UNCHANGED <<suspended, value, limit, waited, stat, pc, error>>
    BY <1>1 DEF TickSlice, TickYield, TickSchedule, PendSV, vars, wait, lists
  <2>2. QED BY <2>1, PromiseStutter
<1>2. CASE DeviceRelease
  <2>1. ReleaseSem /\ UNCHANGED <<tick, error, pc>>
    BY <1>2 DEF DeviceRelease
  <2>2. QED BY <2>1, ReleasePosts DEF Promise!Next
<1>3. CASE TickEnter \/ TickCheck
  BY <1>3, PromiseTick, PromiseCheck DEF Promise!Next
<1>4. QED
  BY <1>1, <1>2, <1>3, PromiseCall, PromiseContinue DEF Next, TickHandler

LEMMA PromiseInit == Init => Promise!Init
<1> SUFFICES ASSUME Init PROVE Promise!Init
  OBVIOUS
<1>1. /\ value = 0 /\ suspended = <<>> /\ pc = [t \in Thread |-> "run"]
      /\ limit = [t \in Thread |-> Never] /\ waited = [t \in Thread |-> 0]
  BY DEF Init
<1>2. phases = [t \in Thread |-> "idle"]
  BY <1>1 DEF phases, PhaseOf
<1>3. QED BY <1>1, <1>2 DEF Promise!Init, Promise!Never, Never, phases

(* The blocking calls keep what they promise (ipc.c:322-469,                *)
(* timer.c:494-553): whatever list operations, tick handlers and switches   *)
(* they are made of, for every set of threads, priorities and times and     *)
(* every width of the tick counter.                                         *)
THEOREM KeepsPromise == Spec => CallsKeepPromise
<1>1. KernelInv /\ [Next]_vars => [Promise!Next]_(Promise!vars)
  BY PromiseStep
<1>2. QED
  BY <1>1, PromiseInit, KernelAlways, PTL DEF Spec, CallsKeepPromise, Promise!Spec
=============================================================================
