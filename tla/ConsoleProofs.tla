---------------------------- MODULE ConsoleProofs ----------------------------
(***************************************************************************)
(* For every number of printing threads, size of the ring and width of its *)
(* indices: the ring behaves as a queue of characters, and the handle of   *)
(* the console is never left locked.                                       *)
(***************************************************************************)
EXTENDS Console, SequenceTheorems, TLAPS

-----------------------------------------------------------------------------
(* Remainders.                                                              *)

(* What % computes.                                                         *)
LEMMA Quotient ==
  ASSUME NEW S \in Nat \ {0}, NEW a \in Int
  PROVE  \E q \in Int : \E r \in 0 .. S - 1 : a = S * q + r /\ a % S = r
<1>1. /\ a \div S \in Int /\ a % S \in 0 .. S - 1
      /\ a = S * (a \div S) + (a % S)
  BY Z3
<1>2. QED BY <1>1

(* Two multiples of S are S apart or the same.                              *)
LEMMA SmallMultiple ==
  ASSUME NEW S \in Nat \ {0}, NEW k \in Int, -S < S * k, S * k < S
  PROVE  k = 0
<1>1. CASE k >= 1
  <2>1. S * k >= S
    BY <1>1, Z3
  <2>2. QED BY <2>1
<1>2. CASE k <= -1
  <2>1. S * k <= -S
    BY <1>2, Z3
  <2>2. QED BY <2>1
<1>3. QED BY <1>1, <1>2

LEMMA Remainder ==
  ASSUME NEW S \in Nat \ {0}, NEW q \in Int, NEW r \in 0 .. S - 1, NEW a \in Int,
         a = S * q + r
  PROVE  a % S = r
<1>1. PICK p \in Int, b \in 0 .. S - 1 : a = S * p + b /\ a % S = b
  BY Quotient
<1>2. S * (p - q) = r - b
  BY <1>1, Z3
<1>3. p - q = 0
  BY <1>2, SmallMultiple
<1>4. p = q
 BY <1>3
<1>5. QED BY <1>1, <1>4

(* A turn of the indices, which is a whole number of turns of the ring,     *)
(* does not change the slot.                                                *)
LEMMA Turn ==
  ASSUME NEW S \in Nat \ {0}, NEW M \in Nat, M % S = 0, NEW a \in Int
  PROVE  (a + M) % S = a % S /\ (a - M) % S = a % S
<1>1. PICK m \in Int : M = S * m
  <2>1. PICK m \in Int, b \in 0 .. S - 1 : M = S * m + b /\ M % S = b
    BY Quotient
  <2>2. QED BY <2>1
<1>2. PICK p \in Int, b \in 0 .. S - 1 : a = S * p + b /\ a % S = b
  BY Quotient
<1>3. a + M = S * (p + m) + b /\ a - M = S * (p - m) + b
  BY <1>1, <1>2, Z3
<1>4. PICK x \in Int, y \in Int : x = a + M /\ y = a - M
  OBVIOUS
<1>5. PICK u \in Int, v \in Int : u = p + m /\ v = p - m
  OBVIOUS
<1>6. x = S * u + b /\ y = S * v + b
  BY <1>3, <1>4, <1>5
<1>7. x % S = b /\ y % S = b
  BY <1>6, Remainder
<1>8. QED BY <1>2, <1>4, <1>7

(* Fewer than S steps apart are different slots.                            *)
LEMMA OtherSlot ==
  ASSUME NEW S \in Nat \ {0}, NEW a \in Int, NEW b \in Int, a < b, b - a < S
  PROVE  a % S # b % S
<1> SUFFICES ASSUME a % S = b % S PROVE FALSE
  OBVIOUS
<1>1. PICK p \in Int, r \in 0 .. S - 1 : a = S * p + r /\ a % S = r
  BY Quotient
<1>2. PICK q \in Int, t \in 0 .. S - 1 : b = S * q + t /\ b % S = t
  BY Quotient
<1>3. S * (q - p) = b - a
  BY <1>1, <1>2, Z3
<1>4. q - p = 0
  BY <1>3, SmallMultiple
<1>5. QED BY <1>1, <1>2, <1>4

-----------------------------------------------------------------------------
(* Short names for the slots of the ring and for where its indices wrap.    *)
S == UART8_RBUF_SIZE
M == UintMax

(* The constants, and the indices as numbers.                               *)
LEMMA Sizes ==
  /\ S \in Nat \ {0} /\ M \in Nat /\ M > S /\ M % S = 0 /\ MaxTyped \in Nat
  /\ Slots = 0 .. S - 1
BY ConsoleAssumption DEF ConsoleAssumption, S, M, Slots

(* A sum of indices that is below M, or at least M and below 2M.            *)
LEMMA Wrap ==
  ASSUME NEW a \in Nat, a < M + M
  PROVE  a % M = IF a < M THEN a ELSE a - M
<1>1. M \in Nat \ {0} /\ M > S /\ S \in Nat
  BY Sizes
<1>2. CASE a < M
  <2>1. a = M * 0 + a /\ a \in 0 .. M - 1
    BY <1>1, <1>2
  <2>2. QED BY <1>1, <1>2, <2>1, Remainder
<1>3. CASE a >= M
  <2>1. a = M * 1 + (a - M) /\ a - M \in 0 .. M - 1
    BY <1>1, <1>3
  <2>2. a % M = a - M
    BY <1>1, <2>1, Remainder
  <2>3. QED BY <1>1, <1>3, <2>2
<1>4. QED BY <1>1, <1>2, <1>3

(* What is between the indices i (in) and o (out) of the ring.              *)
LEMMA Between ==
  ASSUME NEW i \in 0 .. M - 1, NEW o \in 0 .. M - 1
  PROVE  (i - o + M) % M = IF o <= i THEN i - o ELSE i - o + M
<1>1. M \in Nat /\ i \in Nat /\ o \in Nat
  BY Sizes
<1>2. PICK a \in Nat : a = i - o + M
  BY <1>1
<1>3. a % M = IF a < M THEN a ELSE a - M
  BY <1>1, <1>2, Wrap
<1>4. QED BY <1>1, <1>2, <1>3

LEMMA NextIndex ==
  ASSUME NEW i \in 0 .. M - 1
  PROVE  /\ (i + 1) % M = IF i = M - 1 THEN 0 ELSE i + 1
         /\ (i + 1) % M \in 0 .. M - 1
<1>1. M \in Nat /\ i + 1 \in Nat /\ M > 0
  BY Sizes
<1>2. PICK a \in Nat : a = i + 1
  BY <1>1
<1>3. a % M = IF a < M THEN a ELSE a - M
  BY <1>1, <1>2, Wrap
<1>4. QED BY <1>1, <1>2, <1>3

(* The slot of an index does not change when the index wraps.               *)
LEMMA SlotOf ==
  ASSUME NEW a \in Nat
  PROVE  /\ a % S \in Slots
         /\ \A b \in Nat : b = a + M \/ b = a - M => b % S = a % S
<1>1. S \in Nat \ {0} /\ M \in Nat /\ M % S = 0 /\ Slots = 0 .. S - 1
  BY Sizes
<1>2. a \in Int
  OBVIOUS
<1>3. a % S \in Slots
  BY <1>1, <1>2, Quotient
<1>4. (a + M) % S = a % S /\ (a - M) % S = a % S
  BY <1>1, <1>2, Turn
<1>5. QED BY <1>3, <1>4

(* The slots of two indices that are fewer than S apart.                    *)
LEMMA Apart ==
  ASSUME NEW a \in Nat, NEW b \in Nat, a < b, b - a < S
  PROVE  a % S # b % S
<1>1. S \in Nat \ {0} /\ a \in Int /\ b \in Int
  BY Sizes
<1>2. QED BY <1>1, OtherSlot

(* Characters between the indices i (in) and o (out); the queue they are in *)
(* the slots B.                                                             *)
Held(i, o) == (i - o + M) % M
QueueOf(i, o, B) == [k \in 1 .. Held(i, o) |-> B[(o + k - 1) % S]]

LEMMA HeldIs ==
  ASSUME NEW i \in 0 .. M - 1, NEW o \in 0 .. M - 1
  PROVE  /\ Held(i, o) = IF o <= i THEN i - o ELSE i - o + M
         /\ Held(i, o) \in Nat
         /\ i = o <=> Held(i, o) = 0
         /\ (o + Held(i, o)) % S = i % S
<1>1. M \in Nat /\ i \in Nat /\ o \in Nat /\ i < M /\ o < M
  BY Sizes
<1>2. Held(i, o) = IF o <= i THEN i - o ELSE i - o + M
  BY Between DEF Held
<1>3. PICK n \in Nat : n = Held(i, o)
  BY <1>1, <1>2
<1>4. n = 0 <=> i = o
  BY <1>1, <1>2, <1>3
<1>5. o + n = i \/ o + n = i + M
  BY <1>1, <1>2, <1>3
<1>6. PICK b \in Nat : b = o + n
  BY <1>1
<1>7. b % S = i % S
  BY <1>1, <1>5, <1>6, SlotOf
<1>8. QED BY <1>2, <1>3, <1>4, <1>6, <1>7

(* One more character, one less.                                            *)
LEMMA HeldPut ==
  ASSUME NEW i \in 0 .. M - 1, NEW o \in 0 .. M - 1, Held(i, o) < S
  PROVE  Held((i + 1) % M, o) = Held(i, o) + 1
<1>1. M \in Nat /\ S \in Nat /\ M > S
  BY Sizes
<1>2. PICK j \in 0 .. M - 1 : j = (i + 1) % M /\ j = IF i = M - 1 THEN 0 ELSE i + 1
  BY NextIndex
<1>3. Held(i, o) = IF o <= i THEN i - o ELSE i - o + M
  BY HeldIs
<1>4. Held(j, o) = IF o <= j THEN j - o ELSE j - o + M
  BY HeldIs
<1>5. PICK m \in Nat, n \in Nat : m = Held(i, o) /\ n = Held(j, o)
  BY HeldIs
<1>6. n = m + 1
  BY <1>1, <1>2, <1>3, <1>4, <1>5
<1>7. QED BY <1>2, <1>5, <1>6

LEMMA HeldGet ==
  ASSUME NEW i \in 0 .. M - 1, NEW o \in 0 .. M - 1, Held(i, o) > 0
  PROVE  Held(i, (o + 1) % M) = Held(i, o) - 1
<1>1. M \in Nat /\ S \in Nat /\ M > S
  BY Sizes
<1>2. PICK j \in 0 .. M - 1 : j = (o + 1) % M /\ j = IF o = M - 1 THEN 0 ELSE o + 1
  BY NextIndex
<1>3. Held(i, o) = IF o <= i THEN i - o ELSE i - o + M
  BY HeldIs
<1>4. Held(i, j) = IF j <= i THEN i - j ELSE i - j + M
  BY HeldIs
<1>5. PICK m \in Nat, n \in Nat : m = Held(i, o) /\ n = Held(i, j)
  BY HeldIs
<1>6. n = m - 1
  BY <1>1, <1>2, <1>3, <1>4, <1>5
<1>7. QED BY <1>2, <1>5, <1>6

(* What follows the index o follows the next index one place earlier.       *)
LEMMA NextSlot ==
  ASSUME NEW o \in 0 .. M - 1, NEW k \in Nat, NEW p \in Nat, p = (o + 1) % M
  PROVE  (p + k) % S = (o + (k + 1)) % S
<1>1. M \in Nat /\ o \in Nat /\ p = IF o = M - 1 THEN 0 ELSE o + 1
  BY NextIndex, Sizes
<1>2. PICK a \in Nat : a = p + k
  OBVIOUS
<1>3. PICK b \in Nat : b = o + (k + 1)
  BY <1>1
<1>4. b = a \/ b = a + M
  BY <1>1, <1>2, <1>3
<1>5. b % S = a % S
  BY <1>4, SlotOf
<1>6. QED BY <1>2, <1>3, <1>5

(* The queue has the characters of its slots.                               *)
LEMMA QueueIs ==
  ASSUME NEW i \in 0 .. M - 1, NEW o \in 0 .. M - 1, NEW B \in [Slots -> Nat]
  PROVE  /\ QueueOf(i, o, B) \in Seq(Nat) /\ Len(QueueOf(i, o, B)) = Held(i, o)
         /\ \A k \in 1 .. Held(i, o) : QueueOf(i, o, B)[k] = B[(o + k - 1) % S]
<1>1. PICK n \in Nat : n = Held(i, o)
  BY HeldIs
<1>2. o \in Nat
  BY Sizes
<1>3. QueueOf(i, o, B) = [k \in 1 .. n |-> B[(o + k - 1) % S]]
  BY <1>1 DEF QueueOf
<1>4. ASSUME NEW k \in 1 .. n PROVE B[(o + k - 1) % S] \in Nat
  <2>1. PICK a \in Nat : a = o + k - 1
    BY <1>2
  <2>2. a % S \in Slots
    BY SlotOf
  <2>3. QED BY <2>1, <2>2
<1>5. QueueOf(i, o, B) \in [1 .. n -> Nat]
  BY <1>3, <1>4
<1>6. QueueOf(i, o, B) \in Seq(Nat)
  BY <1>5
<1>7. DOMAIN QueueOf(i, o, B) = 1 .. n
  BY <1>5
<1>8. Len(QueueOf(i, o, B)) = n
  BY <1>6, <1>7, LenProperties
<1>9. QED BY <1>1, <1>3, <1>6, <1>8

(* UART_RxChar appends, in a slot that no character of the queue is in.     *)
LEMMA QueuePut ==
  ASSUME NEW i \in 0 .. M - 1, NEW o \in 0 .. M - 1, NEW B \in [Slots -> Nat],
         NEW c \in Nat, Held(i, o) < S
  PROVE  QueueOf((i + 1) % M, o, [B EXCEPT ![i % S] = c]) = Append(QueueOf(i, o, B), c)
<1>1. PICK j \in 0 .. M - 1 : j = (i + 1) % M
  BY NextIndex
<1>2. PICK n \in Nat : n = Held(i, o) /\ Held(j, o) = n + 1 /\ (o + n) % S = i % S
  BY <1>1, HeldIs, HeldPut
<1>3. PICK C : C = [B EXCEPT ![i % S] = c]
  OBVIOUS
<1>4. i \in Nat /\ o \in Nat /\ S \in Nat
  BY Sizes
<1>5. C \in [Slots -> Nat]
  BY <1>3
<1>6. PICK q, r : q = QueueOf(i, o, B) /\ r = QueueOf(j, o, C)
  OBVIOUS
<1>7. /\ q \in Seq(Nat) /\ Len(q) = n
      /\ \A k \in 1 .. n : q[k] = B[(o + k - 1) % S]
  BY <1>2, <1>6, QueueIs
<1>8. /\ r \in Seq(Nat) /\ Len(r) = n + 1
      /\ \A k \in 1 .. n + 1 : r[k] = C[(o + k - 1) % S]
  <2>1. /\ QueueOf(j, o, C) \in Seq(Nat) /\ Len(QueueOf(j, o, C)) = Held(j, o)
        /\ \A k \in 1 .. Held(j, o) : QueueOf(j, o, C)[k] = C[(o + k - 1) % S]
    BY <1>5, QueueIs
  <2>2. QED BY <1>2, <1>6, <2>1
<1>9. /\ Append(q, c) \in Seq(Nat) /\ Len(Append(q, c)) = n + 1
      /\ \A k \in 1 .. n : Append(q, c)[k] = q[k]
      /\ Append(q, c)[n + 1] = c
  BY <1>7, AppendProperties
<1>10. ASSUME NEW k \in 1 .. n + 1 PROVE r[k] = Append(q, c)[k]
  <2>1. PICK a \in Nat : a = o + k - 1
    BY <1>4
  <2>2. PICK b \in Nat : b = o + n /\ b % S = i % S
    BY <1>2, <1>4
  <2>3. a % S \in Slots /\ b % S \in Slots
    BY SlotOf
  <2>4. r[k] = C[a % S]
    BY <1>8, <2>1
  <2>5. CASE k = n + 1
    <3>1. a = b
      BY <1>4, <2>1, <2>2, <2>5
    <3>2. C[a % S] = c
      BY <1>3, <2>2, <2>3, <3>1
    <3>3. QED BY <1>9, <2>4, <2>5, <3>2
  <2>6. CASE k # n + 1
    <3>1. k \in 1 .. n /\ a < b /\ b - a < S
      BY <1>2, <1>4, <2>1, <2>2, <2>6
    <3>2. a % S # b % S
      BY <3>1, Apart
    <3>3. C[a % S] = B[a % S]
      BY <1>3, <2>2, <2>3, <3>2
    <3>4. q[k] = B[a % S]
      BY <1>7, <2>1, <3>1
    <3>5. QED BY <1>9, <2>4, <3>1, <3>3, <3>4
  <2>7. QED BY <2>5, <2>6
<1>11. r = Append(q, c)
  BY <1>8, <1>9, <1>10, SeqEqual
<1>12. QED BY <1>1, <1>3, <1>6, <1>11

(* Storing out takes the head away.                                         *)
LEMMA QueueGet ==
  ASSUME NEW i \in 0 .. M - 1, NEW o \in 0 .. M - 1, NEW B \in [Slots -> Nat],
         Held(i, o) > 0
  PROVE  /\ QueueOf(i, o, B) # <<>> /\ Head(QueueOf(i, o, B)) = B[o % S]
         /\ QueueOf(i, (o + 1) % M, B) = Tail(QueueOf(i, o, B))
<1>1. PICK p \in 0 .. M - 1 : p = (o + 1) % M
  BY NextIndex
<1>2. PICK n \in Nat : n = Held(i, o) /\ n > 0 /\ Held(i, p) = n - 1
  BY <1>1, HeldIs, HeldGet
<1>3. PICK q, r : q = QueueOf(i, o, B) /\ r = QueueOf(i, p, B)
  OBVIOUS
<1>4. p \in Nat /\ o \in Nat
  BY Sizes
<1>5. /\ q \in Seq(Nat) /\ Len(q) = n
      /\ \A k \in 1 .. n : q[k] = B[(o + k - 1) % S]
  BY <1>2, <1>3, QueueIs
<1>6. /\ r \in Seq(Nat) /\ Len(r) = n - 1
      /\ \A k \in 1 .. n - 1 : r[k] = B[(p + k - 1) % S]
  <2>1. /\ QueueOf(i, p, B) \in Seq(Nat) /\ Len(QueueOf(i, p, B)) = Held(i, p)
        /\ \A k \in 1 .. Held(i, p) : QueueOf(i, p, B)[k] = B[(p + k - 1) % S]
    BY QueueIs
  <2>2. QED BY <1>2, <1>3, <2>1
<1>7. q # <<>>
  BY <1>2, <1>5
<1>8. /\ Tail(q) \in Seq(Nat) /\ Len(Tail(q)) = n - 1 /\ Head(q) = q[1]
      /\ \A k \in 1 .. n - 1 : Tail(q)[k] = q[k + 1]
  BY <1>5, <1>7, HeadTailProperties
<1>9. ASSUME NEW k \in 1 .. n - 1 PROVE r[k] = Tail(q)[k]
  <2>1. PICK j \in Nat : k = j + 1
    <3>1. k - 1 \in Nat /\ k = (k - 1) + 1
      BY <1>2
    <3>2. QED BY <3>1
  <2>2. p + k - 1 = p + j /\ o + (k + 1) - 1 = o + (j + 1)
    BY <1>4, <2>1
  <2>3. r[k] = B[(p + j) % S]
    BY <1>6, <2>2
  <2>4. k + 1 \in 1 .. n
    BY <1>2
  <2>5. q[k + 1] = B[(o + (j + 1)) % S]
    BY <1>5, <2>2, <2>4
  <2>6. (p + j) % S = (o + (j + 1)) % S
    BY <1>1, <1>4, <2>1, NextSlot
  <2>7. QED BY <1>8, <2>3, <2>5, <2>6
<1>10. r = Tail(q)
  BY <1>6, <1>8, <1>9, SeqEqual
<1>11. Head(q) = B[o % S]
  <2>1. 1 \in 1 .. n /\ o + 1 - 1 = o
    BY <1>2, <1>4
  <2>2. QED BY <1>5, <1>8, <2>1
<1>12. QED BY <1>1, <1>3, <1>7, <1>10, <1>11

(* The next character goes to a slot that is not the oldest one.  Where out *)
(* has been stored early, it goes to the one that is still to be read just  *)
(* when that is the last free one.                                         *)
LEMMA SlotOfIn ==
  ASSUME NEW i \in 0 .. M - 1, NEW o \in 0 .. M - 1
  PROVE  /\ i % S \in Slots
         /\ 0 < Held(i, o) /\ Held(i, o) < S => i % S # o % S
         /\ \A s \in 0 .. M - 1 :
              o = (s + 1) % M =>
                /\ Held(i, o) + 1 < S => i % S # s % S
                /\ Held(i, o) + 1 = S => i % S = s % S
<1>1. i \in Nat /\ o \in Nat /\ M \in Nat /\ S \in Nat
  BY Sizes
<1>2. PICK n \in Nat : n = Held(i, o) /\ (o + n) % S = i % S
  BY HeldIs
<1>3. ASSUME 0 < n, n < S PROVE i % S # o % S
  <2>1. PICK b \in Nat : b = o + n /\ o < b /\ b - o < S
    BY <1>1, <1>3
  <2>2. QED BY <1>1, <1>2, <2>1, Apart
<1>4. ASSUME NEW s \in 0 .. M - 1, o = (s + 1) % M, n + 1 < S
      PROVE  i % S # s % S
  <2>1. (o + n) % S = (s + (n + 1)) % S
    BY <1>1, <1>4, NextSlot
  <2>2. PICK b \in Nat : b = s + (n + 1) /\ s < b /\ b - s < S
    BY <1>1, <1>4
  <2>3. s \in Nat
    BY <1>1
  <2>4. QED BY <1>2, <2>1, <2>2, <2>3, Apart
<1>5. ASSUME NEW s \in 0 .. M - 1, o = (s + 1) % M, n + 1 = S
      PROVE  i % S = s % S
  <2>1. (o + n) % S = (s + (n + 1)) % S
    BY <1>1, <1>5, NextSlot
  <2>2. S \in Nat \ {0} /\ s \in Int
    BY Sizes
  <2>3. S % S = 0
    <3>1. S = S * 1 + 0 /\ 0 \in 0 .. S - 1
      BY <2>2
    <3>2. QED BY <2>2, <3>1, Remainder
  <2>4. (s + S) % S = s % S
    BY <2>2, <2>3, Turn
  <2>5. QED BY <1>2, <1>5, <2>1, <2>4
<1>6. i % S \in Slots
  BY <1>1, SlotOf
<1>7. QED BY <1>2, <1>3, <1>4, <1>5, <1>6

-----------------------------------------------------------------------------
(* The invariant of the ring, which no printing thread touches.             *)
RingTyped ==
  /\ typed \in Nat /\ RDR \in Nat /\ armed \in BOOLEAN /\ storeFirst \in BOOLEAN
  /\ in \in 0 .. M - 1 /\ out \in 0 .. M - 1
  /\ buf \in [Slots -> Nat]
  /\ reader \in {"idle", "store", "readlast", "read", "storelast"}
  /\ slot \in 0 .. M - 1 /\ char \in Nat
  /\ last \in Nat /\ got \in Nat
  /\ Held(in, out) <= S

(* A character that arrives is later than the last one in the ring.         *)
Numbers ==
  /\ typed <= MaxTyped /\ last <= typed
  /\ RDR # 0 => last < RDR /\ RDR <= typed

(* Where the shell is, and what it holds.                                   *)
Reading ==
  /\ reader \in {"store", "readlast"} => storeFirst = TRUE
  /\ reader \in {"read", "storelast"} => storeFirst = FALSE
  /\ reader \in {"store", "read", "storelast"} => slot = out /\ Held(in, out) > 0
  /\ reader = "storelast" => char = buf[slot % S]
  /\ reader = "readlast" => out = (slot + 1) % M

RingInv == RingTyped /\ Numbers /\ Reading

LEMMA UsedIs == Used = Held(in, out) /\ Used' = Held(in, out)'
BY DEF Used, Held, M

(* The receive interrupt.                                                   *)
LEMMA ReceiveKeeps ==
  ASSUME RingInv, Lock \in BOOLEAN, Receive
  PROVE  /\ RingInv'
         /\ reader = "readlast" =>
              buf'[slot % S] = IF Held(in, out) + 1 = S THEN RDR ELSE buf[slot % S]
<1> DEFINE Full == Held(in, out) >= S
<1>1. /\ RDR # 0 /\ RDR' = 0 /\ armed' = ~Lock
      /\ UNCHANGED <<typed, storeFirst, out, reader, slot, char, got>>
  BY DEF Receive, readVars
<1>2. /\ typed \in Nat /\ RDR \in Nat /\ storeFirst \in BOOLEAN
      /\ in \in 0 .. M - 1 /\ out \in 0 .. M - 1 /\ slot \in 0 .. M - 1
      /\ buf \in [Slots -> Nat] /\ last \in Nat
      /\ Held(in, out) \in Nat /\ Held(in, out) <= S /\ S \in Nat
  BY HeldIs, Sizes DEF RingInv, RingTyped
<1>3. CASE Full
  <2>1. UNCHANGED <<buf, in, last>>
    BY <1>2, <1>3, UsedIs DEF Receive, Put, S
  <2>2. Held(in, out)' = Held(in, out)
    BY <1>1, <2>1 DEF Held, M
  <2>3. RingTyped'
    BY <1>1, <1>2, <2>1, <2>2 DEF RingInv, RingTyped, M, Slots, S
  <2>4. Numbers'
    BY <1>1, <2>1 DEF RingInv, Numbers
  <2>5. Reading'
    BY <1>1, <2>1, <2>2 DEF RingInv, Reading, S, M
  <2>6. Held(in, out) + 1 # S
    BY <1>2, <1>3
  <2>7. QED BY <2>1, <2>3, <2>4, <2>5, <2>6 DEF RingInv
<1>4. CASE ~Full
  <2>1. /\ buf' = [buf EXCEPT ![in % S] = RDR]
        /\ in' = (in + 1) % M /\ last' = RDR
    BY <1>2, <1>4, UsedIs DEF Receive, Put, S, M
  <2>2. in' \in 0 .. M - 1
    BY <1>2, <2>1, NextIndex
  <2>3. Held(in, out)' = Held(in, out) + 1
    <3>1. Held((in + 1) % M, out) = Held(in, out) + 1
      BY <1>2, <1>4, HeldPut
    <3>2. Held(in, out)' = Held((in + 1) % M, out)
      BY <1>1, <2>1 DEF Held, M
    <3>3. QED BY <3>1, <3>2
  <2>4. buf' \in [Slots -> Nat]
    BY <1>2, <2>1
  <2>5. RingTyped'
    BY <1>1, <1>2, <1>4, <2>1, <2>2, <2>3, <2>4 DEF RingInv, RingTyped, M, Slots, S
  <2>6. Numbers'
    BY <1>1, <1>2, <2>1 DEF RingInv, Numbers
  <2>8. in % S \in Slots
    BY <1>2, SlotOfIn
  <2>9. \A x \in Slots : x # in % S => buf'[x] = buf[x]
    BY <1>2, <2>1
  <2>10. slot % S \in Slots
    BY <1>2, SlotOfIn
  <2>11. ASSUME reader = "readlast"
         PROVE  buf'[slot % S] = IF Held(in, out) + 1 = S THEN RDR ELSE buf[slot % S]
    <3>1. out = (slot + 1) % M
      BY <2>11 DEF RingInv, Reading
    <3>2. CASE Held(in, out) + 1 = S
      <4>1. in % S = slot % S
        BY <1>2, <3>1, <3>2, SlotOfIn
      <4>2. QED BY <1>2, <2>1, <2>8, <3>2, <4>1
    <3>3. CASE Held(in, out) + 1 # S
      <4>1. Held(in, out) + 1 < S
        BY <1>2, <1>4, <3>3
      <4>2. in % S # slot % S
        BY <1>2, <3>1, <4>1, SlotOfIn
      <4>3. QED BY <2>9, <2>10, <3>3, <4>2
    <3>4. QED BY <3>2, <3>3
  <2>12. ASSUME reader = "storelast" PROVE in % S # slot % S
    <3>1. slot = out /\ Held(in, out) > 0
      BY <2>12 DEF RingInv, Reading
    <3>2. QED BY <1>2, <1>4, <3>1, SlotOfIn
  <2>13. Reading'
    BY <1>1, <1>2, <2>3, <2>9, <2>10, <2>12 DEF RingInv, Reading, S, M
  <2>14. QED BY <2>5, <2>6, <2>11, <2>13 DEF RingInv
<1>5. QED BY <1>3, <1>4

(* The terminal and the shell.                                              *)
LEMMA OutStored ==
  ASSUME RingInv, reader \in {"store", "storelast"}, out' = (slot + 1) % M, in' = in
  PROVE  /\ out' \in 0 .. M - 1 /\ Held(in, out)' = Held(in, out) - 1
         /\ slot = out /\ Held(in, out) > 0
<1>1. slot = out /\ Held(in, out) > 0 /\ in \in 0 .. M - 1 /\ out \in 0 .. M - 1
  BY DEF RingInv, RingTyped, Reading
<1>2. out' \in 0 .. M - 1
  BY <1>1, NextIndex
<1>3. Held(in, out)' = Held(in, (out + 1) % M)
  BY <1>1 DEF Held, M
<1>4. Held(in, (out + 1) % M) = Held(in, out) - 1
  BY <1>1, HeldGet
<1>5. QED BY <1>1, <1>2, <1>3, <1>4

LEMMA TypeKeeps ==
  ASSUME RingInv, Type
  PROVE  RingInv'
<1>1. /\ typed < MaxTyped /\ typed' = typed + 1
      /\ RDR' = IF RDR = 0 THEN typed' ELSE RDR
      /\ UNCHANGED <<armed, storeFirst, in, out, buf, last, reader, slot, char, got>>
  BY DEF Type, ringVars, readVars
<1>2. /\ typed \in Nat /\ RDR \in Nat /\ last \in Nat /\ MaxTyped \in Nat
      /\ Held(in, out) \in Nat /\ S \in Nat
  BY HeldIs, Sizes DEF RingInv, RingTyped
<1>3. Held(in, out)' = Held(in, out)
  BY <1>1 DEF Held, M
<1>4. RingTyped'
  BY <1>1, <1>2, <1>3 DEF RingInv, RingTyped, M, S, Slots
<1>5. Numbers'
  BY <1>1, <1>2 DEF RingInv, Numbers
<1>6. Reading'
  BY <1>1, <1>3 DEF RingInv, Reading, M, S
<1>7. QED BY <1>4, <1>5, <1>6 DEF RingInv

LEMMA ReaderKeeps ==
  ASSUME RingInv, Reader
  PROVE  RingInv'
<1>1. /\ in \in 0 .. M - 1 /\ out \in 0 .. M - 1 /\ slot \in 0 .. M - 1
      /\ Held(in, out) \in Nat /\ S \in Nat /\ buf \in [Slots -> Nat]
      /\ char \in Nat /\ slot % S \in Slots
  BY HeldIs, Sizes, SlotOfIn DEF RingInv, RingTyped
<1>2. CASE Load
  <2>1. /\ in # out /\ slot' = out
        /\ reader' = IF storeFirst THEN "store" ELSE "read"
        /\ UNCHANGED <<typed, RDR, armed, storeFirst, in, out, buf, last, char, got>>
    BY <1>2 DEF Load, IsEmpty, rxVars, ringVars
  <2>2. Held(in, out) > 0 /\ Held(in, out)' = Held(in, out)
    BY <1>1, <2>1, HeldIs DEF Held, M
  <2>3. RingTyped'
    BY <1>1, <2>1, <2>2 DEF RingInv, RingTyped, M, S, Slots
  <2>4. Numbers'
    BY <2>1, <2>2 DEF RingInv, Numbers
  <2>5. storeFirst \in BOOLEAN
    BY DEF RingInv, RingTyped
  <2>6. Reading'
    BY <2>1, <2>2, <2>5 DEF Reading
  <2>7. QED BY <2>3, <2>4, <2>6 DEF RingInv
<1>3. CASE StoreOutFirst
  <2>1. /\ reader = "store" /\ reader' = "readlast" /\ out' = (slot + 1) % M
        /\ UNCHANGED <<typed, RDR, armed, storeFirst, in, buf, last, slot, char, got>>
    BY <1>3 DEF StoreOutFirst, rxVars, M
  <2>2. out' \in 0 .. M - 1 /\ Held(in, out)' = Held(in, out) - 1 /\ Held(in, out) > 0
    BY <2>1, OutStored
  <2>3. RingTyped'
    BY <1>1, <2>1, <2>2 DEF RingInv, RingTyped, M, S, Slots
  <2>4. Numbers'
    BY <1>1, <2>1, <2>2 DEF RingInv, Numbers
  <2>5. Reading'
    BY <2>1 DEF RingInv, Reading, M
  <2>6. QED BY <2>3, <2>4, <2>5 DEF RingInv
<1>4. CASE ReadSlotLast
  <2>1. /\ reader' = "idle" /\ got' = buf[slot % S]
        /\ UNCHANGED <<typed, RDR, armed, storeFirst, in, out, buf, last, slot, char>>
    BY <1>4 DEF ReadSlotLast, rxVars, ringVars, S
  <2>2. Held(in, out)' = Held(in, out)
    BY <2>1 DEF Held, M
  <2>3. RingTyped'
    BY <1>1, <2>1, <2>2 DEF RingInv, RingTyped, M, S, Slots
  <2>4. Numbers'
    BY <2>1, <2>2 DEF RingInv, Numbers
  <2>5. Reading'
    BY <2>1 DEF Reading
  <2>6. QED BY <2>3, <2>4, <2>5 DEF RingInv
<1>5. CASE ReadSlot
  <2>1. /\ reader = "read" /\ reader' = "storelast" /\ char' = buf[slot % S]
        /\ UNCHANGED <<typed, RDR, armed, storeFirst, in, out, buf, last, slot, got>>
    BY <1>5 DEF ReadSlot, rxVars, ringVars, S
  <2>2. Held(in, out)' = Held(in, out)
    BY <2>1 DEF Held, M
  <2>3. RingTyped'
    BY <1>1, <2>1, <2>2 DEF RingInv, RingTyped, M, S, Slots
  <2>4. Numbers'
    BY <2>1, <2>2 DEF RingInv, Numbers
  <2>5. Reading'
    BY <2>1, <2>2 DEF RingInv, Reading, S
  <2>6. QED BY <2>3, <2>4, <2>5 DEF RingInv
<1>6. CASE StoreOutLast
  <2>1. /\ reader = "storelast" /\ reader' = "idle" /\ out' = (slot + 1) % M
        /\ got' = char
        /\ UNCHANGED <<typed, RDR, armed, storeFirst, in, buf, last, slot, char>>
    BY <1>6 DEF StoreOutLast, rxVars, M
  <2>2. out' \in 0 .. M - 1 /\ Held(in, out)' = Held(in, out) - 1 /\ Held(in, out) > 0
    BY <2>1, OutStored
  <2>3. RingTyped'
    BY <1>1, <2>1, <2>2 DEF RingInv, RingTyped, M, S, Slots
  <2>4. Numbers'
    BY <1>1, <2>1, <2>2 DEF RingInv, Numbers
  <2>5. Reading'
    BY <2>1 DEF Reading
  <2>6. QED BY <2>3, <2>4, <2>5 DEF RingInv
<1>7. QED BY <1>2, <1>3, <1>4, <1>5, <1>6 DEF Reader

-----------------------------------------------------------------------------
(* The printing threads.                                                    *)
TxTyped ==
  /\ gState \in {"ready", "busy"} /\ Lock \in BOOLEAN
  /\ printer \in [Printers -> {"idle", "lock", "locked", "sending"}]

LockInv == TxTyped /\ LockIsHeld

(* Every step of a printer, and of the interrupt, keeps the lock of the    *)
(* handle consistent.                                                      *)
LEMMA LockStep == ASSUME LockInv, [Next]_vars PROVE LockInv'
<1> USE DEF LockInv, TxTyped, LockIsHeld
<1>1. CASE Type \/ Receive \/ Reader
  <2>1. UNCHANGED <<gState, Lock, printer>>
    BY <1>1 DEF Type, Receive, Reader, Load, StoreOutFirst, ReadSlotLast,
                ReadSlot, StoreOutLast, txVars
  <2>2. QED BY <2>1
<1>2. ASSUME NEW p \in Printers, Enter(p) PROVE LockInv'
  BY <1>2 DEF Enter, Step
(* A thread that finds the handle locked leaves; whoever locked it is there. *)
<1>3. ASSUME NEW p \in Printers, TakeLock(p) PROVE LockInv'
  BY <1>3 DEF TakeLock, Step
<1>4. ASSUME NEW p \in Printers, Unlock(p) PROVE LockInv'
  BY <1>4 DEF Unlock, Step
<1>5. ASSUME NEW p \in Printers, Sent(p) PROVE LockInv'
  BY <1>5 DEF Sent, Step
<1>6. ASSUME NEW p \in Printers, TimesOut(p) PROVE LockInv'
  BY <1>6 DEF TimesOut, Step
<1>7. CASE UNCHANGED vars
  BY <1>7 DEF vars, txVars
<1>8. QED
  BY <1>1, <1>2, <1>3, <1>4, <1>5, <1>6, <1>7 DEF Next, Transmit

(* huart8 is locked only while some thread stands between the lock and its  *)
(* release, whatever threads of higher priority print in between, so a      *)
(* reception is refused for that short time only (usart.c:188).            *)
THEOREM LockIsReleased == Spec => []LockIsHeld
<1>1. Init => LockInv
  BY DEF Init, LockInv, TxTyped, LockIsHeld
<1>2. LockInv => LockIsHeld
  BY DEF LockInv
<1>3. QED
  BY <1>1, <1>2, LockStep, PTL DEF Spec

-----------------------------------------------------------------------------
(* The ring behaves as a queue.                                             *)
ConsoleInv == RingInv /\ LockInv

LEMMA RingAlone ==
  ASSUME UNCHANGED <<typed, RDR, storeFirst, ringVars, readVars>>, armed' \in {armed, FALSE}
  PROVE  (RingInv => RingInv') /\ Queue' = Queue /\ Got' = Got
BY DEF ringVars, readVars, RingInv, RingTyped, Numbers, Reading,
       Held, Queue, Used, Got, M, S, Slots

LEMMA PrinterSteps ==
  ASSUME NEW p \in Printers, Enter(p) \/ Transmit(p)
  PROVE  /\ UNCHANGED <<typed, RDR, storeFirst, ringVars, readVars>>
         /\ armed' \in {armed, FALSE}
BY DEF Enter, Transmit, TakeLock, Unlock, Sent, TimesOut, rxVars

LEMMA ConsoleStep == ASSUME ConsoleInv, [Next]_vars PROVE ConsoleInv'
<1>1. LockInv'
  BY LockStep DEF ConsoleInv
<1>2. RingInv /\ Lock \in BOOLEAN
  BY DEF ConsoleInv, LockInv, TxTyped
<1>3. ASSUME UNCHANGED <<typed, RDR, storeFirst, ringVars, readVars>>,
             armed' \in {armed, FALSE}
      PROVE  RingInv'
  BY <1>2, <1>3, RingAlone
<1>4. RingInv'
  <2>1. CASE \E p \in Printers : Enter(p) \/ Transmit(p)
    <3>1. /\ UNCHANGED <<typed, RDR, storeFirst, ringVars, readVars>>
          /\ armed' \in {armed, FALSE}
      BY <2>1, PrinterSteps
    <3>2. QED BY <1>3, <3>1
  <2>2. CASE UNCHANGED vars
    BY <1>3, <2>2 DEF vars, rxVars
  <2>3. CASE Type \/ Receive \/ Reader
    BY <1>2, <2>3, TypeKeeps, ReceiveKeeps, ReaderKeeps
  <2>4. QED BY <2>1, <2>2, <2>3 DEF Next
<1>5. QED BY <1>1, <1>4 DEF ConsoleInv

LEMMA ConsoleInit ==
  ASSUME Init
  PROVE  /\ ConsoleInv /\ Queue = <<>> /\ last = 0 /\ Got = 0
         /\ storeFirst \in BOOLEAN /\ reader = "idle"
<1>1. /\ S \in Nat \ {0} /\ M \in Nat /\ M > S /\ MaxTyped \in Nat
      /\ Slots = 0 .. S - 1
  BY Sizes
<1>2. /\ typed = 0 /\ RDR = 0 /\ armed = TRUE /\ in = 0 /\ out = 0
      /\ buf = [i \in Slots |-> 0] /\ storeFirst \in BOOLEAN
      /\ reader = "idle" /\ slot = 0 /\ char = 0 /\ last = 0 /\ got = 0
  BY DEF Init
<1>3. 0 \in 0 .. M - 1 /\ buf \in [Slots -> Nat]
  BY <1>1, <1>2
<1>4. Held(in, out) = 0
  BY <1>2, <1>3, HeldIs
<1>5. RingTyped
  BY <1>1, <1>2, <1>3, <1>4 DEF RingTyped
<1>6. Numbers /\ Reading
  BY <1>1, <1>2, <1>4 DEF Numbers, Reading
<1>7. LockInv
  BY DEF Init, LockInv, TxTyped, LockIsHeld
<1>8. Queue = QueueOf(in, out, buf)
  BY DEF Queue, QueueOf, Used, Held, M, S
<1>9. QueueOf(in, out, buf) \in Seq(Nat) /\ Len(QueueOf(in, out, buf)) = 0
  BY <1>2, <1>3, <1>4, QueueIs
<1>10. Queue = <<>>
  BY <1>8, <1>9
<1>11. QED BY <1>2, <1>5, <1>6, <1>7, <1>10 DEF ConsoleInv, RingInv, Got

LEMMA ConsoleInvariant == Spec => []ConsoleInv
BY ConsoleInit, ConsoleStep, PTL DEF Spec

(* The ring never holds more characters than it has slots, however often   *)
(* in and out wrap (usart.c: UART_RxChar, UART_GetChar).                    *)
THEOREM ConsoleTypes == Spec => []TypeOK
<1>1. ConsoleInv => TypeOK
  BY UsedIs DEF ConsoleInv, RingInv, RingTyped, LockInv, TxTyped, TypeOK, M, S
<1>2. QED BY <1>1, ConsoleInvariant, PTL

(* What a step does to the queue.                                           *)
LEMMA Mapped ==
  /\ Queue = QueueOf(in, out, buf)
  /\ Queue' = QueueOf(in', out', buf')
BY DEF Queue, QueueOf, Used, Held, M, S

(* The interrupt puts a character, or drops it when the ring is full.       *)
LEMMA ReceivePuts ==
  ASSUME ConsoleInv, Receive
  PROVE  AbstractQueue!Put \/ UNCHANGED <<storeFirst, Queue, reader, last, Got>>
<1>1. RingInv /\ Lock \in BOOLEAN
  BY DEF ConsoleInv, LockInv, TxTyped
<1>2. /\ RDR # 0 /\ UNCHANGED <<storeFirst, out, reader, slot, got>>
  BY DEF Receive, readVars
<1>3. /\ in \in 0 .. M - 1 /\ out \in 0 .. M - 1 /\ buf \in [Slots -> Nat]
      /\ RDR \in Nat /\ last < RDR /\ RDR <= MaxTyped
      /\ last \in Nat /\ typed \in Nat /\ MaxTyped \in Nat
  BY <1>1, <1>2, Sizes DEF RingInv, RingTyped, Numbers
<1>4. /\ Held(in, out) \in Nat /\ Held(in, out) <= S /\ S \in Nat
  BY <1>1, <1>3, HeldIs, Sizes DEF RingInv, RingTyped
<1>5. CASE Held(in, out) < S
  <2>1. /\ buf' = [buf EXCEPT ![in % S] = RDR]
        /\ in' = (in + 1) % M /\ last' = RDR
    BY <1>5, UsedIs DEF Receive, Put, S, M
  <2>2. Queue' = Append(Queue, RDR)
    BY <1>2, <1>3, <1>5, <2>1, QueuePut, Mapped
  <2>3. Len(Queue) = Held(in, out)
    BY <1>3, QueueIs, Mapped
  <2>4. RDR \in last + 1 .. MaxTyped
    BY <1>3
  <2>5. Len(Queue) < S /\ (Len(Queue) = S - 1 <=> Held(in, out) + 1 = S)
    BY <1>4, <1>5, <2>3
  <2>6. Got' = IF reader = "readlast" /\ Len(Queue) = S - 1 THEN RDR ELSE Got
    <3>1. CASE reader = "readlast"
      <4>1. buf'[slot % S] = IF Held(in, out) + 1 = S THEN RDR ELSE buf[slot % S]
        BY <1>1, <3>1, ReceiveKeeps
      <4>2. Got' = buf'[slot % S] /\ Got = buf[slot % S]
        BY <1>2, <3>1 DEF Got, S
      <4>3. QED BY <2>5, <3>1, <4>1, <4>2
    <3>2. CASE reader # "readlast"
      BY <1>2, <3>2 DEF Got
    <3>3. QED BY <3>1, <3>2
  <2>7. QED BY <1>2, <2>1, <2>2, <2>4, <2>5, <2>6 DEF AbstractQueue!Put, S
<1>6. CASE ~(Held(in, out) < S)
  <2>1. UNCHANGED <<buf, in, last>>
    BY <1>6, UsedIs DEF Receive, Put, S
  <2>2. Got' = Got
    BY <1>2, <2>1 DEF Got
  <2>3. QED BY <1>2, <2>1, <2>2, Mapped
<1>7. QED BY <1>5, <1>6

(* The shell takes the oldest character at the step that stores out, in     *)
(* either order of the build, and at that step only.                        *)
LEMMA ReaderGets ==
  ASSUME ConsoleInv, Reader
  PROVE  \/ AbstractQueue!Get \/ AbstractQueue!HandOut
         \/ UNCHANGED <<storeFirst, Queue, reader = "readlast", last, Got>>
<1>1. RingInv
  BY DEF ConsoleInv
<1>2. in \in 0 .. M - 1 /\ out \in 0 .. M - 1 /\ buf \in [Slots -> Nat]
  BY <1>1 DEF RingInv, RingTyped
<1>3. CASE StoreOutFirst \/ StoreOutLast
  <2>1. /\ reader \in {"store", "storelast"} /\ out' = (slot + 1) % M
        /\ UNCHANGED <<in, buf, last, slot>>
    BY <1>3 DEF StoreOutFirst, StoreOutLast, M
  <2>2. slot = out /\ Held(in, out) > 0
    BY <1>1, <2>1, OutStored
  <2>3. /\ Queue # <<>> /\ Head(Queue) = buf[out % S]
        /\ Queue' = Tail(Queue)
    BY <1>2, <2>1, <2>2, QueueGet, Mapped
  <2>4. Got' = buf[out % S]
    <3>1. CASE StoreOutFirst
      <4>1. reader' = "readlast"
        BY <3>1 DEF StoreOutFirst
      <4>2. QED BY <2>1, <2>2, <4>1 DEF Got, S
    <3>2. CASE StoreOutLast
      <4>1. reader = "storelast" /\ reader' = "idle" /\ got' = char
        BY <3>2 DEF StoreOutLast
      <4>2. char = buf[slot % S]
        BY <1>1, <4>1 DEF RingInv, Reading
      <4>3. QED BY <2>2, <4>1, <4>2 DEF Got
    <3>3. QED BY <1>3, <3>1, <3>2
  <2>5. (reader' = "readlast") = storeFirst /\ storeFirst' = storeFirst
    <3>1. storeFirst \in BOOLEAN
      BY <1>1 DEF RingInv, RingTyped
    <3>2. reader = "store" => storeFirst = TRUE
      BY <1>1 DEF RingInv, Reading
    <3>3. reader = "storelast" => storeFirst = FALSE
      BY <1>1, <3>1 DEF RingInv, Reading
    <3>4. QED BY <1>3, <3>2, <3>3 DEF StoreOutFirst, StoreOutLast, rxVars
  <2>6. QED BY <2>1, <2>3, <2>4, <2>5 DEF AbstractQueue!Get
<1>4. CASE Load \/ ReadSlot \/ ReadSlotLast
  <2>1. UNCHANGED <<storeFirst, in, out, buf, last>> /\ reader' # "readlast"
    BY <1>4 DEF Load, ReadSlot, ReadSlotLast, ringVars, rxVars
  <2>2. Got' = Got
    BY <1>4 DEF Load, ReadSlot, ReadSlotLast, Got
  <2>3. QED BY <2>1, <2>2, Mapped DEF AbstractQueue!HandOut
<1>5. QED BY <1>3, <1>4 DEF Reader

(* The ring implements the queue, whenever the interrupt comes between the  *)
(* steps of the shell: where the compiler reads the slot before it stores   *)
(* out, characters are read once and in the order they were typed; where it *)
(* stores out first (usart.h:42), the one exception is the character whose  *)
(* slot the interrupt fills as the last one of the ring.                   *)
THEOREM RingIsQueue == Spec => IsQueue
<1>1. Init => AbstractQueue!Init
  <2> SUFFICES ASSUME Init PROVE AbstractQueue!Init
    OBVIOUS
  <2>1. Queue = <<>> /\ last = 0 /\ Got = 0 /\ storeFirst \in BOOLEAN
    BY ConsoleInit
  <2>2. (reader = "readlast") = FALSE
    BY ConsoleInit
  <2>3. QED BY <2>1, <2>2 DEF AbstractQueue!Init
<1>2. ASSUME ConsoleInv, [Next]_vars
      PROVE  [AbstractQueue!Next]_<<storeFirst, Queue, reader = "readlast", last, Got>>
  <2>1. CASE Type
    <3>1. UNCHANGED <<storeFirst, in, out, buf, last, reader, slot, got>>
      BY <2>1 DEF Type, ringVars, readVars
    <3>2. Got' = Got
      BY <3>1 DEF Got
    <3>3. QED BY <3>1, <3>2, Mapped
  <2>2. CASE (\E p \in Printers : Enter(p) \/ Transmit(p)) \/ UNCHANGED vars
    <3>1. /\ UNCHANGED <<typed, RDR, storeFirst, ringVars, readVars>>
          /\ armed' \in {armed, FALSE}
      BY <2>2, PrinterSteps DEF vars, rxVars
    <3>2. QED BY <3>1, RingAlone DEF ringVars, readVars
  <2>3. QED
    BY <1>2, <2>1, <2>2, ReceivePuts, ReaderGets DEF Next, AbstractQueue!Next
<1>3. QED
  BY <1>1, <1>2, ConsoleInvariant, PTL
     DEF Spec, IsQueue, AbstractQueue!Spec, AbstractQueue!vars
=============================================================================
