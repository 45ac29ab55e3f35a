------------------------------ MODULE ModArith ------------------------------
(***************************************************************************)
(* Facts about remainders by a divisor that is not a fixed number, the     *)
(* least number of a set, and the functions on 0 .. N that a first value   *)
(* and a step define.                                                      *)
(***************************************************************************)
EXTENDS Integers, WellFoundedInduction, TLAPS

\* A number is a multiple of the divisor and a remainder.
LEMMA Quotient ==
  ASSUME NEW a \in Int, NEW m \in Nat \ {0}
  PROVE  /\ a % m \in 0 .. m - 1
         /\ a \div m \in Int
         /\ a = m * (a \div m) + (a % m)
<1>1. a % m \in 0 .. m - 1
  OBVIOUS
<1>2. a \div m \in Int
  OBVIOUS
<1>3. a = m * (a \div m) + (a % m)
  OBVIOUS
<1> QED BY <1>1, <1>2, <1>3

\* The same, with names for the quotient and the remainder.
LEMMA Division ==
  ASSUME NEW a \in Int, NEW m \in Nat \ {0}
  PROVE  \E q \in Int : \E r \in 0 .. m - 1 : q = a \div m /\ r = a % m /\ a = m * q + r
<1>1. PICK q \in Int : q = a \div m
  BY Quotient
<1>2. PICK r \in 0 .. m - 1 : r = a % m
  BY Quotient
<1>3. a = m * q + r
  BY <1>1, <1>2, Quotient
<1> QED BY <1>1, <1>2, <1>3

\* Nothing but the remainder lies a multiple of the divisor away and in range.
LEMMA Remainder ==
  ASSUME NEW m \in Nat \ {0}, NEW q \in Int, NEW r \in 0 .. m - 1
  PROVE  (m * q + r) % m = r
OBVIOUS

\* A whole turn changes no remainder.
LEMMA RemainderTurn ==
  ASSUME NEW a \in Int, NEW m \in Nat \ {0}
  PROVE  (a + m) % m = a % m
<1>1. PICK q \in Int, r \in 0 .. m - 1 : a = m * q + r /\ r = a % m
  BY Quotient
<1>2. a + m = m * (q + 1) + r
  BY <1>1
<1>3. (m * (q + 1) + r) % m = r
  BY Remainder
<1> QED BY <1>1, <1>2, <1>3

\* The remainder of a number less than a turn out of range.
LEMMA RemainderNear ==
  ASSUME NEW m \in Nat \ {0}, NEW a \in Int, - m <= a, a < m + m
  PROVE  a % m = IF a < 0 THEN a + m ELSE IF a < m THEN a ELSE a - m
<1>1. CASE a < 0
  <2>1. a = m * (-1) + (a + m) /\ a + m \in 0 .. m - 1
    BY <1>1
  <2> QED BY <2>1, <1>1, Remainder
<1>2. CASE 0 <= a /\ a < m
  BY <1>2
<1>3. CASE m <= a
  <2>1. a = m * 1 + (a - m) /\ a - m \in 0 .. m - 1
    BY <1>3
  <2> QED BY <2>1, <1>3, Remainder
<1> QED BY <1>1, <1>2, <1>3

\* A counter that goes on by a turn at most.
LEMMA RemainderSum ==
  ASSUME NEW m \in Nat \ {0}, NEW t \in Nat, t < m, NEW d \in Nat, d <= m
  PROVE  (t + d) % m = IF t + d < m THEN t + d ELSE t + d - m
<1>1. CASE t + d < m
  BY <1>1
<1>2. CASE m <= t + d
  <2>1. t + d = m * 1 + (t + d - m) /\ t + d - m \in 0 .. m - 1
    BY <1>2
  <2>2. PICK r \in 0 .. m - 1 : r = t + d - m
    BY <2>1
  <2>3. (m * 1 + r) % m = r
    BY Remainder
  <2> QED BY <1>2, <2>1, <2>2, <2>3
<1> QED BY <1>1, <1>2

\* The remainder of a difference is that of the difference of the remainders.
LEMMA RemainderDifference ==
  ASSUME NEW a \in Int, NEW b \in Int, NEW m \in Nat \ {0}
  PROVE  ((a % m) - (b % m)) % m = (a - b) % m
<1>1. PICK q \in Int, r \in 0 .. m - 1 : a = m * q + r /\ r = a % m
  BY Quotient
<1>2. PICK p \in Int, s \in 0 .. m - 1 : b = m * p + s /\ s = b % m
  BY Quotient
<1>0. r - s \in Int
  OBVIOUS
<1>3. PICK k \in Int, t \in 0 .. m - 1 : r - s = m * k + t /\ t = (r - s) % m
  BY <1>0, Quotient
<1>4. a - b = m * (q - p + k) + t
  <2>1. m * (q - p + k) = m * q - m * p + m * k
    OBVIOUS
  <2>2. PICK x \in Int, y \in Int, z \in Int : x = m * q /\ y = m * p /\ z = m * k
    OBVIOUS
  <2>3. a = x + r /\ b = y + s /\ r - s = z + t
    BY <1>1, <1>2, <1>3, <2>2
  <2>4. a - b = x - y + z + t
    BY <2>3
  <2> QED BY <2>1, <2>2, <2>4
<1>5. (m * (q - p + k) + t) % m = t
  BY Remainder
<1> QED BY <1>1, <1>2, <1>3, <1>4, <1>5

\* An index that goes round a ring.
LEMMA RemainderNext ==
  ASSUME NEW a \in Int, NEW m \in Nat \ {0}
  PROVE  ((a % m) + 1) % m = (a + 1) % m
<1>1. PICK q \in Int : \E r \in 0 .. m - 1 : q = a \div m /\ r = a % m /\ a = m * q + r
  BY Division
<1>2. PICK r \in 0 .. m - 1 : r = a % m /\ a = m * q + r
  BY <1>1
<1>3. CASE r + 1 < m
  <2>1. r + 1 \in 0 .. m - 1 /\ a + 1 = m * q + (r + 1)
    BY <1>2, <1>3
  <2>2. (m * q + (r + 1)) % m = r + 1 /\ (r + 1) % m = r + 1
    BY <1>3, <2>1, Remainder
  <2> QED BY <1>2, <2>1, <2>2
<1>4. CASE r + 1 = m
  <2>1. 0 \in 0 .. m - 1 /\ m * (q + 1) = m * q + m /\ m * 1 = m
    OBVIOUS
  <2>0. a = m * q + r
    BY <1>2
  <2>a. a + 1 = m * q + m
    BY <1>4, <2>0
  <2>b. m * (q + 1) + 0 = m * q + m /\ m * 1 + 0 = m
    BY <2>1
  <2>2. a + 1 = m * (q + 1) + 0 /\ r + 1 = m * 1 + 0
    BY <1>4, <2>a, <2>b, Zenon
  <2>3. (m * (q + 1) + 0) % m = 0 /\ (m * 1 + 0) % m = 0
    BY <2>1, Remainder
  <2> QED BY <1>2, <2>2, <2>3
<1> QED BY <1>3, <1>4

(***************************************************************************)
(* Two counters modulo m, of what comes in and of what goes out, agree     *)
(* with n, what is held; and go on doing so.                               *)
(***************************************************************************)
Agree(a, b, n, m) == (a - b - n) % m = 0

LEMMA AgreeIn ==
  ASSUME NEW m \in Nat \ {0}, NEW a \in Int, NEW b \in Int, NEW n \in Int, NEW k \in Int,
         Agree(a, b, n, m)
  PROVE  Agree((a + k) % m, b, n + k, m)
<1>h. (a - b - n) % m = 0
  BY DEF Agree
<1>0. a - b - n \in Int /\ a + k \in Int /\ 0 \in 0 .. m - 1
  OBVIOUS
<1>1. PICK p \in Int : \E r \in 0 .. m - 1 : r = (a - b - n) % m /\ a - b - n = m * p + r
  BY <1>0, Division
<1>c. PICK c \in Int : c = a + k
  BY <1>0
<1>2. PICK q \in Int : \E r \in 0 .. m - 1 : q = c \div m /\ r = c % m /\ c = m * q + r
  BY Division
<1>3. PICK r \in 0 .. m - 1 : r = c % m /\ c = m * q + r
  BY <1>2
<1>4. PICK x \in Int, y \in Int : x = m * p /\ y = m * q /\ x - y = m * (p - q)
  OBVIOUS
<1>5. a - b - n = x /\ a + k = y + r
  BY <1>h, <1>c, <1>1, <1>3, <1>4
<1>6. r - b - (n + k) = m * (p - q) + 0
  <2>1. r - b - (n + k) = x - y
    BY <1>5
  <2>2. \A z \in Int : z + 0 = z
    OBVIOUS
  <2> QED BY <2>1, <2>2, <1>4
<1>7. (m * (p - q) + 0) % m = 0
  BY <1>0, Remainder
<1>8. (r - b - (n + k)) % m = 0
  BY <1>6, <1>7, Zenon
<1> QED BY <1>c, <1>3, <1>8, Zenon DEF Agree

LEMMA AgreeOut ==
  ASSUME NEW m \in Nat \ {0}, NEW a \in Int, NEW b \in Int, NEW n \in Int, NEW k \in Int,
         Agree(a, b, n, m)
  PROVE  Agree(a, (b + k) % m, n - k, m)
<1>h. (a - b - n) % m = 0
  BY DEF Agree
<1>0. a - b - n \in Int /\ b + k \in Int /\ 0 \in 0 .. m - 1
  OBVIOUS
<1>1. PICK p \in Int : \E r \in 0 .. m - 1 : r = (a - b - n) % m /\ a - b - n = m * p + r
  BY <1>0, Division
<1>c. PICK c \in Int : c = b + k
  BY <1>0
<1>2. PICK q \in Int : \E r \in 0 .. m - 1 : q = c \div m /\ r = c % m /\ c = m * q + r
  BY Division
<1>3. PICK r \in 0 .. m - 1 : r = c % m /\ c = m * q + r
  BY <1>2
<1>4. PICK x \in Int, y \in Int : x = m * p /\ y = m * q /\ x + y = m * (p + q)
  OBVIOUS
<1>5. a - b - n = x /\ b + k = y + r
  BY <1>h, <1>c, <1>1, <1>3, <1>4
<1>6. a - r - (n - k) = m * (p + q) + 0
  <2>1. a - r - (n - k) = x + y
    BY <1>5
  <2>2. \A z \in Int : z + 0 = z
    OBVIOUS
  <2> QED BY <2>1, <2>2, <1>4
<1>7. (m * (p + q) + 0) % m = 0
  BY <1>0, Remainder
<1>8. (a - r - (n - k)) % m = 0
  BY <1>6, <1>7, Zenon
<1> QED BY <1>c, <1>3, <1>8, Zenon DEF Agree
-----------------------------------------------------------------------------
\* A set of natural numbers has a least one.
LEMMA Least ==
  ASSUME NEW S \in SUBSET Nat, S # {}
  PROVE  \E i \in S : \A j \in S : i <= j
<1>1. PICK i \in S : \A j \in S : ~ <<j, i>> \in OpToRel(<, Nat)
  BY WFMin, NatLessThanWellFounded
<1>2. \A j \in S : ~ j < i
  BY <1>1 DEF OpToRel
<1> QED BY <1>2

\* What holds at 0, and at n if it does at n - 1, holds up to N.
LEMMA UpTo ==
  ASSUME NEW N \in Nat, NEW T, 0 \in T, \A n \in 1 .. N : n - 1 \in T => n \in T
  PROVE  0 .. N \subseteq T
<1> DEFINE D == {n \in 0 .. N : n \notin T}
<1>1. ASSUME D # {} PROVE FALSE
  <2>1. D \in SUBSET Nat
    OBVIOUS
  <2> HIDE DEF D
  <2>2. PICK m \in D : \A j \in D : m <= j
    BY <1>1, <2>1, Least
  <2> USE DEF D
  <2>3. m \in 1 .. N /\ m - 1 \in 0 .. N /\ ~ m <= m - 1
    OBVIOUS
  <2>4. m - 1 \in T
    BY <2>2, <2>3
  <2> QED BY <2>3, <2>4
<1> QED BY <1>1

\* A function on 0 .. N is determined by its first value and its steps,
LEMMA SameSteps ==
  ASSUME NEW N \in Nat, NEW f, NEW g, f[0] = g[0],
         \A n \in 1 .. N : f[n - 1] = g[n - 1] => f[n] = g[n]
  PROVE  \A n \in 0 .. N : f[n] = g[n]
<1> DEFINE T == {n \in 0 .. N : f[n] = g[n]}
<1>1. 0 \in T /\ \A n \in 1 .. N : n - 1 \in T => n \in T
  OBVIOUS
<1> HIDE DEF T
<1>2. 0 .. N \subseteq T
  BY <1>1, UpTo
<1> QED BY <1>2 DEF T

\* and there is one for every first value and all steps.
Steps(f, first, step, n, S) ==
  /\ f \in [0 .. n -> S]
  /\ f[0] = first
  /\ \A i \in 1 .. n : f[i] = step[i][f[i - 1]]

LEMMA StepsExist ==
  ASSUME NEW N \in Nat, NEW S, NEW first \in S, NEW step \in [1 .. N -> [S -> S]]
  PROVE  \E f : Steps(f, first, step, N, S)
<1> DEFINE T == {n \in 0 .. N : \E f : Steps(f, first, step, n, S)}
<1>1. 0 \in T
  <2>1. Steps([i \in 0 .. 0 |-> first], first, step, 0, S)
    BY DEF Steps
  <2> QED BY <2>1
<1>2. ASSUME NEW n \in 1 .. N, n - 1 \in T PROVE n \in T
  <2>1. PICK f : Steps(f, first, step, n - 1, S)
    BY <1>2
  <2>2. f \in [0 .. n - 1 -> S]
    BY <2>1 DEF Steps
  <2>3. PICK last \in S : last = step[n][f[n - 1]]
    BY <2>2
  <2> DEFINE g == [i \in 0 .. n |-> IF i = n THEN last ELSE f[i]]
  <2>4. \A i \in 0 .. n : i = n \/ i \in 0 .. n - 1
    OBVIOUS
  <2>5. g \in [0 .. n -> S]
    BY <2>2, <2>4
  <2>6. g[0] = first
    BY <2>1 DEF Steps
  <2>7. ASSUME NEW i \in 1 .. n PROVE g[i] = step[i][g[i - 1]]
    <3>1. g[i - 1] = f[i - 1] /\ (i = n \/ i \in 1 .. n - 1)
      OBVIOUS
    <3>2. CASE i = n
      <4>1. g[i] = last
        BY <3>2
      <4> HIDE DEF g
      <4> QED BY <2>3, <3>1, <3>2, <4>1
    <3>3. CASE i \in 1 .. n - 1
      <4>1. g[i] = f[i]
        BY <3>3
      <4>2. f[i] = step[i][f[i - 1]]
        BY <2>1, <3>3 DEF Steps
      <4> HIDE DEF g
      <4> QED BY <3>1, <4>1, <4>2
    <3> QED BY <3>1, <3>2, <3>3
  <2> HIDE DEF g
  <2>8. Steps(g, first, step, n, S)
    BY <2>5, <2>6, <2>7 DEF Steps
  <2> QED BY <2>8
<1> HIDE DEF T
<1>3. 0 .. N \subseteq T
  BY <1>1, <1>2, UpTo
<1> QED BY <1>3 DEF T
=============================================================================
