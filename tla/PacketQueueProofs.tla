------------------------- MODULE PacketQueueProofs -------------------------
(***************************************************************************)
(* What insert() and remove() do to a linked list, for lists of every      *)
(* length: a queue that holds the sequence s of buffers holds Append(s, pb)*)
(* or Tail(s) after them, and a queue that shares no buffer with it holds  *)
(* what it held.  Following the links from the first buffer gives s.       *)
(***************************************************************************)
EXTENDS PacketQueue, ModArith, FiniteSetTheorems

\* No buffer is in s twice.
NoRepeat(s) == \A i, j \in 1 .. Len(s) : s[i] = s[j] => i = j

\* s and t have no buffer in common.
Apart(s, t) == \A i \in 1 .. Len(s), j \in 1 .. Len(t) : s[i] # t[j]

LEMMA EmptyIffNoLen == \A S : \A s \in Seq(S) : s = << >> <=> Len(s) = 0
OBVIOUS

LEMMA CountType ==
  ASSUME NEW n \in 0 .. LongMod - 1, NEW by \in Nat
  PROVE  Count(n, by) \in 0 .. LongMod - 1
BY BuffersAssumption DEF Count

LEMMA InsertType ==
  ASSUME NEW q \in Queue, NEW n \in [Buffers -> Link], NEW pb \in Buffers, NEW len \in Nat
  PROVE  /\ InsertQueue(q, pb, len) \in Queue
         /\ InsertLinks(q, n, pb) \in [Buffers -> Link]
<1>1. /\ Count(q.packetsIn, 1) \in 0 .. LongMod - 1
      /\ Count(q.wordsIn, len) \in 0 .. LongMod - 1
  BY CountType DEF Queue
<1> QED BY <1>1 DEF InsertQueue, InsertLinks, Queue, Link

LEMMA RemoveType ==
  ASSUME NEW q \in Queue, NEW n \in [Buffers -> Link], ~IsEmpty(q), NEW len \in Nat
  PROVE  /\ RemoveQueue(q, n, len) \in Queue
         /\ RemoveLinks(q, n) \in [Buffers -> Link]
         /\ q.first \in Buffers
<1>1. /\ Count(q.packetsOut, 1) \in 0 .. LongMod - 1
      /\ Count(q.wordsOut, len) \in 0 .. LongMod - 1
  BY CountType DEF Queue
<1>2. q.first \in Buffers
  BY DEF IsEmpty, Queue, Link
<1> QED BY <1>1, <1>2 DEF RemoveQueue, RemoveLinks, Queue, Link

\* The ends of a sequence of buffers.
LEMMA EndsOf ==
  ASSUME NEW s \in Seq(Buffers), s # << >>
  PROVE  /\ Len(s) \in Nat /\ Len(s) > 0
         /\ s[1] \in Buffers /\ s[Len(s)] \in Buffers
         /\ NoRepeat(s) => /\ s[1] = s[Len(s)] <=> Len(s) = 1
                           /\ s[1] # s[Len(s)] <=> Len(s) > 1
<1>1. Len(s) \in Nat /\ Len(s) > 0
  BY EmptyIffNoLen
<1>2. NoRepeat(s) => (s[1] = s[Len(s)] => Len(s) = 1)
  <2>1. 1 \in 1 .. Len(s) /\ Len(s) \in 1 .. Len(s)
    BY <1>1
  <2> QED BY <2>1, Zenon DEF NoRepeat
<1> QED BY <1>1, <1>2

\* remove() takes the first buffer off the list.
LEMMA RemoveHolds ==
  ASSUME NEW q \in Queue, NEW nx \in [Buffers -> Link], NEW len,
         NEW s \in Seq(Buffers), s # << >>, NoRepeat(s), Holds(q, nx, s)
  PROVE  /\ Holds(RemoveQueue(q, nx, len), RemoveLinks(q, nx), Tail(s))
         /\ q.first = s[1] /\ s[1] \in Buffers
<1> DEFINE r == RemoveQueue(q, nx, len)
           n == RemoveLinks(q, nx)
           t == Tail(s)
<1>1. /\ Len(s) \in Nat \ {0} /\ s[1] \in Buffers /\ s[Len(s)] \in Buffers
      /\ t \in Seq(Buffers) /\ Len(t) = Len(s) - 1
      /\ \A i \in 1 .. Len(t) : t[i] = s[i + 1]
      /\ \A i \in 1 .. Len(s) : s[i] \in Buffers
  OBVIOUS
<1>2. q.first = s[1] /\ q.last = s[Len(s)] /\ nx[s[Len(s)]] = NULL
  BY DEF Holds
<1>3. r.first = IF s[1] = s[Len(s)] THEN NULL ELSE nx[s[1]]
  BY <1>2 DEF RemoveQueue, Queue
<1>4. r.last = IF s[1] = s[Len(s)] THEN NULL ELSE s[Len(s)]
  BY <1>2 DEF RemoveQueue, Queue
<1>5. \A i \in 2 .. Len(s) : n[s[i]] = nx[s[i]]
  BY <1>1, <1>2 DEF RemoveLinks, NoRepeat
<1>e. t = << >> <=> Len(t) = 0
  BY <1>1, EmptyIffNoLen
<1> HIDE DEF r, n, t
<1>6. CASE Len(s) = 1
  <2>1. t = << >> /\ r.first = NULL /\ r.last = NULL
    BY <1>1, <1>3, <1>4, <1>6, <1>e
  <2>2. Holds(r, n, t)
    BY <2>1, <1>1 DEF Holds
  <2> QED BY <2>2, <1>1, <1>2 DEF r, n, t
<1>7. CASE Len(s) > 1
  <2>1. s[1] # s[Len(s)] /\ nx[s[1]] = s[2]
    BY <1>1, <1>7 DEF NoRepeat, Holds
  <2>2. t # << >> /\ t[1] = s[2] /\ t[Len(t)] = s[Len(s)]
    BY <1>1, <1>7, <1>e
  <2>5. r.first = t[1] /\ r.last = t[Len(t)] /\ n[t[Len(t)]] = NULL
    BY <2>1, <2>2, <1>1, <1>2, <1>3, <1>4, <1>5, <1>7
  <2>3. \A i \in 1 .. Len(t) - 1 : n[t[i]] = t[i + 1]
    BY <1>1, <1>5, <1>7 DEF Holds
  <2>4. Holds(r, n, t)
    BY <2>2, <2>5, <2>3 DEF Holds
  <2> QED BY <2>4, <1>1, <1>2 DEF r, n, t
<1> QED BY <1>1, <1>6, <1>7

\* insert() puts pb, which is in no list, at the end of the list.
LEMMA InsertHolds ==
  ASSUME NEW q \in Queue, NEW nx \in [Buffers -> Link], NEW len,
         NEW s \in Seq(Buffers), NoRepeat(s), Holds(q, nx, s),
         NEW pb \in Buffers, \A i \in 1 .. Len(s) : s[i] # pb
  PROVE  Holds(InsertQueue(q, pb, len), InsertLinks(q, nx, pb), Append(s, pb))
<1> DEFINE r == InsertQueue(q, pb, len)
           n == InsertLinks(q, nx, pb)
           t == Append(s, pb)
<1>1. /\ Len(s) \in Nat
      /\ t \in Seq(Buffers) /\ Len(t) = Len(s) + 1
      /\ \A i \in 1 .. Len(s) : t[i] = s[i] /\ s[i] \in Buffers
      /\ t[Len(t)] = pb
      /\ t # << >>
  OBVIOUS
<1>2. r.first = (IF q.first = NULL THEN pb ELSE q.first) /\ r.last = pb
  BY DEF InsertQueue, Queue
<1>3. n[pb] = NULL
  BY DEF InsertLinks
<1>4. CASE s = << >>
  <2>1. q.first = NULL
    BY <1>4 DEF Holds
  <2> QED BY <2>1, <1>1, <1>2, <1>3, <1>4 DEF Holds
<1>5. CASE s # << >>
  <2>1. Len(s) >= 1 /\ q.first = s[1] /\ q.last = s[Len(s)] /\ q.first # NULL
    BY <1>1, <1>5, BuffersAssumption DEF Holds
  <2>2. n[s[Len(s)]] = pb
    BY <2>1, <1>1 DEF InsertLinks
  <2>3. \A i \in 1 .. Len(s) - 1 : n[s[i]] = s[i + 1]
    BY <2>1, <1>1 DEF InsertLinks, NoRepeat, Holds
  <2>4. \A i \in 1 .. Len(t) - 1 : n[t[i]] = t[i + 1]
    BY <2>1, <2>2, <2>3, <1>1
  <2>5. r.first = t[1] /\ r.last = t[Len(t)] /\ n[t[Len(t)]] = NULL
    BY <2>1, <1>1, <1>2, <1>3
  <2> QED BY <2>4, <2>5, <1>1 DEF Holds
<1> QED BY <1>4, <1>5

\* A list is what its own links make it: links of other buffers do not matter.
LEMMA FrameHolds ==
  ASSUME NEW q, NEW nx, NEW n, NEW s \in Seq(Buffers), Holds(q, nx, s),
         \A i \in 1 .. Len(s) : n[s[i]] = nx[s[i]]
  PROVE  Holds(q, n, s)
BY DEF Holds

\* remove() on a queue leaves the links of a list apart from it alone.
LEMMA RemoveElsewhere ==
  ASSUME NEW q \in Queue, NEW nx \in [Buffers -> Link],
         NEW s \in Seq(Buffers), s # << >>, Holds(q, nx, s),
         NEW r, NEW t \in Seq(Buffers), Holds(r, nx, t), Apart(s, t)
  PROVE  Holds(r, RemoveLinks(q, nx), t)
<1>1. q.first = s[1] /\ Len(s) \in Nat /\ Len(s) >= 1
  BY DEF Holds
<1>2. \A i \in 1 .. Len(t) : RemoveLinks(q, nx)[t[i]] = nx[t[i]]
  BY <1>1 DEF RemoveLinks, Apart
<1> QED BY <1>2, FrameHolds

\* insert() on a queue leaves the links of a list apart from it alone.
LEMMA InsertElsewhere ==
  ASSUME NEW q \in Queue, NEW nx \in [Buffers -> Link],
         NEW s \in Seq(Buffers), Holds(q, nx, s),
         NEW r, NEW t \in Seq(Buffers), Holds(r, nx, t), Apart(s, t),
         NEW pb \in Buffers, \A i \in 1 .. Len(t) : t[i] # pb
  PROVE  Holds(r, InsertLinks(q, nx, pb), t)
<1>1. \A i \in 1 .. Len(t) : t[i] \in Buffers /\ t[i] # q.last
  BY BuffersAssumption DEF Holds, Apart
<1>2. \A i \in 1 .. Len(t) : InsertLinks(q, nx, pb)[t[i]] = nx[t[i]]
  BY <1>1 DEF InsertLinks
<1> QED BY <1>2, FrameHolds

-----------------------------------------------------------------------------
(***************************************************************************)
(* Following the links of a proper list finds it.                          *)
(***************************************************************************)
LEMMA LengthOfInterval == \A n \in Nat : Cardinality(1 .. n) = n
<1> SUFFICES ASSUME NEW n \in Nat PROVE Cardinality(1 .. n) = n
  OBVIOUS
<1>1. Cardinality(1 .. n) = IF 1 > n THEN 0 ELSE n - 1 + 1
  BY FS_Interval
<1> QED BY <1>1

\* A sequence without repeats is no longer than there are buffers.
LEMMA ShortNoRepeat ==
  ASSUME NEW s \in Seq(Buffers), NoRepeat(s)
  PROVE  Len(s) <= Cardinality(Buffers)
<1>1. s \in Injection(1 .. Len(s), Buffers)
  BY DEF NoRepeat, Injection, IsInjective
<1>2. Cardinality(1 .. Len(s)) <= Cardinality(Buffers)
  BY <1>1, FS_Injection, BuffersAssumption
<1>3. Cardinality(1 .. Len(s)) = Len(s)
  BY LengthOfInterval
<1> QED BY <1>2, <1>3

\* From first on, the links give the buffers of s in order, and end there.
Chained(first, nx, s) ==
  /\ s = << >> => first = NULL
  /\ s # << >> => first = s[1] /\ nx[s[Len(s)]] = NULL
  /\ \A i \in 1 .. Len(s) - 1 : nx[s[i]] = s[i + 1]

\* The equation that Cells solves.
FollowsLinks(c, first, nx, N) ==
  c = [i \in 1 .. N |-> IF i = 1 THEN first
                        ELSE IF c[i - 1] = NULL THEN NULL ELSE nx[c[i - 1]]]

\* The recursive definition of Cells has the one solution that c is.
LEMMA CellsUnique ==
  ASSUME NEW first, NEW nx, NEW N \in Nat,
         NEW c, FollowsLinks(c, first, nx, N),
         NEW d, FollowsLinks(d, first, nx, N)
  PROVE  c = d
<1> USE DEF FollowsLinks
<1> DEFINE D == {i \in 1 .. N : c[i] # d[i]}
<1>1. ASSUME D # {} PROVE FALSE
  <2>a. D \in SUBSET Nat
    OBVIOUS
  <2> HIDE DEF D
  <2>1. PICK m \in D : \A j \in D : m <= j
    BY <1>1, <2>a, Least
  <2> USE DEF D
  <2>2. m # 1
    OBVIOUS
  <2>3. m \in 1 .. N /\ m - 1 \in 1 .. N /\ ~ m <= m - 1
    BY <2>2
  <2>4. c[m - 1] = d[m - 1]
    BY <2>1, <2>3
  <2> QED BY <2>2, <2>4
<1>2. \A i \in 1 .. N : c[i] = d[i]
  BY <1>1
<1> QED BY <1>2

LEMMA CellsAre ==
  ASSUME NEW q, NEW nx, NEW s \in Seq(Buffers), NoRepeat(s), Chained(q.first, nx, s)
  PROVE  Cells(q, nx) = [i \in 1 .. Cardinality(Buffers) + 1 |->
                           IF i <= Len(s) THEN s[i] ELSE NULL]
<1> DEFINE N == Cardinality(Buffers) + 1
           d == [i \in 1 .. N |-> IF i <= Len(s) THEN s[i] ELSE NULL]
<1>1. N \in Nat /\ Len(s) < N
  BY ShortNoRepeat, FS_CardinalityType, BuffersAssumption
<1> HIDE DEF N
<1>2. \A i \in 1 .. N : d[i] = IF i = 1 THEN q.first
                       ELSE IF d[i - 1] = NULL THEN NULL ELSE nx[d[i - 1]]
  <2> SUFFICES ASSUME NEW i \in 1 .. N
               PROVE  d[i] = IF i = 1 THEN q.first
                       ELSE IF d[i - 1] = NULL THEN NULL ELSE nx[d[i - 1]]
    OBVIOUS
  <2>1. CASE i = 1
    BY <2>1, <1>1, EmptyIffNoLen DEF Chained
  <2>2. CASE i > 1 /\ i <= Len(s)
    <3>1. i - 1 \in 1 .. N /\ i - 1 \in 1 .. Len(s) - 1 /\ i - 1 <= Len(s) /\ i - 1 + 1 = i
      BY <2>2, <1>1
    <3>2. d[i - 1] = s[i - 1] /\ d[i] = s[i]
      BY <3>1, <2>2
    <3>3. s[i - 1] # NULL /\ nx[s[i - 1]] = s[i]
      BY <3>1, BuffersAssumption DEF Chained
    <3> QED BY <3>2, <3>3, <2>2
  <2>3. CASE i > 1 /\ i = Len(s) + 1
    <3>1. i - 1 = Len(s) /\ Len(s) \in 1 .. N /\ Len(s) <= Len(s) /\ ~ i <= Len(s)
      BY <2>3, <1>1
    <3>2. d[i - 1] = s[Len(s)] /\ d[i] = NULL
      BY <3>1
    <3>3. s # << >> /\ s[Len(s)] \in Buffers
      BY <3>1, EmptyIffNoLen
    <3>4. s[Len(s)] # NULL /\ nx[s[Len(s)]] = NULL
      BY <3>3, BuffersAssumption DEF Chained
    <3> QED BY <3>2, <3>4, <2>3
  <2>4. CASE i > 1 /\ i > Len(s) + 1
    <3>1. i - 1 \in 1 .. N /\ ~ i - 1 <= Len(s) /\ ~ i <= Len(s)
      BY <2>4, <1>1
    <3>2. d[i - 1] = NULL /\ d[i] = NULL
      BY <3>1
    <3> QED BY <3>2, <2>4
  <2> QED BY <2>1, <2>2, <2>3, <2>4, <1>1
<1>3. FollowsLinks(d, q.first, nx, N)
  <2> HIDE DEF d
  <2>1. d = [i \in 1 .. N |-> d[i]]
    BY DEF d
  <2> QED BY <2>1, <1>2 DEF FollowsLinks
<1> HIDE DEF d
<1>4. FollowsLinks(Cells(q, nx), q.first, nx, N)
  BY <1>3, Zenon DEF Cells, FollowsLinks, N
<1>5. Cells(q, nx) = d
  BY <1>1, <1>3, <1>4, CellsUnique
<1> QED BY <1>5 DEF d, N

\* Following the links from first gives the buffers of the chain.
LEMMA ListIs ==
  ASSUME NEW q, NEW nx, NEW s \in Seq(Buffers), NoRepeat(s), Chained(q.first, nx, s)
  PROVE  ListOf(q, nx) = s
<1> DEFINE c == Cells(q, nx)
           N == Cardinality(Buffers) + 1
<1>1. N \in Nat /\ Len(s) < N /\ Len(s) \in Nat
  BY ShortNoRepeat, FS_CardinalityType, BuffersAssumption
<1>2. c = [i \in 1 .. N |-> IF i <= Len(s) THEN s[i] ELSE NULL]
  BY CellsAre
<1> HIDE DEF c, N
<1>3. {j \in DOMAIN c : c[j] # NULL} = 1 .. Len(s)
  BY <1>1, <1>2, BuffersAssumption
<1>4. Cardinality({j \in DOMAIN c : c[j] # NULL}) = Len(s)
  BY <1>1, <1>3, LengthOfInterval, Zenon
<1>5. ListOf(q, nx) = [i \in 1 .. Len(s) |-> c[i]]
  BY <1>4 DEF ListOf, c
<1>6. \A i \in 1 .. Len(s) : c[i] = s[i]
  BY <1>1, <1>2
<1> QED BY <1>5, <1>6

LEMMA FrameChained ==
  ASSUME NEW first, NEW nx, NEW n, NEW s \in Seq(Buffers), Chained(first, nx, s),
         \A i \in 1 .. Len(s) : n[s[i]] = nx[s[i]]
  PROVE  Chained(first, n, s)
BY DEF Chained

Occurs(b, s) == \E k \in 1 .. Len(s) : s[k] = b

LEMMA OccursAt ==
  ASSUME NEW s \in Seq(Buffers)
  PROVE  /\ \A k \in 1 .. Len(s) : s[k] \in Buffers /\ Occurs(s[k], s)
         /\ s # << >> => s[Len(s)] \in Buffers /\ Occurs(s[Len(s)], s)
<1>1. s # << >> => Len(s) \in 1 .. Len(s)
  BY EndsOf
<1>2. \A k \in 1 .. Len(s) : s[k] \in Buffers /\ Occurs(s[k], s)
  BY DEF Occurs
<1> QED BY <1>1, <1>2

\* A sequence without its first buffer.
LEMMA TailOf ==
  ASSUME NEW s \in Seq(Buffers), s # << >>, NoRepeat(s)
  PROVE  /\ Tail(s) \in Seq(Buffers) /\ NoRepeat(Tail(s)) /\ s[1] \in Buffers
         /\ \A b : Occurs(b, s) <=> b = s[1] \/ Occurs(b, Tail(s))
         /\ ~ Occurs(s[1], Tail(s))
<1> DEFINE t == Tail(s)
<1>1. /\ Len(s) \in Nat /\ Len(s) > 0 /\ s[1] \in Buffers
      /\ t \in Seq(Buffers) /\ Len(t) = Len(s) - 1
      /\ \A k \in 1 .. Len(t) : t[k] = s[k + 1]
  BY EndsOf
<1> HIDE DEF t
<1>2. NoRepeat(t)
  <2> SUFFICES ASSUME NEW j \in 1 .. Len(t), NEW k \in 1 .. Len(t), t[j] = t[k] PROVE j = k
    BY DEF NoRepeat
  <2>1. j + 1 \in 1 .. Len(s) /\ k + 1 \in 1 .. Len(s) /\ s[j + 1] = s[k + 1]
    BY <1>1
  <2>2. j + 1 = k + 1
    BY <2>1, Zenon DEF NoRepeat
  <2> QED BY <2>2
<1>3. ~ Occurs(s[1], t)
  <2> SUFFICES ASSUME NEW k \in 1 .. Len(t), t[k] = s[1] PROVE FALSE
    BY DEF Occurs
  <2>1. k + 1 \in 1 .. Len(s) /\ 1 \in 1 .. Len(s) /\ s[k + 1] = s[1] /\ k + 1 # 1
    BY <1>1
  <2> QED BY <2>1, Zenon DEF NoRepeat
<1>4. ASSUME NEW b PROVE Occurs(b, s) <=> b = s[1] \/ Occurs(b, t)
  <2>1. ASSUME NEW k \in 1 .. Len(s), s[k] = b PROVE b = s[1] \/ Occurs(b, t)
    <3>1. CASE k = 1
      BY <2>1, <3>1
    <3>2. CASE k # 1
      <4>1. k - 1 \in 1 .. Len(t) /\ t[k - 1] = b
        BY <1>1, <2>1, <3>2
      <4> QED BY <4>1 DEF Occurs
    <3> QED BY <3>1, <3>2
  <2>2. ASSUME NEW k \in 1 .. Len(t), t[k] = b PROVE Occurs(b, s)
    <3>1. k + 1 \in 1 .. Len(s) /\ s[k + 1] = b
      BY <1>1, <2>2
    <3> QED BY <3>1 DEF Occurs
  <2>3. Occurs(s[1], s)
    <3>1. 1 \in 1 .. Len(s)
      BY <1>1
    <3> QED BY <3>1 DEF Occurs
  <2> QED BY <2>1, <2>2, <2>3 DEF Occurs
<1> QED BY <1>1, <1>2, <1>3, <1>4 DEF t

\* A sequence with one buffer more.
LEMMA AppendOf ==
  ASSUME NEW s \in Seq(Buffers), NoRepeat(s), NEW c \in Buffers, ~ Occurs(c, s)
  PROVE  /\ Append(s, c) \in Seq(Buffers) /\ NoRepeat(Append(s, c))
         /\ Append(s, c) # << >> /\ Append(s, c)[Len(Append(s, c))] = c
         /\ \A b : Occurs(b, Append(s, c)) <=> b = c \/ Occurs(b, s)
<1> DEFINE t == Append(s, c)
<1>1. /\ Len(s) \in Nat /\ t \in Seq(Buffers) /\ Len(t) = Len(s) + 1 /\ t # << >>
      /\ \A k \in 1 .. Len(s) : t[k] = s[k]
      /\ t[Len(s) + 1] = c
  OBVIOUS
<1> HIDE DEF t
<1>2. \A k \in 1 .. Len(t) : k \in 1 .. Len(s) \/ k = Len(t)
  BY <1>1
<1>3. NoRepeat(t)
  BY <1>1, <1>2 DEF NoRepeat, Occurs
<1>4. \A b : Occurs(b, t) <=> b = c \/ Occurs(b, s)
  BY <1>1, <1>2 DEF Occurs
<1> QED BY <1>1, <1>3, <1>4 DEF t

\* Chains of no buffer and of one.
LEMMA ShortChains ==
  /\ \A nx : Chained(NULL, nx, << >>)
  /\ \A s \in Seq(Buffers) : Len(s) = 1 => Tail(s) = << >>
  /\ \A c \in Buffers : Append(<< >>, c) = <<c>>
  /\ \A nx : \A c \in Buffers : nx[c] = NULL => Chained(c, nx, <<c>>)
<1>1. \A s \in Seq(Buffers) : Len(s) = 1 => Tail(s) = << >>
  <2> SUFFICES ASSUME NEW s \in Seq(Buffers), Len(s) = 1 PROVE Tail(s) = << >>
    OBVIOUS
  <2>1. s # << >>
    OBVIOUS
  <2>2. Tail(s) \in Seq(Buffers) /\ Len(Tail(s)) = 0
    BY <2>1
  <2> QED BY <2>2, EmptyIffNoLen
<1>2. \A nx : \A c \in Buffers : nx[c] = NULL => Chained(c, nx, <<c>>)
  BY DEF Chained
<1> QED BY <1>1, <1>2 DEF Chained

\* The chain from the second buffer on.
LEMMA ChainTail ==
  ASSUME NEW first, NEW nx, NEW s \in Seq(Buffers), NoRepeat(s), Len(s) > 1, Chained(first, nx, s)
  PROVE  /\ Chained(nx[first], nx, Tail(s))
         /\ Tail(s) # << >> /\ Tail(s)[Len(Tail(s))] = s[Len(s)]
<1> DEFINE t == Tail(s)
<1>0. s # << >> /\ Len(s) \in Nat
  OBVIOUS
<1>1. /\ t \in Seq(Buffers) /\ Len(t) = Len(s) - 1
      /\ \A k \in 1 .. Len(t) : t[k] = s[k + 1]
  BY <1>0
<1> HIDE DEF t
<1>2. t # << >> /\ t[1] = s[2] /\ t[Len(t)] = s[Len(s)]
  <2>1. Len(t) # 0 /\ 1 \in 1 .. Len(t) /\ Len(t) \in 1 .. Len(t)
    BY <1>0, <1>1
  <2> QED BY <1>0, <1>1, <2>1, EmptyIffNoLen
<1>3. nx[s[1]] = s[2] /\ first = s[1]
  BY <1>0 DEF Chained
<1>4. \A k \in 1 .. Len(t) - 1 : nx[t[k]] = t[k + 1]
  BY <1>0, <1>1 DEF Chained
<1>5. nx[t[Len(t)]] = NULL
  BY <1>2, <1>0 DEF Chained
<1> QED BY <1>2, <1>3, <1>4, <1>5 DEF Chained, t

\* A buffer that has no next, put behind the last of a chain.
LEMMA ChainAppend ==
  ASSUME NEW first, NEW nx \in [Buffers -> Link], NEW s \in Seq(Buffers), NoRepeat(s),
         s # << >>, Chained(first, nx, s), NEW c \in Buffers, ~ Occurs(c, s), nx[c] = NULL
  PROVE  Chained(first, [nx EXCEPT ![s[Len(s)]] = c], Append(s, c))
<1> DEFINE t == Append(s, c)
           n == [nx EXCEPT ![s[Len(s)]] = c]
<1>1. /\ Len(s) \in Nat /\ Len(s) > 0 /\ Len(t) = Len(s) + 1 /\ t # << >>
      /\ \A k \in 1 .. Len(s) : t[k] = s[k] /\ s[k] \in Buffers
      /\ t[Len(s) + 1] = c
  <2>1. Len(s) \in Nat /\ Len(s) > 0
    BY EndsOf
  <2>2. /\ Len(t) = Len(s) + 1 /\ t # << >> /\ t[Len(s) + 1] = c
        /\ \A k \in 1 .. Len(s) : t[k] = s[k] /\ s[k] \in Buffers
    OBVIOUS
  <2> QED BY <2>1, <2>2
<1>2. s[Len(s)] # c /\ s[Len(s)] \in Buffers
  BY <1>1 DEF Occurs
<1>3. n[s[Len(s)]] = c /\ n[c] = NULL
  BY <1>2 DEF Link
<1>4. \A k \in 1 .. Len(s) - 1 : n[s[k]] = s[k + 1]
  <2> SUFFICES ASSUME NEW k \in 1 .. Len(s) - 1 PROVE n[s[k]] = s[k + 1]
    OBVIOUS
  <2>1. k \in 1 .. Len(s) /\ Len(s) \in 1 .. Len(s) /\ k # Len(s)
    BY <1>1
  <2>2. s[k] # s[Len(s)] /\ s[k] \in Buffers
    BY <1>1, <2>1, Zenon DEF NoRepeat
  <2>3. nx[s[k]] = s[k + 1]
    BY DEF Chained
  <2> QED BY <2>2, <2>3
<1> HIDE DEF t, n
<1>5. \A k \in 1 .. Len(t) - 1 : n[t[k]] = t[k + 1]
  <2> SUFFICES ASSUME NEW k \in 1 .. Len(t) - 1 PROVE n[t[k]] = t[k + 1]
    OBVIOUS
  <2>1. CASE k = Len(s)
    BY <1>1, <1>3, <2>1
  <2>2. CASE k # Len(s)
    BY <1>1, <1>4, <2>2
  <2> QED BY <2>1, <2>2
<1>6. first = t[1] /\ n[t[Len(t)]] = NULL
  BY <1>1, <1>3 DEF Chained
<1> QED BY <1>1, <1>5, <1>6 DEF Chained, t, n

LEMMA HeldIsChained ==
  ASSUME NEW q, NEW nx, NEW s, Holds(q, nx, s)
  PROVE  Chained(q.first, nx, s)
BY DEF Holds, Chained
=============================================================================
