---------------------------- MODULE PacketQueue ----------------------------
(***************************************************************************)
(* The packet buffers and packet queues of the workload01 sketch           *)
(* (Packets.h, Packets.cpp).  A PacketQueue is a singly linked list of     *)
(* PacketBuffers: two pointers, first and last, and a link in the trailer  *)
(* of every buffer.  The links of all the buffers are the function nx; the *)
(* queues share them, so the operators below return the new queue and the  *)
(* new links separately.                                                   *)
(***************************************************************************)
EXTENDS Integers, Sequences, FiniteSets

CONSTANTS
  Buffers,             \* the array buffers[BUFFER_COUNT]
  NULL,                \* the null PacketBuffer pointer
  PACKET_QUEUE_STATS,  \* the compile-time flag of the same name
  LongMod              \* 2^32: the modulus of an unsigned long

ASSUME BuffersAssumption ==
  /\ IsFiniteSet(Buffers)
  /\ NULL \notin Buffers
  /\ PACKET_QUEUE_STATS \in BOOLEAN
  /\ LongMod \in Nat \ {0}

Link == Buffers \cup {NULL}

\* The fields of a PacketQueue.
Queue == [first : Link, last : Link,
          packetsIn : 0 .. LongMod - 1, packetsOut : 0 .. LongMod - 1,
          wordsIn : 0 .. LongMod - 1, wordsOut : 0 .. LongMod - 1]

EmptyQueue == [first |-> NULL, last |-> NULL,
               packetsIn |-> 0, packetsOut |-> 0, wordsIn |-> 0, wordsOut |-> 0]

IsEmpty(q) == q.first = NULL

\* What a statistics counter becomes, if statistics are compiled in.
Count(n, by) == IF PACKET_QUEUE_STATS THEN (n + by) % LongMod ELSE n

(***************************************************************************)
(* PacketQueue::insert(pb): pb, of len words, becomes the last buffer.     *)
(***************************************************************************)
InsertQueue(q, pb, len) ==
  [q EXCEPT !.first = IF @ = NULL THEN pb ELSE @,
            !.last = pb,
            !.packetsIn = Count(@, 1),
            !.wordsIn = Count(@, len)]

\* Mutant: the buffer that was last is not linked to the new one.
InsertLinksUnchained(q, nx, pb) == [nx EXCEPT ![pb] = NULL]

InsertLinks(q, nx, pb) ==
  [b \in Buffers |-> IF b = pb THEN NULL
                     ELSE IF b = q.last THEN pb ELSE nx[b]]

(***************************************************************************)
(* PacketQueue::remove() on a queue that is not empty, whose first buffer  *)
(* has len words.  On an empty queue remove() returns 0 and changes        *)
(* nothing: callers here test IsEmpty first.                               *)
(***************************************************************************)
RemoveQueue(q, nx, len) ==
  [q EXCEPT !.first = IF q.first = q.last THEN NULL ELSE nx[q.first],
            !.last = IF q.first = q.last THEN NULL ELSE @,
            !.packetsOut = Count(@, 1),
            !.wordsOut = Count(@, len)]

RemoveLinks(q, nx) == [nx EXCEPT ![q.first] = NULL]

-----------------------------------------------------------------------------
(***************************************************************************)
(* Queue q, with links nx, holds the buffers of the sequence s in order.   *)
(***************************************************************************)
Holds(q, nx, s) ==
  /\ s = << >> => q.first = NULL /\ q.last = NULL
  /\ s # << >> => /\ q.first = s[1]
                  /\ q.last = s[Len(s)]
                  /\ nx[s[Len(s)]] = NULL
  /\ \A i \in 1 .. Len(s) - 1 : nx[s[i]] = s[i + 1]

(***************************************************************************)
(* The buffers met when the links are followed from q.first: the cells     *)
(* before the null pointer.  A list with a cycle shows as one with more    *)
(* elements than there are buffers.                                        *)
(***************************************************************************)
Cells(q, nx) ==
  LET cell[i \in 1 .. Cardinality(Buffers) + 1] ==
        IF i = 1 THEN q.first
        ELSE IF cell[i - 1] = NULL THEN NULL ELSE nx[cell[i - 1]]
  IN  cell

ListOf(q, nx) ==
  LET cell == Cells(q, nx)
  IN  [i \in 1 .. Cardinality({j \in DOMAIN cell : cell[j] # NULL}) |-> cell[i]]
=============================================================================
