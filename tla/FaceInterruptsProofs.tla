------------------------ MODULE FaceInterruptsProofs ------------------------
(***************************************************************************)
(* Proofs about FaceInterrupts, for every number of buffers and packets of *)
(* an event, when the background takes packets with removeInboundBG.       *)
(*                                                                         *)
(* The inductive invariant says which sequences of buffers the links of    *)
(* the two queues give at every access to memory.  One lemma for each      *)
(* action gives the sequences after it, from which both the invariance and *)
(* the step of FaceChannel follow.                                         *)
(***************************************************************************)
EXTENDS MCFaceInterrupts, PacketQueueProofs

\* last points to the last buffer of s.
EndsAt(last, s) == IF s = << >> THEN last = NULL ELSE last = s[Len(s)]

InterruptStates == {"take", "outbound", "new", "null"}

\* The buffer in the hands of the background, once it is in no list.
Held == IF \/ pc \in {"unlink", "taken", "insert"}
           \/ pc = "insert last" /\ outbound.last # NULL
        THEN {pb} \ {NULL} ELSE {}

\* The links of the two queues give i and o, which share the buffers out
\* between them, the free list and the background.
Shared(i, o) ==
  /\ i \in Seq(Buffers) /\ o \in Seq(Buffers)
  /\ NoRepeat(i) /\ NoRepeat(o)
  /\ Chained(inbound.first, nx, i) /\ Chained(outbound.first, nx, o)
  /\ \A b \in Buffers :
       /\ Occurs(b, i) \/ Occurs(b, o) \/ b \in free \cup Held
       /\ Occurs(b, i) => ~ Occurs(b, o)
       /\ Occurs(b, i) \/ Occurs(b, o) => b \notin free \cup Held
  /\ free \cap Held = {}
  /\ \A b \in free : nx[b] = NULL

\* Where remove() is on the inbound queue.
Removing(i) ==
  /\ pc # "clear first" => EndsAt(inbound.last, i)
  /\ pc = "clear first" => inbound.last = NULL
  /\ pc \in {"compare", "clear last", "clear first", "advance"} =>
       i # << >> /\ pb = i[1]
  /\ pc \in {"clear last", "clear first"} => Len(i) = 1
  /\ pc = "advance" => Len(i) > 1
  /\ pc = "unlink" => pb # NULL
  /\ pc = "taken" /\ pb # NULL => nx[pb] = NULL

\* Where insert(pb) is on the outbound queue.
Inserting(o) ==
  /\ pc \notin {"insert last", "new last"} => EndsAt(outbound.last, o)
  /\ pc \in {"insert", "insert last"} => pb # NULL /\ nx[pb] = NULL
  /\ pc = "insert last" => IF outbound.last = NULL THEN o = <<pb>>
                           ELSE o # << >> /\ EndsAt(outbound.last, o)
  /\ pc \in {"new last", "terminate"} => o # << >> /\ pb = o[Len(o)]

Closed ==
  /\ enabled <=> pc \in InterruptStates
  /\ pc \in InterruptStates \cup {"remove"} => pb = NULL

InvOf(i, o) == Shared(i, o) /\ Removing(i) /\ Inserting(o) /\ Closed
IInv == InvOf(ListOf(inbound, nx), ListOf(outbound, nx))
-----------------------------------------------------------------------------
(***************************************************************************)
(* Types, also when interrupts come in the middle of a remove().           *)
(***************************************************************************)
Typed ==
  /\ TypeOK
  /\ pc \in {"compare", "clear last", "clear first", "advance", "unlink"} => pb # NULL
  /\ pc \in {"compare", "clear last", "clear first", "advance"} => inbound.first # NULL
  /\ pc \in {"insert", "insert last", "new last", "terminate", "inserted"} =>
       pb # NULL /\ ~enabled
  /\ pc = "terminate" => outbound.last # NULL
  /\ pc \in {"new", "insert", "insert last", "new last", "terminate", "inserted"} => ship > 0

LEMMA InitTyped == Init => Typed
BY BuffersAssumption, InterruptsAssumption DEF Init, Typed, TypeOK, EmptyQueue, Queue, Link

LEMMA NextTyped == Typed /\ [Next]_vars => Typed'
<1> SUFFICES ASSUME Typed, [Next]_vars PROVE Typed'
  OBVIOUS
<1> USE BuffersAssumption, InterruptsAssumption DEF Typed, TypeOK, Queue, Link, queues, IsEmpty
<1>1. CASE Take
  BY <1>1 DEF Take
<1>2. CASE RemoveFirst
  BY <1>2 DEF RemoveFirst
<1>3. CASE RemoveCompare
  BY <1>3 DEF RemoveCompare
<1>4. CASE RemoveClearLast
  BY <1>4 DEF RemoveClearLast
<1>5. CASE RemoveClearFirst
  BY <1>5 DEF RemoveClearFirst
<1>6. CASE RemoveAdvance
  BY <1>6 DEF RemoveAdvance
<1>7. CASE RemoveUnlink
  BY <1>7 DEF RemoveUnlink
<1>8. CASE Taken
  BY <1>8 DEF Taken
<1>9. CASE Blocked
  BY <1>9 DEF Blocked
<1>10. CASE StartEvent
  BY <1>10 DEF StartEvent
<1>11. CASE NewPacket
  BY <1>11 DEF NewPacket
<1>12. CASE NoBuffer
  BY <1>12 DEF NoBuffer
<1>13. CASE InsertFirst
  BY <1>13 DEF InsertFirst
<1>14. CASE InsertOnly
  BY <1>14 DEF InsertOnly
<1>15. CASE InsertLink
  BY <1>15 DEF InsertLink
<1>16. CASE InsertLast
  BY <1>16 DEF InsertLast
<1>17. CASE InsertTerminate
  BY <1>17 DEF InsertTerminate
<1>18. CASE Inserted
  BY <1>18 DEF Inserted
<1>19. CASE SupplyOutbound
  <2> DEFINE p == outbound.first
             links == RemoveLinks(outbound, nx)
  <2>1. ~IsEmpty(outbound) /\ inbound \in Queue /\ outbound \in Queue /\ nx \in [Buffers -> Link]
    BY <1>19 DEF SupplyOutbound
  <2>2. outbound' = RemoveQueue(outbound, nx, 0) /\ inbound' = InsertQueue(inbound, p, 0)
        /\ nx' = InsertLinks(inbound, links, p)
    BY <1>19 DEF SupplyOutbound
  <2> HIDE DEF Queue, Link, IsEmpty
  <2>3. outbound' \in Queue /\ links \in [Buffers -> Link] /\ p \in Buffers
    BY <2>1, <2>2, RemoveType
  <2> HIDE DEF links, p
  <2>4. inbound' \in Queue /\ nx' \in [Buffers -> Link]
    BY <2>1, <2>2, <2>3, InsertType
  <2>5. inbound.first # NULL => inbound'.first # NULL
    BY <2>1, <2>2 DEF InsertQueue, Queue
  <2>6. /\ free' = free /\ enabled' = enabled /\ pc' = pc /\ pb' = pb /\ ship' = ship
    BY <1>19 DEF SupplyOutbound
  <2>7. pc # "terminate" /\ enabled
    BY <1>19 DEF SupplyOutbound
  <2> HIDE DEF SupplyOutbound
  <2> QED BY <2>3, <2>4, <2>5, <2>6, <2>7
<1>20. CASE UNCHANGED vars
  BY <1>20 DEF vars
<1> QED BY <1>1, <1>2, <1>3, <1>4, <1>5, <1>6, <1>7, <1>8, <1>9, <1>10, <1>11, <1>12, <1>13,
           <1>14, <1>15, <1>16, <1>17, <1>18, <1>19, <1>20 DEF Next, Background

\* The variables of FaceInterrupts have their types, guarded or not.
THEOREM TypeCorrect == Spec => []TypeOK
<1>1. Typed => TypeOK
  BY DEF Typed
<1> QED BY <1>1, InitTyped, NextTyped, PTL DEF Spec
-----------------------------------------------------------------------------
(***************************************************************************)
(* The steps that leave the two lists as they are.                         *)
(***************************************************************************)
LEMMA TakeStep ==
  ASSUME Guarded, Typed, NEW i \in Seq(Buffers), NEW o \in Seq(Buffers), InvOf(i, o), Take
  PROVE  InvOf(i, o)'
<1> USE BuffersAssumption DEF InvOf, Typed, TypeOK, Link, Queue, queues, Take
<1>1. Shared(i, o)'
  BY DEF Shared, Held, Chained, Closed, Removing, Inserting, InterruptStates
<1>2. Removing(i)'
  BY DEF Removing, EndsAt, Closed, InterruptStates
<1>3. Inserting(o)'
  BY DEF Inserting, EndsAt, Shared
<1>4. Closed'
  BY DEF Closed, InterruptStates
<1> QED BY <1>1, <1>2, <1>3, <1>4

LEMMA RemoveFirstStep ==
  ASSUME Guarded, Typed, NEW i \in Seq(Buffers), NEW o \in Seq(Buffers), InvOf(i, o), RemoveFirst
  PROVE  InvOf(i, o)'
<1> USE BuffersAssumption DEF InvOf, Typed, TypeOK, Link, Queue, queues, RemoveFirst
<1>0. Held = {} /\ Held' = {}
  BY DEF Held, IsEmpty
<1>1. Shared(i, o)'
  BY <1>0 DEF Shared, Chained
<1>2. Removing(i)'
  <2>1. inbound' = inbound /\ pb' = inbound.first /\ EndsAt(inbound.last, i)
    BY DEF Removing
  <2>2. IF inbound.first = NULL THEN pc' = "taken" ELSE pc' = "compare"
    BY DEF IsEmpty
  <2>3. inbound.first # NULL => i # << >> /\ inbound.first = i[1]
    BY DEF Shared, Chained
  <2> QED BY <2>1, <2>2, <2>3 DEF Removing
<1>3. Inserting(o)'
  BY DEF Inserting, EndsAt, Shared
<1>4. Closed'
  BY DEF Closed, InterruptStates
<1> QED BY <1>1, <1>2, <1>3, <1>4

LEMMA RemoveCompareStep ==
  ASSUME Guarded, Typed, NEW i \in Seq(Buffers), NEW o \in Seq(Buffers), InvOf(i, o),
         RemoveCompare
  PROVE  InvOf(i, o)'
<1> USE BuffersAssumption DEF InvOf, Typed, TypeOK, Link, Queue, queues, RemoveCompare
<1>1. Shared(i, o)'
  BY DEF Shared, Held, Chained, Closed, Removing, Inserting, InterruptStates
<1>2. Removing(i)'
  <2>1. /\ inbound' = inbound /\ pb' = pb /\ EndsAt(inbound.last, i)
        /\ i # << >> /\ pb = i[1] /\ inbound.first = i[1]
    BY DEF Removing, Shared, Chained
  <2>2. /\ Len(i) > 0 /\ inbound.last = i[Len(i)]
        /\ i[1] = i[Len(i)] <=> Len(i) = 1
        /\ i[1] # i[Len(i)] <=> Len(i) > 1
    BY <2>1, EndsOf DEF EndsAt, Shared
  <2>3. IF i[1] = i[Len(i)] THEN pc' = "clear last" ELSE pc' = "advance"
    BY <2>1, <2>2
  <2> QED BY <2>1, <2>2, <2>3 DEF Removing
<1>3. Inserting(o)'
  BY DEF Inserting, EndsAt, Shared
<1>4. Closed'
  BY DEF Closed, InterruptStates
<1> QED BY <1>1, <1>2, <1>3, <1>4

LEMMA RemoveClearLastStep ==
  ASSUME Guarded, Typed, NEW i \in Seq(Buffers), NEW o \in Seq(Buffers), InvOf(i, o),
         RemoveClearLast
  PROVE  InvOf(i, o)'
<1> USE BuffersAssumption DEF InvOf, Typed, TypeOK, Link, Queue, queues, RemoveClearLast
<1>1. Shared(i, o)'
  BY DEF Shared, Held, Chained, Closed, Removing, Inserting, InterruptStates
<1>2. Removing(i)'
  BY DEF Removing, EndsAt, Closed, InterruptStates
<1>3. Inserting(o)'
  BY DEF Inserting, EndsAt, Shared
<1>4. Closed'
  BY DEF Closed, InterruptStates
<1> QED BY <1>1, <1>2, <1>3, <1>4

LEMMA RemoveUnlinkStep ==
  ASSUME Guarded, Typed, NEW i \in Seq(Buffers), NEW o \in Seq(Buffers), InvOf(i, o), RemoveUnlink
  PROVE  InvOf(i, o)'
<1> USE BuffersAssumption DEF InvOf, Typed, TypeOK, Link, Queue, queues, RemoveUnlink
<1>0. Held = {pb} /\ Held' = {pb} /\ pb \in Buffers
  BY DEF Held
<1>a. /\ \A k \in 1 .. Len(i) : i[k] \in Buffers /\ i[k] # pb
      /\ \A k \in 1 .. Len(o) : o[k] \in Buffers /\ o[k] # pb
      /\ \A b \in free : b # pb
  BY <1>0 DEF Shared, Occurs
<1>b. \A b \in Buffers : b # pb => nx'[b] = nx[b]
  OBVIOUS
<1>c. Chained(inbound.first, nx, i)' /\ Chained(outbound.first, nx, o)'
  <2>1. inbound' = inbound /\ outbound' = outbound
    OBVIOUS
  <2>2. Chained(inbound.first, nx, i) /\ Chained(outbound.first, nx, o)
    BY DEF Shared
  <2>3. \A k \in 1 .. Len(i) : nx'[i[k]] = nx[i[k]]
    BY <1>a, <1>b
  <2>4. \A k \in 1 .. Len(o) : nx'[o[k]] = nx[o[k]]
    BY <1>a, <1>b
  <2> HIDE DEF InvOf, Typed, RemoveUnlink
  <2> QED BY <2>1, <2>2, <2>3, <2>4, FrameChained
<1>1. Shared(i, o)'
  BY <1>0, <1>a, <1>b, <1>c DEF Shared
<1>2. Removing(i)'
  BY DEF Removing, EndsAt, Closed, InterruptStates
<1>3. Inserting(o)'
  BY DEF Inserting, EndsAt, Shared
<1>4. Closed'
  BY DEF Closed, InterruptStates
<1> QED BY <1>1, <1>2, <1>3, <1>4

LEMMA TakenStep ==
  ASSUME Guarded, Typed, NEW i \in Seq(Buffers), NEW o \in Seq(Buffers), InvOf(i, o), Taken
  PROVE  InvOf(i, o)'
<1> USE BuffersAssumption DEF InvOf, Typed, TypeOK, Link, Queue, queues, Taken
<1>1. Shared(i, o)'
  BY DEF Shared, Held, Chained, Closed, Removing, Inserting, InterruptStates
<1>2. Removing(i)'
  BY DEF Removing, EndsAt, Closed, InterruptStates
<1>3. Inserting(o)'
  BY DEF Inserting, EndsAt, Shared
<1>4. Closed'
  BY DEF Closed, InterruptStates
<1> QED BY <1>1, <1>2, <1>3, <1>4

LEMMA BlockedStep ==
  ASSUME Guarded, Typed, NEW i \in Seq(Buffers), NEW o \in Seq(Buffers), InvOf(i, o), Blocked
  PROVE  InvOf(i, o)'
<1> USE BuffersAssumption DEF InvOf, Typed, TypeOK, Link, Queue, queues, Blocked
<1>1. Shared(i, o)'
  BY DEF Shared, Held, Chained, Closed, Removing, Inserting, InterruptStates
<1>2. Removing(i)'
  BY DEF Removing, EndsAt, Closed, InterruptStates
<1>3. Inserting(o)'
  BY DEF Inserting, EndsAt, Shared
<1>4. Closed'
  BY DEF Closed, InterruptStates
<1> QED BY <1>1, <1>2, <1>3, <1>4

LEMMA StartEventStep ==
  ASSUME Guarded, Typed, NEW i \in Seq(Buffers), NEW o \in Seq(Buffers), InvOf(i, o), StartEvent
  PROVE  InvOf(i, o)'
<1> USE BuffersAssumption DEF InvOf, Typed, TypeOK, Link, Queue, queues, StartEvent
<1>1. Shared(i, o)'
  BY DEF Shared, Held, Chained, Closed, Removing, Inserting, InterruptStates
<1>2. Removing(i)'
  BY DEF Removing, EndsAt, Closed, InterruptStates
<1>3. Inserting(o)'
  BY DEF Inserting, EndsAt, Shared
<1>4. Closed'
  BY DEF Closed, InterruptStates
<1> QED BY <1>1, <1>2, <1>3, <1>4

LEMMA NewPacketStep ==
  ASSUME Guarded, Typed, NEW i \in Seq(Buffers), NEW o \in Seq(Buffers), InvOf(i, o), NewPacket
  PROVE  InvOf(i, o)'
<1> USE BuffersAssumption DEF InvOf, Typed, TypeOK, Link, Queue, queues, NewPacket
<1>1. Shared(i, o)'
  BY DEF Shared, Held, Chained, Closed, Removing, Inserting, InterruptStates
<1>2. Removing(i)'
  BY DEF Removing, EndsAt, Closed, InterruptStates
<1>3. Inserting(o)'
  BY DEF Inserting, EndsAt, Shared
<1>4. Closed'
  BY DEF Closed, InterruptStates
<1> QED BY <1>1, <1>2, <1>3, <1>4

LEMMA NoBufferStep ==
  ASSUME Guarded, Typed, NEW i \in Seq(Buffers), NEW o \in Seq(Buffers), InvOf(i, o), NoBuffer
  PROVE  InvOf(i, o)'
<1> USE BuffersAssumption DEF InvOf, Typed, TypeOK, Link, Queue, queues, NoBuffer
<1>1. Shared(i, o)'
  BY DEF Shared, Held, Chained, Closed, Removing, Inserting, InterruptStates
<1>2. Removing(i)'
  BY DEF Removing, EndsAt, Closed, InterruptStates
<1>3. Inserting(o)'
  BY DEF Inserting, EndsAt, Shared
<1>4. Closed'
  BY DEF Closed, InterruptStates
<1> QED BY <1>1, <1>2, <1>3, <1>4

LEMMA InsertOnlyStep ==
  ASSUME Guarded, Typed, NEW i \in Seq(Buffers), NEW o \in Seq(Buffers), InvOf(i, o), InsertOnly
  PROVE  InvOf(i, o)'
<1> USE BuffersAssumption DEF InvOf, Typed, TypeOK, Link, Queue, queues, InsertOnly
<1>1. Shared(i, o)'
  BY DEF Shared, Held, Chained, Closed, Removing, Inserting, InterruptStates
<1>2. Removing(i)'
  BY DEF Removing, EndsAt, Closed, InterruptStates
<1>3. Inserting(o)'
  <2>1. o = <<pb>> /\ outbound'.last = pb /\ pb' = pb /\ pc' = "terminate"
    BY DEF Inserting
  <2>2. o # << >> /\ o[Len(o)] = pb
    BY <2>1
  <2> QED BY <2>1, <2>2 DEF Inserting, EndsAt
<1>4. Closed'
  BY DEF Closed, InterruptStates
<1> QED BY <1>1, <1>2, <1>3, <1>4

LEMMA InsertLastStep ==
  ASSUME Guarded, Typed, NEW i \in Seq(Buffers), NEW o \in Seq(Buffers), InvOf(i, o), InsertLast
  PROVE  InvOf(i, o)'
<1> USE BuffersAssumption DEF InvOf, Typed, TypeOK, Link, Queue, queues, InsertLast
<1>1. Shared(i, o)'
  BY DEF Shared, Held, Chained, Closed, Removing, Inserting, InterruptStates
<1>2. Removing(i)'
  BY DEF Removing, EndsAt, Closed, InterruptStates
<1>3. Inserting(o)'
  BY DEF Inserting, EndsAt, Shared
<1>4. Closed'
  BY DEF Closed, InterruptStates
<1> QED BY <1>1, <1>2, <1>3, <1>4

LEMMA InsertTerminateStep ==
  ASSUME Guarded, Typed, NEW i \in Seq(Buffers), NEW o \in Seq(Buffers), InvOf(i, o),
         InsertTerminate
  PROVE  InvOf(i, o)'
<1> USE BuffersAssumption DEF InvOf, Typed, TypeOK, Link, Queue, queues, InsertTerminate
<1>0. Held = {} /\ Held' = {}
  BY DEF Held
<1>a. nx[outbound.last] = NULL
  BY DEF Shared, Chained, Inserting, EndsAt
<1>b. nx' = nx
  BY <1>a
<1>1. Shared(i, o)'
  BY <1>0, <1>b DEF Shared
<1>2. Removing(i)'
  BY DEF Removing, EndsAt, Closed, InterruptStates
<1>3. Inserting(o)'
  BY DEF Inserting, EndsAt, Shared
<1>4. Closed'
  BY DEF Closed, InterruptStates
<1> QED BY <1>1, <1>2, <1>3, <1>4

LEMMA InsertedStep ==
  ASSUME Guarded, Typed, NEW i \in Seq(Buffers), NEW o \in Seq(Buffers), InvOf(i, o), Inserted
  PROVE  InvOf(i, o)'
<1> USE BuffersAssumption DEF InvOf, Typed, TypeOK, Link, Queue, queues, Inserted
<1>1. Shared(i, o)'
  BY DEF Shared, Held, Chained, Closed, Removing, Inserting, InterruptStates
<1>2. Removing(i)'
  BY DEF Removing, EndsAt, Closed, InterruptStates
<1>3. Inserting(o)'
  BY DEF Inserting, EndsAt, Shared
<1>4. Closed'
  BY DEF Closed, InterruptStates
<1> QED BY <1>1, <1>2, <1>3, <1>4
-----------------------------------------------------------------------------
(***************************************************************************)
(* The steps that change a list.  The packet leaves the inbound list when  *)
(* remove() has written first; it enters the outbound list when insert()   *)
(* has written first or the link of the last buffer.                       *)
(***************************************************************************)
LEMMA RemoveClearFirstStep ==
  ASSUME Guarded, Typed, NEW i \in Seq(Buffers), NEW o \in Seq(Buffers), InvOf(i, o),
         RemoveClearFirst
  PROVE  i # << >> /\ InvOf(Tail(i), o)'
<1> USE BuffersAssumption DEF InvOf, Typed, TypeOK, Link, Queue, queues, RemoveClearFirst
<1>0. Held = {} /\ Held' = {pb} /\ i # << >> /\ pb = i[1] /\ Len(i) = 1
  BY DEF Held, Removing
<1>a. inbound'.first = NULL /\ inbound'.last = NULL /\ outbound' = outbound
      /\ nx' = nx /\ free' = free
  BY DEF Removing
<1>b. Tail(i) = << >>
  BY <1>0, ShortChains
<1>c. /\ Tail(i) \in Seq(Buffers) /\ NoRepeat(Tail(i)) /\ i[1] \in Buffers
      /\ \A b : Occurs(b, i) <=> b = i[1] \/ Occurs(b, Tail(i))
      /\ ~ Occurs(i[1], Tail(i))
  BY <1>0, TailOf DEF Shared
<1>d. Chained(inbound.first, nx, Tail(i))'
  BY <1>a, <1>b, ShortChains
<1>1. Shared(Tail(i), o)'
  <2>1. Shared(i, o)
    OBVIOUS
  <2> HIDE DEF InvOf, Typed, RemoveClearFirst, TypeOK
  <2> QED BY <2>1, <1>0, <1>a, <1>c, <1>d DEF Shared
<1>2. Removing(Tail(i))'
  BY <1>a, <1>b DEF Removing, EndsAt, Closed, InterruptStates
<1>3. Inserting(o)'
  BY DEF Inserting, EndsAt, Shared
<1>4. Closed'
  BY DEF Closed, InterruptStates
<1> QED BY <1>0, <1>1, <1>2, <1>3, <1>4

LEMMA RemoveAdvanceStep ==
  ASSUME Guarded, Typed, NEW i \in Seq(Buffers), NEW o \in Seq(Buffers), InvOf(i, o),
         RemoveAdvance
  PROVE  i # << >> /\ InvOf(Tail(i), o)'
<1> USE BuffersAssumption DEF InvOf, Typed, TypeOK, Link, Queue, queues, RemoveAdvance
<1>0. Held = {} /\ Held' = {pb} /\ i # << >> /\ pb = i[1] /\ Len(i) > 1
  BY DEF Held, Removing
<1>a. inbound'.first = nx[inbound.first] /\ inbound'.last = inbound.last
      /\ outbound' = outbound /\ nx' = nx /\ free' = free
  OBVIOUS
<1>b. /\ Chained(nx[inbound.first], nx, Tail(i))
      /\ Tail(i) # << >> /\ Tail(i)[Len(Tail(i))] = i[Len(i)]
  BY <1>0, ChainTail DEF Shared
<1>c. /\ Tail(i) \in Seq(Buffers) /\ NoRepeat(Tail(i)) /\ i[1] \in Buffers
      /\ \A b : Occurs(b, i) <=> b = i[1] \/ Occurs(b, Tail(i))
      /\ ~ Occurs(i[1], Tail(i))
  BY <1>0, TailOf DEF Shared
<1>1. Shared(Tail(i), o)'
  <2>1. Shared(i, o)
    OBVIOUS
  <2> HIDE DEF InvOf, Typed, RemoveAdvance, TypeOK
  <2> QED BY <2>1, <1>0, <1>a, <1>b, <1>c DEF Shared
<1>2. Removing(Tail(i))'
  BY <1>0, <1>a, <1>b, <1>c DEF Removing, EndsAt, Closed, InterruptStates
<1>3. Inserting(o)'
  BY DEF Inserting, EndsAt, Shared
<1>4. Closed'
  BY DEF Closed, InterruptStates
<1> QED BY <1>0, <1>1, <1>2, <1>3, <1>4

LEMMA InsertFirstStep ==
  ASSUME Guarded, Typed, NEW i \in Seq(Buffers), NEW o \in Seq(Buffers), InvOf(i, o), InsertFirst
  PROVE  /\ ~ Occurs(pb, i) /\ ~ Occurs(pb, o) /\ pb \in Buffers /\ pb' = pb
         /\ o # << >> => InvOf(i, o)'
         /\ o = << >> => InvOf(i, Append(o, pb))'
<1> USE BuffersAssumption DEF InvOf, Typed, TypeOK, Link, Queue, queues, InsertFirst
<1>0. Held = {pb} /\ pb \in Buffers /\ nx[pb] = NULL
  BY DEF Held, Inserting
<1>a. /\ inbound' = inbound /\ nx' = nx /\ free' = free /\ pb' = pb /\ pc' = "insert last"
      /\ outbound'.first = (IF outbound.first = NULL THEN pb ELSE outbound.first)
      /\ outbound'.last = outbound.last
  OBVIOUS
<1>b. ~ Occurs(pb, i) /\ ~ Occurs(pb, o)
  BY <1>0 DEF Shared
<1>2. Removing(i)'
  BY DEF Removing, EndsAt, Closed, InterruptStates
<1>4. Closed'
  BY DEF Closed, InterruptStates
<1>5. ASSUME o # << >> PROVE InvOf(i, o)'
  <2>1. outbound'.first = outbound.first /\ outbound.last # NULL /\ EndsAt(outbound.last, o)
    BY <1>5, EndsOf DEF Inserting, EndsAt, Shared, Chained
  <2>2. Held' = {pb}
    BY <1>0, <1>a, <2>1 DEF Held
  <2>3. Shared(i, o)'
    <3>1. Shared(i, o)
      OBVIOUS
    <3> HIDE DEF InvOf, Typed, InsertFirst, TypeOK
    <3> QED BY <3>1, <1>0, <1>a, <2>1, <2>2 DEF Shared
  <2>4. Inserting(o)'
    BY <1>5, <1>0, <1>a, <2>1 DEF Inserting, EndsAt
  <2> QED BY <2>3, <2>4, <1>2, <1>4
<1>6. ASSUME o = << >> PROVE InvOf(i, Append(o, pb))'
  <2>1. outbound'.first = pb /\ outbound.last = NULL
    BY <1>6 DEF Inserting, EndsAt, Shared, Chained
  <2>2. Held' = {}
    BY <1>a, <2>1 DEF Held
  <2>3. /\ Append(o, pb) \in Seq(Buffers) /\ NoRepeat(Append(o, pb))
        /\ \A b : Occurs(b, Append(o, pb)) <=> b = pb \/ Occurs(b, o)
    BY <1>0, <1>b, AppendOf DEF Shared
  <2>4. Append(o, pb) = <<pb>>
    BY <1>0, <1>6, ShortChains
  <2>5. Chained(outbound'.first, nx', Append(o, pb))
    <3>1. Chained(pb, nx, <<pb>>)
      BY <1>0, ShortChains
    <3>2. outbound'.first = pb /\ nx' = nx
      BY <2>1, <1>a
    <3> QED BY <3>1, <3>2, <2>4, Zenon
  <2>6. Shared(i, Append(o, pb))'
    <3>1. Shared(i, o)
      OBVIOUS
    <3> HIDE DEF InvOf, Typed, InsertFirst, TypeOK
    <3> QED BY <3>1, <1>0, <1>a, <2>2, <2>3, <2>5 DEF Shared
  <2>7. Inserting(Append(o, pb))'
    BY <2>1, <2>4, <1>0, <1>a DEF Inserting
  <2> QED BY <2>6, <2>7, <1>2, <1>4
<1> QED BY <1>0, <1>a, <1>b, <1>5, <1>6

LEMMA InsertLinkStep ==
  ASSUME Guarded, Typed, NEW i \in Seq(Buffers), NEW o \in Seq(Buffers), InvOf(i, o), InsertLink
  PROVE  /\ ~ Occurs(pb, i) /\ ~ Occurs(pb, o) /\ pb \in Buffers /\ pb' = pb
         /\ InvOf(i, Append(o, pb))'
<1> USE BuffersAssumption DEF InvOf, Typed, TypeOK, Link, Queue, queues, InsertLink
<1>0. /\ Held = {pb} /\ Held' = {} /\ pb \in Buffers /\ nx[pb] = NULL
      /\ o # << >> /\ outbound.last = o[Len(o)]
  BY DEF Held, Inserting, EndsAt
<1>a. /\ inbound' = inbound /\ outbound' = outbound /\ free' = free /\ pb' = pb
      /\ pc' = "new last" /\ nx' = [nx EXCEPT ![o[Len(o)]] = pb]
  BY <1>0
<1>b. ~ Occurs(pb, i) /\ ~ Occurs(pb, o)
  BY <1>0 DEF Shared
<1>c. /\ Append(o, pb) \in Seq(Buffers) /\ NoRepeat(Append(o, pb))
      /\ Append(o, pb) # << >> /\ Append(o, pb)[Len(Append(o, pb))] = pb
      /\ \A b : Occurs(b, Append(o, pb)) <=> b = pb \/ Occurs(b, o)
  BY <1>0, <1>b, AppendOf DEF Shared
<1>d. Chained(outbound'.first, nx', Append(o, pb))
  <2>1. NoRepeat(o) /\ Chained(outbound.first, nx, o) /\ nx \in [Buffers -> Link]
    BY DEF Shared
  <2> HIDE DEF InvOf, Typed, InsertLink, TypeOK
  <2> QED BY <2>1, <1>0, <1>a, <1>b, ChainAppend
<1>e. Occurs(o[Len(o)], o) /\ o[Len(o)] \in Buffers
  BY <1>0, OccursAt
<1>f. Chained(inbound'.first, nx', i)
  <2>1. Chained(inbound.first, nx, i)
    BY DEF Shared
  <2>2. ASSUME NEW k \in 1 .. Len(i) PROVE nx'[i[k]] = nx[i[k]]
    <3>1. i[k] \in Buffers /\ Occurs(i[k], i)
      BY OccursAt
    <3>2. i[k] # o[Len(o)]
      BY <3>1, <1>e DEF Shared
    <3> QED BY <3>1, <3>2, <1>a
  <2> HIDE DEF InvOf, Typed, InsertLink, TypeOK
  <2> QED BY <2>1, <2>2, <1>a, FrameChained
<1>g. \A b \in free : nx'[b] = NULL
  <2>1. o[Len(o)] \notin free
    BY <1>e DEF Shared
  <2>2. free \subseteq Buffers /\ \A b \in free : nx[b] = NULL
    BY DEF Shared
  <2> QED BY <2>1, <2>2, <1>a
<1>1. Shared(i, Append(o, pb))'
  <2>1. Shared(i, o)
    OBVIOUS
  <2> HIDE DEF InvOf, Typed, InsertLink, TypeOK
  <2> QED BY <2>1, <1>0, <1>a, <1>c, <1>d, <1>f, <1>g DEF Shared
<1>2. Removing(i)'
  BY DEF Removing, EndsAt, Closed, InterruptStates
<1>3. Inserting(Append(o, pb))'
  BY <1>a, <1>c DEF Inserting
<1>4. Closed'
  BY DEF Closed, InterruptStates
<1> QED BY <1>0, <1>a, <1>b, <1>1, <1>2, <1>3, <1>4

\* No buffer of one list occurs in the other.
LEMMA ApartIff ==
  ASSUME NEW s \in Seq(Buffers), NEW t \in Seq(Buffers),
         \A b \in Buffers : Occurs(b, s) => ~ Occurs(b, t)
  PROVE  Apart(s, t) /\ Apart(t, s)
<1>1. ASSUME NEW j \in 1 .. Len(s), NEW k \in 1 .. Len(t) PROVE s[j] # t[k]
  <2>1. s[j] \in Buffers /\ Occurs(s[j], s) /\ Occurs(t[k], t)
    BY OccursAt
  <2> QED BY <2>1
<1> QED BY <1>1 DEF Apart

LEMMA HoldsIff ==
  ASSUME NEW q, NEW n, NEW s
  PROVE  Holds(q, n, s) <=> Chained(q.first, n, s) /\ EndsAt(q.last, s)
BY DEF Holds, Chained, EndsAt

LEMMA SupplyOutboundStep ==
  ASSUME Guarded, Typed, NEW i \in Seq(Buffers), NEW o \in Seq(Buffers), InvOf(i, o),
         SupplyOutbound
  PROVE  o # << >> /\ InvOf(Append(i, o[1]), Tail(o))'
<1> DEFINE p == o[1]
           links == RemoveLinks(outbound, nx)
           i2 == Append(i, p)
           o2 == Tail(o)
<1>1. /\ pc \in {"take", "outbound", "new"} /\ Held = {} /\ Held' = {}
      /\ free' = free /\ pc' = pc /\ pb' = pb /\ enabled' = enabled
      /\ free \subseteq Buffers /\ nx \in [Buffers -> Link]
      /\ inbound \in Queue /\ outbound \in Queue /\ ~IsEmpty(outbound)
  BY DEF SupplyOutbound, InvOf, Closed, InterruptStates, Held, Typed, TypeOK
<1>2. Shared(i, o) /\ EndsAt(inbound.last, i) /\ EndsAt(outbound.last, o)
  BY <1>1 DEF InvOf, Removing, Inserting
<1>3. Holds(inbound, nx, i) /\ Holds(outbound, nx, o) /\ o # << >> /\ outbound.first = p
  BY <1>1, <1>2, HoldsIff DEF Shared, Chained, IsEmpty
<1>4. /\ outbound' = RemoveQueue(outbound, nx, 0)
      /\ inbound' = InsertQueue(inbound, p, 0)
      /\ nx' = InsertLinks(inbound, links, p)
  BY <1>3 DEF SupplyOutbound
<1>5. /\ o2 \in Seq(Buffers) /\ NoRepeat(o2) /\ p \in Buffers
      /\ \A b : Occurs(b, o) <=> b = p \/ Occurs(b, o2)
      /\ ~ Occurs(p, o2)
  BY <1>2, <1>3, TailOf DEF Shared
<1>6. ~ Occurs(p, i) /\ p \notin free
  BY <1>5, <1>2 DEF Shared
<1>7. /\ i2 \in Seq(Buffers) /\ NoRepeat(i2)
      /\ \A b : Occurs(b, i2) <=> b = p \/ Occurs(b, i)
  BY <1>2, <1>5, <1>6, AppendOf DEF Shared
<1> HIDE DEF p, links, i2, o2
<1>8. Apart(i, o) /\ Apart(o, i) /\ Apart(i, o2) /\ Apart(o2, i)
  BY <1>2, <1>5, ApartIff DEF Shared
<1>9. links \in [Buffers -> Link]
  BY <1>1, RemoveType DEF links
<1>10. Holds(outbound', links, o2)
  <2>1. NoRepeat(o)
    BY <1>2 DEF Shared
  <2> QED BY <1>1, <1>3, <1>4, <2>1, RemoveHolds DEF links, o2
<1>11. Holds(inbound, links, i)
  BY <1>1, <1>3, <1>8, RemoveElsewhere DEF links
<1>12. \A k \in 1 .. Len(i) : i[k] # p
  BY <1>6 DEF Occurs
<1>13. \A k \in 1 .. Len(o2) : o2[k] # p
  BY <1>5 DEF Occurs
<1>14. Holds(inbound', nx', i2)
  <2>1. NoRepeat(i)
    BY <1>2 DEF Shared
  <2> QED BY <1>1, <1>4, <1>5, <1>9, <1>11, <1>12, <2>1, InsertHolds DEF i2
<1>15. Holds(outbound', nx', o2)
  BY <1>1, <1>4, <1>5, <1>8, <1>9, <1>10, <1>11, <1>13, InsertElsewhere
<1>16. \A b \in free : nx'[b] = NULL
  <2>1. ASSUME NEW b \in free PROVE nx'[b] = NULL
    <3>1. b \in Buffers /\ nx[b] = NULL /\ ~ Occurs(b, i) /\ b # p
      BY <1>1, <1>2, <1>6 DEF Shared
    <3>2. b # inbound.last
      BY <1>2, <3>1, OccursAt, BuffersAssumption DEF EndsAt
    <3>3. links[b] = NULL
      BY <1>1, <3>1 DEF links, RemoveLinks
    <3> QED BY <1>4, <3>1, <3>2, <3>3 DEF InsertLinks
  <2> QED BY <2>1
<1>17. /\ Chained(inbound.first, nx, i2)' /\ EndsAt(inbound.last, i2)'
       /\ Chained(outbound.first, nx, o2)' /\ EndsAt(outbound.last, o2)'
  BY <1>14, <1>15, HoldsIff
<1>18. Shared(i2, o2)'
  BY <1>1, <1>2, <1>5, <1>6, <1>7, <1>16, <1>17 DEF Shared
<1>19. Removing(i2)'
  BY <1>1, <1>17 DEF Removing
<1>20. Inserting(o2)'
  BY <1>1, <1>17 DEF Inserting
<1>21. Closed'
  BY <1>1 DEF InvOf, Closed
<1> QED BY <1>3, <1>18, <1>19, <1>20, <1>21 DEF InvOf, i2, o2, p
-----------------------------------------------------------------------------
(***************************************************************************)
(* What a step makes of the lists i and o: nothing, or what one operation  *)
(* of FaceChannel makes of the channels.                                   *)
(***************************************************************************)
ChannelStep(i, o, i2, o2) ==
  \/ i2 = i /\ o2 = o
  \/ i # << >> /\ i2 = Tail(i) /\ o2 = o
  \/ o # << >> /\ i2 = Append(i, o[1]) /\ o2 = Tail(o)
  \/ \E p \in Buffers : ~ Occurs(p, i) /\ ~ Occurs(p, o) /\ i2 = i /\ o2 = Append(o, p)

LEMMA StepOfLists ==
  ASSUME Guarded, Typed, NEW i \in Seq(Buffers), NEW o \in Seq(Buffers), InvOf(i, o), [Next]_vars
  PROVE  \E i2, o2 : ChannelStep(i, o, i2, o2) /\ InvOf(i2, o2)'
<1>1. ASSUME InvOf(i, o)' PROVE \E i2, o2 : ChannelStep(i, o, i2, o2) /\ InvOf(i2, o2)'
  <2>1. ChannelStep(i, o, i, o)
    BY DEF ChannelStep
  <2> QED BY <2>1, <1>1
<1>2. ASSUME i # << >>, InvOf(Tail(i), o)'
      PROVE  \E i2, o2 : ChannelStep(i, o, i2, o2) /\ InvOf(i2, o2)'
  <2>1. ChannelStep(i, o, Tail(i), o)
    BY <1>2 DEF ChannelStep
  <2> QED BY <2>1, <1>2
<1>3. CASE Take
  BY <1>1, <1>3, TakeStep
<1>4. CASE RemoveFirst
  BY <1>1, <1>4, RemoveFirstStep
<1>5. CASE RemoveCompare
  BY <1>1, <1>5, RemoveCompareStep
<1>6. CASE RemoveClearLast
  BY <1>1, <1>6, RemoveClearLastStep
<1>7. CASE RemoveClearFirst
  BY <1>2, <1>7, RemoveClearFirstStep
<1>8. CASE RemoveAdvance
  BY <1>2, <1>8, RemoveAdvanceStep
<1>9. CASE RemoveUnlink
  BY <1>1, <1>9, RemoveUnlinkStep
<1>10. CASE Taken
  BY <1>1, <1>10, TakenStep
<1>11. CASE Blocked
  BY <1>1, <1>11, BlockedStep
<1>12. CASE StartEvent
  BY <1>1, <1>12, StartEventStep
<1>13. CASE NewPacket
  BY <1>1, <1>13, NewPacketStep
<1>14. CASE NoBuffer
  BY <1>1, <1>14, NoBufferStep
<1>15. CASE InsertFirst
  <2>1. CASE o # << >>
    BY <1>1, <1>15, <2>1, InsertFirstStep
  <2>2. CASE o = << >>
    <3>1. /\ ~ Occurs(pb, i) /\ ~ Occurs(pb, o) /\ pb \in Buffers /\ pb' = pb
          /\ InvOf(i, Append(o, pb))'
      BY <1>15, <2>2, InsertFirstStep
    <3>2. ChannelStep(i, o, i, Append(o, pb'))
      BY <3>1 DEF ChannelStep
    <3> QED BY <3>1, <3>2
  <2> QED BY <2>1, <2>2
<1>16. CASE InsertOnly
  BY <1>1, <1>16, InsertOnlyStep
<1>17. CASE InsertLink
  <2>1. /\ ~ Occurs(pb, i) /\ ~ Occurs(pb, o) /\ pb \in Buffers /\ pb' = pb
        /\ InvOf(i, Append(o, pb))'
    BY <1>17, InsertLinkStep
  <2>2. ChannelStep(i, o, i, Append(o, pb'))
    BY <2>1 DEF ChannelStep
  <2> QED BY <2>1, <2>2
<1>18. CASE InsertLast
  BY <1>1, <1>18, InsertLastStep
<1>19. CASE InsertTerminate
  BY <1>1, <1>19, InsertTerminateStep
<1>20. CASE Inserted
  BY <1>1, <1>20, InsertedStep
<1>21. CASE SupplyOutbound
  <2>1. o # << >> /\ InvOf(Append(i, o[1]), Tail(o))'
    BY <1>21, SupplyOutboundStep
  <2>2. ChannelStep(i, o, Append(i, o[1]), Tail(o))
    BY <2>1 DEF ChannelStep
  <2> QED BY <2>1, <2>2
<1>22. CASE UNCHANGED vars
  <2>1. InvOf(i, o)'
    BY <1>22 DEF vars, InvOf, Shared, Held, Removing, Inserting, Closed
  <2> QED BY <1>1, <2>1
<1> QED
  BY <1>3, <1>4, <1>5, <1>6, <1>7, <1>8, <1>9, <1>10, <1>11, <1>12, <1>13, <1>14,
     <1>15, <1>16, <1>17, <1>18, <1>19, <1>20, <1>21, <1>22 DEF Next, Background

LEMMA InitLists == Init => InvOf(<< >>, << >>)
<1> SUFFICES ASSUME Init PROVE InvOf(<< >>, << >>)
  OBVIOUS
<1>1. /\ << >> \in Seq(Buffers) /\ NoRepeat(<< >>) /\ \A b : ~ Occurs(b, << >>)
  BY DEF NoRepeat, Occurs
<1>2. /\ inbound.first = NULL /\ inbound.last = NULL
      /\ outbound.first = NULL /\ outbound.last = NULL
      /\ pc = "take" /\ free = Buffers /\ enabled = TRUE /\ pb = NULL
      /\ \A b \in Buffers : nx[b] = NULL
  BY DEF Init, EmptyQueue
<1>3. Held = {}
  BY <1>2 DEF Held
<1>4. Chained(NULL, nx, << >>)
  BY ShortChains
<1>5. Shared(<< >>, << >>)
  BY <1>1, <1>2, <1>3, <1>4 DEF Shared
<1> QED BY <1>2, <1>5 DEF InvOf, Removing, Inserting, EndsAt, Closed, InterruptStates

LEMMA InitIInv == Init => IInv
<1> SUFFICES ASSUME Init PROVE IInv
  OBVIOUS
<1>1. InvOf(<< >>, << >>)
  BY InitLists
<1>2. ListOf(inbound, nx) = << >> /\ ListOf(outbound, nx) = << >>
  BY <1>1, ListIs DEF InvOf, Shared
<1> QED BY <1>1, <1>2 DEF IInv

\* One step of the program, on the lists and as a step of the channels.
LEMMA NextIInv ==
  ASSUME Guarded, Typed, IInv, [Next]_vars
  PROVE  /\ IInv'
         /\ ChannelStep(ListOf(inbound, nx), ListOf(outbound, nx),
                        ListOf(inbound, nx)', ListOf(outbound, nx)')
<1>1. PICK i, o : i = ListOf(inbound, nx) /\ o = ListOf(outbound, nx)
  OBVIOUS
<1>2. InvOf(i, o) /\ i \in Seq(Buffers) /\ o \in Seq(Buffers)
  BY <1>1 DEF IInv, InvOf, Shared
<1>3. PICK i2, o2 : ChannelStep(i, o, i2, o2) /\ InvOf(i2, o2)'
  BY <1>2, StepOfLists
<1>4. ListOf(inbound', nx') = i2 /\ ListOf(outbound', nx') = o2
  <2>1. /\ i2 \in Seq(Buffers) /\ NoRepeat(i2) /\ Chained(inbound'.first, nx', i2)
        /\ o2 \in Seq(Buffers) /\ NoRepeat(o2) /\ Chained(outbound'.first, nx', o2)
    BY <1>3 DEF InvOf, Shared
  <2> QED BY <2>1, ListIs
<1>5. IInv'
  BY <1>3, <1>4 DEF IInv
<1> QED BY <1>1, <1>3, <1>4, <1>5
-----------------------------------------------------------------------------
\* The buffers that occur in s are as many as s is long.
LEMMA SizeOfList ==
  ASSUME NEW s \in Seq(Buffers), NoRepeat(s)
  PROVE  LET S == {s[k] : k \in 1 .. Len(s)}
         IN  /\ S \subseteq Buffers /\ IsFiniteSet(S)
             /\ Cardinality(S) = Len(s)
             /\ \A b : b \in S <=> Occurs(b, s)
<1> DEFINE S == {s[k] : k \in 1 .. Len(s)}
<1>1. S \subseteq Buffers /\ \A b : b \in S <=> Occurs(b, s)
  BY OccursAt DEF Occurs
<1>2. IsFiniteSet(S)
  BY <1>1, BuffersAssumption, FS_Subset
<1>3. s \in Injection(1 .. Len(s), S) /\ s \in Surjection(1 .. Len(s), S)
  BY DEF NoRepeat, Injection, IsInjective, Surjection
<1>4. Cardinality(1 .. Len(s)) = Cardinality(S)
  <2> HIDE DEF S
  <2> QED BY <1>2, <1>3, FS_Injection
<1>5. Cardinality(1 .. Len(s)) = Len(s)
  BY LengthOfInterval
<1> QED BY <1>1, <1>2, <1>4, <1>5

\* The size of three sets that are apart.
LEMMA SizeOfThree ==
  ASSUME NEW R, NEW S, NEW T, IsFiniteSet(R), IsFiniteSet(S), IsFiniteSet(T),
         R \cap S = {}, R \cap T = {}, S \cap T = {}
  PROVE  Cardinality(R \cup S \cup T) = Cardinality(R) + Cardinality(S) + Cardinality(T)
<1>1. (R \cup S) \cap T = {}
  OBVIOUS
<1>2. Cardinality(R) \in Nat /\ Cardinality(S) \in Nat /\ Cardinality(T) \in Nat
  BY FS_CardinalityType
<1>3. Cardinality(R \cap S) = 0 /\ Cardinality((R \cup S) \cap T) = 0
  BY <1>1, FS_EmptySet, Zenon
<1>4. /\ IsFiniteSet(R \cup S)
      /\ Cardinality(R \cup S) = Cardinality(R) + Cardinality(S) - Cardinality(R \cap S)
  BY FS_Union, Zenon
<1>5. Cardinality((R \cup S) \cup T)
        = Cardinality(R \cup S) + Cardinality(T) - Cardinality((R \cup S) \cap T)
  BY <1>4, FS_Union, Zenon
<1> QED BY <1>2, <1>3, <1>4, <1>5

LEMMA SoundOutside ==
  ASSUME Typed, IInv, enabled
  PROVE  Sound
<1> DEFINE i == ListOf(inbound, nx)
           o == ListOf(outbound, nx)
           I == {i[k] : k \in 1 .. Len(i)}
           O == {o[k] : k \in 1 .. Len(o)}
<1>1. InvOf(i, o)
  BY DEF IInv
<1>2. pc \in InterruptStates /\ Held = {} /\ pb = NULL /\ free \subseteq Buffers
  BY <1>1 DEF InvOf, Closed, Held, InterruptStates, Typed, TypeOK
<1>3. Shared(i, o) /\ EndsAt(inbound.last, i) /\ EndsAt(outbound.last, o)
  BY <1>1, <1>2 DEF InvOf, Removing, Inserting, InterruptStates
<1> HIDE DEF i, o
<1>4. Holds(inbound, nx, i) /\ Holds(outbound, nx, o)
  BY <1>3, HoldsIff DEF Shared
<1>5. /\ I \subseteq Buffers /\ IsFiniteSet(I) /\ Cardinality(I) = Len(i)
      /\ \A b : b \in I <=> Occurs(b, i)
  BY <1>3, SizeOfList DEF Shared
<1>6. /\ O \subseteq Buffers /\ IsFiniteSet(O) /\ Cardinality(O) = Len(o)
      /\ \A b : b \in O <=> Occurs(b, o)
  BY <1>3, SizeOfList DEF Shared
<1> HIDE DEF I, O
<1>7. /\ I \cap O = {} /\ I \cap free = {} /\ O \cap free = {}
      /\ I \cup O \cup free = Buffers
  BY <1>2, <1>3, <1>5, <1>6 DEF Shared
<1>8. IsFiniteSet(free) /\ Cardinality(free) \in Nat
  BY <1>2, BuffersAssumption, FS_Subset, FS_CardinalityType
<1>9. Len(i) + Len(o) + Cardinality(free) = Cardinality(Buffers)
  <2>1. Cardinality(I \cup O \cup free) = Cardinality(I) + Cardinality(O) + Cardinality(free)
    <3>1. /\ IsFiniteSet(I) /\ IsFiniteSet(O) /\ IsFiniteSet(free)
          /\ I \cap O = {} /\ I \cap free = {} /\ O \cap free = {}
      BY <1>5, <1>6, <1>7, <1>8
    <3>2. ASSUME NEW F, F = free
          PROVE  Cardinality(I \cup O \cup F) = Cardinality(I) + Cardinality(O) + Cardinality(F)
      BY <3>1, <3>2, SizeOfThree
    <3> QED BY <3>2
  <2> QED BY <2>1, <1>5, <1>6, <1>7
<1>10. Cardinality({pb} \ {NULL}) = 0 /\ {pb} \ {NULL} = {}
  BY <1>2, FS_EmptySet
<1>11. Len(i) \in Nat /\ Len(o) \in Nat
  BY <1>3 DEF Shared
<1>12. Len(i) + Len(o) + Cardinality(free) + Cardinality({pb} \ {NULL}) = Cardinality(Buffers)
  BY <1>8, <1>9, <1>10, <1>11
<1>13. Listed(inbound) = I /\ Listed(outbound) = O
  BY DEF Listed, I, O, i, o
<1> QED BY <1>4, <1>7, <1>10, <1>12, <1>13 DEF Sound, i, o

LEMMA Invariant == ASSUME Guarded PROVE Spec => [](Typed /\ IInv)
<1>1. Typed /\ IInv /\ [Next]_vars => Typed' /\ IInv'
  BY NextTyped, NextIInv
<1> QED BY <1>1, InitTyped, InitIInv, PTL DEF Spec

(***************************************************************************)
(* With removeInboundBG no interrupt meets a queue in the middle of a      *)
(* change: both are proper lists, and every buffer is free or in exactly   *)
(* one of them, once.                                                      *)
(***************************************************************************)
THEOREM NoPacketLost == Guarded => (Spec => []ListsAtInterrupts)
<1> SUFFICES ASSUME Guarded PROVE Spec => []ListsAtInterrupts
  OBVIOUS
<1>1. Typed /\ IInv => ListsAtInterrupts
  BY SoundOutside DEF ListsAtInterrupts
<1> QED BY <1>1, Invariant, PTL

\* A step of the lists is a step of the channels.
LEMMA ChannelStepIsNext ==
  ASSUME NEW i \in Seq(Buffers), NEW o \in Seq(Buffers),
         i = ListOf(inbound, nx), o = ListOf(outbound, nx),
         ChannelStep(i, o, ListOf(inbound, nx)', ListOf(outbound, nx)')
  PROVE  [Channel!Next]_<<ListOf(outbound, nx), ListOf(inbound, nx)>>
<1> DEFINE i2 == ListOf(inbound, nx)'
           o2 == ListOf(outbound, nx)'
<1> HIDE DEF i2, o2
<1>1. CASE i2 = i /\ o2 = o
  BY <1>1 DEF i2, o2
<1>2. CASE i # << >> /\ i2 = Tail(i) /\ o2 = o
  BY <1>2 DEF Channel!Next, Channel!Take, i2, o2
<1>3. CASE o # << >> /\ i2 = Append(i, o[1]) /\ o2 = Tail(o)
  <2>1. Head(o) = o[1]
    BY <1>3
  <2> QED BY <1>3, <2>1 DEF Channel!Next, Channel!Interrupt, i2, o2
<1>4. CASE \E p \in Buffers : ~ Occurs(p, i) /\ ~ Occurs(p, o) /\ i2 = i /\ o2 = Append(o, p)
  <2>1. PICK p \in Buffers : ~ Occurs(p, i) /\ ~ Occurs(p, o) /\ i2 = i /\ o2 = Append(o, p)
    BY <1>4
  <2>2. p \notin Channel!ToSet(o) \cup Channel!ToSet(i)
    BY <2>1 DEF Channel!ToSet, Occurs
  <2>3. Channel!Ship(p)
    BY <2>1, <2>2 DEF Channel!Ship, i2, o2
  <2> QED BY <2>3 DEF Channel!Next
<1> QED BY <1>1, <1>2, <1>3, <1>4 DEF ChannelStep, i2, o2

(***************************************************************************)
(* With removeInboundBG, insert() and remove(), access by access and with  *)
(* the interrupt handler between any two of their calls, are operations of *)
(* two first-in first-out channels that happen at once.                    *)
(***************************************************************************)
THEOREM ChannelImplemented == Guarded => (Spec => ImplementsChannel)
<1> SUFFICES ASSUME Guarded PROVE Spec => ImplementsChannel
  OBVIOUS
<1>1. Init => Channel!Init
  <2> SUFFICES ASSUME Init PROVE Channel!Init
    OBVIOUS
  <2>1. InvOf(<< >>, << >>)
    BY InitLists
  <2>2. ListOf(inbound, nx) = << >> /\ ListOf(outbound, nx) = << >>
    BY <2>1, ListIs DEF InvOf, Shared
  <2> QED BY <2>2 DEF Channel!Init
<1>2. Typed /\ IInv /\ [Next]_vars
        => [Channel!Next]_<<ListOf(outbound, nx), ListOf(inbound, nx)>>
  <2> SUFFICES ASSUME Typed, IInv, [Next]_vars
               PROVE  [Channel!Next]_<<ListOf(outbound, nx), ListOf(inbound, nx)>>
    OBVIOUS
  <2>1. PICK i, o : i = ListOf(inbound, nx) /\ o = ListOf(outbound, nx)
    OBVIOUS
  <2>2. i \in Seq(Buffers) /\ o \in Seq(Buffers)
    BY <2>1 DEF IInv, InvOf, Shared
  <2>3. ChannelStep(i, o, ListOf(inbound, nx)', ListOf(outbound, nx)')
    BY <2>1, NextIInv
  <2> QED BY <2>1, <2>2, <2>3, ChannelStepIsNext
<1> QED BY <1>1, <1>2, Invariant, PTL DEF Spec, ImplementsChannel, Channel!Spec
=============================================================================
