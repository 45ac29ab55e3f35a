--------------------------- MODULE WorkloadProofs --------------------------
(***************************************************************************)
(* Proofs about the workload01 sketch, for every number of faces, buffers  *)
(* and words that WorkloadAssumption allows.                               *)
(*                                                                         *)
(* The inductive invariant is Inv of WorkloadInv.  The sequences that it   *)
(* says the linked lists hold are not a variable of the specification: each*)
(* step is proved by giving the sequences that the lists hold after it.    *)
(***************************************************************************)
EXTENDS MCWorkload, PacketQueueProofs

(***************************************************************************)
(* Types.                                                                  *)
(***************************************************************************)
LEMMA InitTypeOK == Init => TypeOK
<1> SUFFICES ASSUME Init PROVE TypeOK
  OBVIOUS
<1>1. EmptyQueue \in Queue
  BY BuffersAssumption DEF EmptyQueue, Queue, Link
<1>2. /\ nx \in [Buffers -> Link] /\ length \in [Buffers -> 0 .. 255]
      /\ filled \in [Buffers -> 0 .. 255]
  BY DEF Init, Link
<1> QED BY <1>1, <1>2, BuffersAssumption, WorkloadAssumption DEF Init, TypeOK, Faces

LEMMA MoveType ==
  ASSUME TypeOK, NEW from \in Queues, NEW to \in Queues, NEW len \in 0 .. 255,
         ~IsEmpty(queue[from]), from # to, Move(from, to, len)
  PROVE  /\ queue' \in [Queues -> Queue]
         /\ nx' \in [Buffers -> Link]
         /\ length' \in [Buffers -> 0 .. 255]
         /\ queue[from].first \in Buffers
<1> DEFINE pb == queue[from].first
<1>1. queue[from] \in Queue /\ queue[to] \in Queue /\ nx \in [Buffers -> Link]
  BY DEF TypeOK
<1>2. pb \in Buffers
  BY <1>1, RemoveType
<1>3. length[pb] \in Nat /\ len \in Nat
  BY <1>2 DEF TypeOK
<1>4. /\ RemoveQueue(queue[from], nx, length[pb]) \in Queue
      /\ RemoveLinks(queue[from], nx) \in [Buffers -> Link]
  BY <1>1, <1>3, RemoveType
<1>5. /\ InsertQueue(queue[to], pb, len) \in Queue
      /\ InsertLinks(queue[to], RemoveLinks(queue[from], nx), pb) \in [Buffers -> Link]
  BY <1>1, <1>2, <1>3, <1>4, InsertType
<1>6. queue' \in [Queues -> Queue]
  BY <1>4, <1>5 DEF Move, TypeOK
<1>7. nx' \in [Buffers -> Link] /\ length' \in [Buffers -> 0 .. 255]
  BY <1>2, <1>5 DEF Move, TypeOK
<1> QED BY <1>2, <1>6, <1>7

LEMMA NextFaceType ==
  ASSUME TypeOK, NEW done \in {"inbound", "outbound"}, NextFace(done)
  PROVE  /\ pc' \in {"init", "inbound", "outbound", "ship", "supply"}
         /\ face' \in Faces
BY WorkloadAssumption DEF TypeOK, NextFace, Faces

LEMMA QueueNames ==
  /\ FreeList \in Queues
  /\ \A f \in Faces : /\ In(f) \in Queues /\ Out(f) \in Queues
                      /\ In(f) # FreeList /\ Out(f) # FreeList /\ FreeList # In(f)
                      /\ FreeList # Out(f)
  /\ \A f, g \in Faces : /\ In(f) # Out(g) /\ Out(f) # In(g)
                         /\ In(f) = In(g) => f = g
                         /\ Out(f) = Out(g) => f = g
BY DEF Queues, FreeList, In, Out

\* What the ship loop does with the words to go, and the words of a face.
LEMMA WindowType ==
  \A f \in Int : /\ WindowWords(f) \in 1 .. 2 * PACKET_MAX_WORDS
                 /\ Packets(WindowWords(f)) \in 1 .. 2
BY WorkloadAssumption DEF WindowWords, Packets

LEMMA ModType == \A m \in Nat : m % FACE_COUNT \in Faces
BY WorkloadAssumption DEF Faces

LEMMA NextTypeOK == TypeOK /\ [Next]_vars => TypeOK'
<1> SUFFICES ASSUME TypeOK, [Next]_vars PROVE TypeOK'
  OBVIOUS
<1> USE DEF control, event, bad
<1>1. CASE InitPacket
  <2>1. PICK pb \in uninit :
          /\ queue' = [queue EXCEPT ![FreeList] = InsertQueue(@, pb, length[pb])]
          /\ nx' = InsertLinks(queue[FreeList], nx, pb)
          /\ uninit' = uninit \ {pb}
          /\ pc' = IF uninit = {pb} THEN "inbound" ELSE pc
    BY <1>1 DEF InitPacket
  <2>2. pb \in Buffers /\ length[pb] \in Nat /\ queue[FreeList] \in Queue
        /\ nx \in [Buffers -> Link]
    BY QueueNames DEF TypeOK
  <2>3. /\ InsertQueue(queue[FreeList], pb, length[pb]) \in Queue
        /\ InsertLinks(queue[FreeList], nx, pb) \in [Buffers -> Link]
    BY <2>2, InsertType
  <2> QED BY <1>1, <2>1, <2>3 DEF TypeOK, InitPacket
<1>2. CASE NoInbound
  BY <1>2, NextFaceType DEF NoInbound, TypeOK
<1>3. CASE ProcessInbound
  <2> DEFINE pb == queue[In(face)].first
             wrong == IF length[pb] > filled[pb] THEN length[pb] - filled[pb] ELSE 0
  <2>1. In(face) \in Queues /\ FreeList \in Queues /\ In(face) # FreeList
    BY QueueNames DEF TypeOK
  <2>2. pb \in Buffers
    BY <1>3, <2>1, RemoveType DEF TypeOK, ProcessInbound, IsEmpty, Queue, Link
  <2>3. length[pb] \in 0 .. 255 /\ filled[pb] \in 0 .. 255
    BY <2>2 DEF TypeOK
  <2>4. /\ queue' \in [Queues -> Queue]
        /\ nx' \in [Buffers -> Link]
        /\ length' \in [Buffers -> 0 .. 255]
    BY <1>3, <2>1, <2>3, MoveType DEF ProcessInbound
  <2>5. badWords' = (badWords + wrong) % LongMod
        /\ badPackets' = IF wrong > 0 THEN (badPackets + 1) % LongMod ELSE badPackets
    BY <1>3 DEF ProcessInbound
  <2>10. wrong \in Nat
    <3>1. \A m, n \in 0 .. 255 : (IF m > n THEN m - n ELSE 0) \in Nat
      OBVIOUS
    <3> QED BY <2>3, <3>1, Zenon
  <2>6. wrong \in Nat /\ badWords \in 0 .. LongMod - 1 /\ badPackets \in 0 .. LongMod - 1
    BY <2>10 DEF TypeOK
  <2>7. \A n \in Nat : n % LongMod \in 0 .. LongMod - 1
    BY BuffersAssumption
  <2> HIDE DEF wrong
  <2>8. badWords + wrong \in Nat /\ badPackets + 1 \in Nat
    BY <2>6, BuffersAssumption
  <2>9. badPackets' \in 0 .. LongMod - 1 /\ badWords' \in 0 .. LongMod - 1
    BY <2>5, <2>6, <2>7, <2>8
  <2> QED BY <1>3, <2>4, <2>9, NextFaceType DEF ProcessInbound, TypeOK
<1>4. CASE Blocked
  BY <1>4 DEF Blocked, TypeOK
<1>5. CASE StartEvent
  <2>1. PICK e \in Faces :
          /\ fm' = IF IsCorner(e) THEN e + FACE_COUNT - 1 ELSE e
          /\ lastFaceM' = IF IsCorner(e) THEN e + FACE_COUNT + 1 ELSE e
    BY <1>5 DEF StartEvent
  <2>2. fm' \in 0 .. 2 * FACE_COUNT /\ lastFaceM' \in 0 .. 2 * FACE_COUNT
    BY <2>1, WorkloadAssumption DEF Faces
  <2>3. wordCount' \in 0 .. 2 * PACKET_MAX_WORDS
    BY <1>5, WorkloadAssumption DEF StartEvent, WindowWords
  <2> QED BY <1>5, <2>2, <2>3 DEF StartEvent, TypeOK
<1>6. CASE ShipPacket
  <2> DEFINE f == fm % FACE_COUNT
             pb == queue[FreeList].first
             plen == IF wordCount > PACKET_MAX_WORDS THEN PACKET_MAX_WORDS ELSE wordCount
             rest == wordCount - plen
  <2>1. f \in Faces
    BY ModType DEF TypeOK
  <2>2. Out(f) \in Queues /\ FreeList \in Queues /\ Out(f) # FreeList
    BY <2>1, QueueNames
  <2>3. rest \in 0 .. PACKET_MAX_WORDS /\ rest \in 0 .. 255
    BY WorkloadAssumption DEF TypeOK
  <2>4. /\ queue' \in [Queues -> Queue]
        /\ nx' \in [Buffers -> Link]
        /\ length' \in [Buffers -> 0 .. 255]
        /\ pb \in Buffers
    BY <1>6, <2>2, <2>3, MoveType DEF ShipPacket, NextPacket
  <2>5. filled' \in [Buffers -> 0 .. 255]
    BY <1>6, <2>3, <2>4 DEF ShipPacket, NextPacket, TypeOK
  <2>6. /\ fm' \in 0 .. 2 * FACE_COUNT /\ lastFaceM' \in 0 .. 2 * FACE_COUNT
        /\ wordCount' \in 0 .. 2 * PACKET_MAX_WORDS
        /\ pc' \in {"init", "inbound", "outbound", "ship", "supply"}
    <3>1. CASE rest > 0
      BY <1>6, <2>3, <3>1, WorkloadAssumption DEF ShipPacket, NextPacket, TypeOK
    <3>2. CASE ~(rest > 0) /\ fm < lastFaceM
      BY <1>6, <3>2, WorkloadAssumption DEF ShipPacket, NextPacket, TypeOK, WindowWords
    <3>3. CASE ~(rest > 0) /\ ~(fm < lastFaceM)
      BY <1>6, <3>3, WorkloadAssumption DEF ShipPacket, NextPacket, TypeOK
    <3> QED BY <3>1, <3>2, <3>3
  <2> QED BY <1>6, <2>4, <2>5, <2>6 DEF ShipPacket, NextPacket, TypeOK
<1>7. CASE NothingToSupply
  BY <1>7, NextFaceType DEF NothingToSupply, TypeOK
<1>8. CASE SupplyOutbound
  <2> DEFINE pb == queue[Out(face)].first
  <2>1. /\ In(face) \in Queues /\ Out(face) \in Queues /\ In(face) # Out(face)
        /\ Out(face) # In(face)
    BY QueueNames DEF TypeOK
  <2>2. pb \in Buffers
    BY <1>8, <2>1 DEF TypeOK, SupplyOutbound, IsEmpty, Queue, Link
  <2>3. length[pb] \in 0 .. 255
    BY <2>2 DEF TypeOK
  <2>4. /\ queue' \in [Queues -> Queue]
        /\ nx' \in [Buffers -> Link]
        /\ length' \in [Buffers -> 0 .. 255]
    BY <1>8, <2>1, <2>3, MoveType DEF SupplyOutbound
  <2> QED BY <1>8, <2>4, NextFaceType DEF SupplyOutbound, TypeOK
<1>9. CASE UNCHANGED vars
  BY <1>9 DEF vars, TypeOK
<1> QED BY <1>1, <1>2, <1>3, <1>4, <1>5, <1>6, <1>7, <1>8, <1>9 DEF Next

(***************************************************************************)
(* The variables of the sketch keep their types: every pointer is null or  *)
(* a buffer, every length fits the unsigned char of trailer.length.        *)
(***************************************************************************)
THEOREM TypeCorrect == Spec => []TypeOK
<1>1. Init => TypeOK
  BY InitTypeOK
<1>2. TypeOK /\ [Next]_vars => TypeOK'
  BY NextTypeOK
<1> QED BY <1>1, <1>2, PTL DEF Spec

(***************************************************************************)
(* Who holds which buffer.                                                 *)
(***************************************************************************)

Moved(s, from, to) ==
  [s EXCEPT ![from] = Tail(s[from]), ![to] = Append(s[to], s[from][1])]

\* A queue that holds a sequence is empty if and only if the sequence is.
LEMMA EmptyIff ==
  ASSUME NEW s, Owned(s), NEW q \in Queues
  PROVE  IsEmpty(queue[q]) <=> s[q] = << >>
<1>1. s[q] \in Seq(Buffers) /\ Holds(queue[q], nx, s[q])
  BY DEF Owned
<1>2. CASE s[q] = << >>
  BY <1>1, <1>2 DEF Holds, IsEmpty
<1>3. CASE s[q] # << >>
  <2>1. s[q][1] \in Buffers
    BY <1>1, <1>3
  <2> QED BY <1>1, <1>3, <2>1, BuffersAssumption DEF Holds, IsEmpty
<1> QED BY <1>2, <1>3

LEMMA PlacedApart ==
  ASSUME NEW s, s \in [Queues -> Seq(Buffers)], OncePlaced(s)
  PROVE  /\ \A q \in Queues : NoRepeat(s[q])
         /\ \A q, r \in Queues : q # r => Apart(s[q], s[r])
BY DEF OncePlaced, NoRepeat, Apart

LEMMA MovedPlaces ==
  ASSUME NEW s, s \in [Queues -> Seq(Buffers)],
         NEW from \in Queues, NEW to \in Queues, from # to, s[from] # << >>
  PROVE  LET t == Moved(s, from, to)
         IN  /\ t \in [Queues -> Seq(Buffers)]
             /\ t[from] = Tail(s[from])
             /\ t[to] = Append(s[to], s[from][1])
             /\ \A q \in Queues : q # from /\ q # to => t[q] = s[q]
             /\ Len(t[from]) = Len(s[from]) - 1
             /\ Len(t[to]) = Len(s[to]) + 1
             /\ \A i \in 1 .. Len(t[from]) : t[from][i] = s[from][i + 1]
             /\ \A i \in 1 .. Len(s[to]) : t[to][i] = s[to][i]
             /\ t[to][Len(s[to]) + 1] = s[from][1]
             /\ \A q \in Queues : Len(s[q]) \in Nat /\ Len(t[q]) \in Nat
             /\ Len(s[from]) >= 1
<1> DEFINE t == Moved(s, from, to)
<1>1. s[from] \in Seq(Buffers) /\ s[to] \in Seq(Buffers)
  OBVIOUS
<1>2. /\ Tail(s[from]) \in Seq(Buffers) /\ Len(Tail(s[from])) = Len(s[from]) - 1
      /\ \A i \in 1 .. Len(s[from]) - 1 : Tail(s[from])[i] = s[from][i + 1]
      /\ s[from][1] \in Buffers
      /\ Len(s[from]) \in Nat /\ Len(s[from]) >= 1
  BY <1>1
<1> DEFINE a == Append(s[to], s[from][1])
<1>3. /\ a \in Seq(Buffers) /\ Len(a) = Len(s[to]) + 1
      /\ \A i \in 1 .. Len(s[to]) : a[i] = s[to][i]
      /\ a[Len(s[to]) + 1] = s[from][1]
  BY <1>1, <1>2
<1>4. /\ t[from] = Tail(s[from]) /\ t[to] = a
      /\ \A q \in Queues : q # from /\ q # to => t[q] = s[q]
  BY DEF Moved
<1>5. t \in [Queues -> Seq(Buffers)]
  BY <1>2, <1>3 DEF Moved
<1> HIDE DEF t, a
<1>6. \A q \in Queues : Len(s[q]) \in Nat /\ Len(t[q]) \in Nat
  BY <1>5
<1>7. /\ t[from] = Tail(s[from]) /\ t[to] = Append(s[to], s[from][1])
      /\ Len(t[from]) = Len(s[from]) - 1
      /\ Len(t[to]) = Len(s[to]) + 1
      /\ \A i \in 1 .. Len(t[from]) : t[from][i] = s[from][i + 1]
      /\ \A i \in 1 .. Len(s[to]) : t[to][i] = s[to][i]
      /\ t[to][Len(s[to]) + 1] = s[from][1]
  BY <1>2, <1>3, <1>4 DEF a
<1> QED BY <1>2, <1>4, <1>5, <1>6, <1>7 DEF t

(***************************************************************************)
(* Moving the first buffer of one queue to the end of another leaves every *)
(* buffer in exactly one place, and the links of every queue right.        *)
(***************************************************************************)
LEMMA MoveOwned ==
  ASSUME TypeOK, NEW s, Owned(s), NEW from \in Queues, NEW to \in Queues,
         from # to, s[from] # << >>, NEW len, Move(from, to, len), uninit' = uninit
  PROVE  Owned(Moved(s, from, to))'
<1> DEFINE t == Moved(s, from, to)
           pb == s[from][1]
           n1 == RemoveLinks(queue[from], nx)
           n2 == InsertLinks(queue[to], n1, pb)
<1>1. s \in [Queues -> Seq(Buffers)] /\ OncePlaced(s) /\ nx \in [Buffers -> Link]
      /\ queue \in [Queues -> Queue]
  BY DEF Owned, TypeOK
<1>2. \A q \in Queues : Holds(queue[q], nx, s[q]) /\ s[q] \in Seq(Buffers)
  BY DEF Owned
<1>3. /\ \A q \in Queues : NoRepeat(s[q])
      /\ \A q, r \in Queues : q # r => Apart(s[q], s[r])
  BY <1>1, PlacedApart
<1>4. queue[from].first = pb /\ pb \in Buffers
  BY <1>1, <1>2, <1>3, RemoveHolds
<1>5. Holds(RemoveQueue(queue[from], nx, length[pb]), n1, Tail(s[from]))
  BY <1>1, <1>2, <1>3, RemoveHolds
<1>6. n1 \in [Buffers -> Link]
  BY <1>1 DEF RemoveLinks, Link
<1>7. \A q \in Queues \ {from} : Holds(queue[q], n1, s[q])
  BY <1>1, <1>2, <1>3, RemoveElsewhere
<1>8. \A q \in Queues \ {from} : \A i \in 1 .. Len(s[q]) : s[q][i] # pb
  BY <1>1, MovedPlaces DEF OncePlaced
<1>9. Holds(InsertQueue(queue[to], pb, len), n2, Append(s[to], pb))
  BY <1>1, <1>2, <1>3, <1>4, <1>6, <1>7, <1>8, InsertHolds
<1>10. \A q \in Queues \ {from, to} : Holds(queue[q], n2, s[q])
  BY <1>1, <1>2, <1>3, <1>4, <1>6, <1>7, <1>8, InsertElsewhere
<1>11. Holds(RemoveQueue(queue[from], nx, length[pb]), n2, Tail(s[from]))
  <2> DEFINE u == Tail(s[from])
  <2>1. /\ u \in Seq(Buffers) /\ Len(u) = Len(s[from]) - 1
        /\ Len(s[from]) \in Nat /\ Len(s[from]) >= 1
        /\ \A i \in 1 .. Len(u) : u[i] = s[from][i + 1]
    BY <1>2
  <2> HIDE DEF u
  <2>2. \A i \in 1 .. Len(u) : u[i] # pb
    <3>1. \A i, j \in 1 .. Len(s[from]) : s[from][i] = s[from][j] => i = j
      BY <1>3 DEF NoRepeat
    <3> QED BY <2>1, <3>1
  <2>3. Apart(s[to], u)
    BY <2>1, <1>3, <1>1 DEF Apart
  <2>4. Holds(RemoveQueue(queue[from], nx, length[pb]), n1, u)
    BY <1>5 DEF u
  <2>5. Holds(queue[to], n1, s[to]) /\ s[to] \in Seq(Buffers) /\ queue[to] \in Queue
    BY <1>1, <1>7
  <2> QED BY <2>1, <2>2, <2>3, <2>4, <2>5, <1>4, <1>6, InsertElsewhere DEF u
<1>12. /\ queue'[from] = RemoveQueue(queue[from], nx, length[pb])
       /\ queue'[to] = InsertQueue(queue[to], pb, len)
       /\ \A q \in Queues \ {from, to} : queue'[q] = queue[q]
       /\ nx' = n2
  BY <1>1, <1>4 DEF Move
<1>13. /\ t \in [Queues -> Seq(Buffers)]
       /\ t[from] = Tail(s[from])
       /\ t[to] = Append(s[to], pb)
       /\ \A q \in Queues : q # from /\ q # to => t[q] = s[q]
       /\ Len(t[from]) = Len(s[from]) - 1
       /\ Len(t[to]) = Len(s[to]) + 1
       /\ \A i \in 1 .. Len(t[from]) : t[from][i] = s[from][i + 1]
       /\ \A i \in 1 .. Len(s[to]) : t[to][i] = s[to][i]
       /\ t[to][Len(s[to]) + 1] = pb
       /\ \A q \in Queues : Len(s[q]) \in Nat /\ Len(t[q]) \in Nat
       /\ Len(s[from]) >= 1
  BY <1>1, MovedPlaces
<1> HIDE DEF t, n1, n2, pb
<1>14. \A q \in Queues : Holds(queue'[q], nx', t[q])
  <2> TAKE q \in Queues
  <2>1. CASE q = from
    BY <2>1, <1>11, <1>12, <1>13
  <2>2. CASE q = to
    BY <2>2, <1>9, <1>12, <1>13
  <2>3. CASE q # from /\ q # to
    BY <2>3, <1>10, <1>12, <1>13
  <2> QED BY <2>1, <2>2, <2>3
\* Where a buffer of t was in s.
<1> DEFINE WasIn(q, i) == IF q = from \/ (q = to /\ i = Len(s[to]) + 1) THEN from ELSE q
           WasAt(q, i) == IF q = from THEN i + 1
                          ELSE IF q = to /\ i = Len(s[to]) + 1 THEN 1 ELSE i
<1>15. \A q \in Queues : \A i \in 1 .. Len(t[q]) :
         /\ WasIn(q, i) \in Queues
         /\ WasAt(q, i) \in 1 .. Len(s[WasIn(q, i)])
         /\ t[q][i] = s[WasIn(q, i)][WasAt(q, i)]
  <2> TAKE q \in Queues
  <2> TAKE i \in 1 .. Len(t[q])
  <2>1. CASE q = from
    BY <2>1, <1>13
  <2>2. CASE q = to /\ i = Len(s[to]) + 1
    BY <2>2, <1>13 DEF pb
  <2>3. CASE q = to /\ i # Len(s[to]) + 1
    BY <2>3, <1>13
  <2>4. CASE q # from /\ q # to
    BY <2>4, <1>13
  <2> QED BY <2>1, <2>2, <2>3, <2>4
<1>16. \A q, r \in Queues : \A i \in 1 .. Len(t[q]), j \in 1 .. Len(t[r]) :
         WasIn(q, i) = WasIn(r, j) /\ WasAt(q, i) = WasAt(r, j) => q = r /\ i = j
  BY <1>13
<1> HIDE DEF WasIn, WasAt
<1>17. OncePlaced(t)
  <2> SUFFICES ASSUME NEW q \in Queues, NEW r \in Queues,
                      NEW i \in 1 .. Len(t[q]), NEW j \in 1 .. Len(t[r]),
                      t[q][i] = t[r][j]
               PROVE  q = r /\ i = j
    BY DEF OncePlaced
  <2>1. /\ WasIn(q, i) \in Queues /\ WasAt(q, i) \in 1 .. Len(s[WasIn(q, i)])
        /\ WasIn(r, j) \in Queues /\ WasAt(r, j) \in 1 .. Len(s[WasIn(r, j)])
        /\ s[WasIn(q, i)][WasAt(q, i)] = s[WasIn(r, j)][WasAt(r, j)]
    BY <1>15
  <2>2. WasIn(q, i) = WasIn(r, j) /\ WasAt(q, i) = WasAt(r, j)
    BY <2>1, <1>1 DEF OncePlaced
  <2> QED BY <2>2, <1>16
<1>18. \A b \in Buffers \ uninit : \E q \in Queues : \E i \in 1 .. Len(t[q]) : t[q][i] = b
  <2> TAKE b \in Buffers \ uninit
  <2>1. PICK r \in Queues : \E j \in 1 .. Len(s[r]) : s[r][j] = b
    BY DEF Owned
  <2>2. PICK j \in 1 .. Len(s[r]) : s[r][j] = b
    BY <2>1
  <2>3. CASE r = from /\ j = 1
    <3>1. t[to][Len(s[to]) + 1] = b /\ Len(s[to]) + 1 \in 1 .. Len(t[to])
      BY <2>2, <2>3, <1>13 DEF pb
    <3> QED BY <3>1
  <2>4. CASE r = from /\ j # 1
    <3>1. t[from][j - 1] = b /\ j - 1 \in 1 .. Len(t[from])
      BY <2>2, <2>4, <1>13
    <3> QED BY <3>1
  <2>5. CASE r # from
    <3>1. t[r][j] = b /\ j \in 1 .. Len(t[r])
      <4>1. CASE r = to
        BY <2>2, <2>5, <4>1, <1>13
      <4>2. CASE r # to
        BY <2>2, <2>5, <4>2, <1>13
      <4> QED BY <4>1, <4>2
    <3> QED BY <3>1
  <2> QED BY <2>3, <2>4, <2>5
<1>19. \A q \in Queues : \A i \in 1 .. Len(t[q]) : t[q][i] \notin uninit
  <2> TAKE q \in Queues
  <2> TAKE i \in 1 .. Len(t[q])
  <2>1. /\ WasIn(q, i) \in Queues /\ WasAt(q, i) \in 1 .. Len(s[WasIn(q, i)])
        /\ t[q][i] = s[WasIn(q, i)][WasAt(q, i)]
    BY <1>15
  <2> QED BY <2>1 DEF Owned
<1> QED BY <1>13, <1>14, <1>17, <1>18, <1>19 DEF Owned, t

(***************************************************************************)
(* The faces of an event are different faces, and the pool is large enough *)
(* for any event when nothing else is using it.                            *)
(***************************************************************************)
LEMMA ModFaces == \A e \in Faces : e % FACE_COUNT = e
BY WorkloadAssumption DEF Faces

LEMMA DifferentFaces ==
  ASSUME NEW m \in Nat, NEW d \in 1 .. 2
  PROVE  (m + d) % FACE_COUNT # m % FACE_COUNT
<1> SUFFICES ASSUME (m + d) % FACE_COUNT = m % FACE_COUNT PROVE FALSE
  OBVIOUS
<1> DEFINE N == FACE_COUNT
<1>1. N \in Nat /\ N >= 3
  BY WorkloadAssumption
<1> HIDE DEF N
<1>2. /\ m = N * (m \div N) + (m % N)
      /\ m + d = N * ((m + d) \div N) + ((m + d) % N)
      /\ m \div N \in Int /\ (m + d) \div N \in Int /\ m % N \in Int
  BY <1>1
<1>3. PICK k \in Int : k = ((m + d) \div N) - (m \div N)
  BY <1>2
<1>4. d = N * k
  BY <1>1, <1>2, <1>3 DEF N
<1>5. k >= 1 => N * k >= N
  BY <1>1
<1>6. k <= 0 => N * k <= 0
  BY <1>1
<1> QED BY <1>1, <1>4, <1>5, <1>6

LEMMA WholePool ==
  ASSUME NEW s, Owned(s), uninit = {},
         \A f \in Faces : s[In(f)] = << >> /\ s[Out(f)] = << >>
  PROVE  Cardinality(Buffers) <= Len(s[FreeList])
<1> DEFINE free == s[FreeList]
<1>1. free \in Seq(Buffers) /\ Len(free) \in Nat
  BY QueueNames DEF Owned
<1>2. \A b \in Buffers : \E i \in 1 .. Len(free) : free[i] = b
  <2> TAKE b \in Buffers
  <2>1. PICK q \in Queues : \E i \in 1 .. Len(s[q]) : s[q][i] = b
    BY DEF Owned
  <2>2. q = FreeList
    BY <2>1 DEF Queues
  <2> QED BY <2>1, <2>2
<1> HIDE DEF free
<1>3. free \in [1 .. Len(free) -> Buffers]
  BY <1>1
<1>4. free \in Surjection(1 .. Len(free), Buffers)
  BY <1>2, <1>3 DEF Surjection
<1>5. IsFiniteSet(1 .. Len(free)) /\ Cardinality(1 .. Len(free)) = Len(free)
  BY <1>1, FS_Interval
<1>6. Cardinality(Buffers) <= Cardinality(1 .. Len(free))
  BY <1>4, <1>5, FS_Surjection
<1> QED BY <1>5, <1>6 DEF free

LEMMA PacketsType == \A m \in Nat : PacketsFor(m) \in 1 .. 2
BY ModType, WindowType DEF PacketsFor, Faces

\* The packets of an event on face e are no more than there are buffers.
LEMMA EventFits ==
  ASSUME NEW e \in Faces
  PROVE  /\ PacketsFor(e) <= Cardinality(Buffers)
         /\ IsCorner(e) =>
              PacketsFor(e + FACE_COUNT - 1) + PacketsFor(e + FACE_COUNT)
                + PacketsFor(e + FACE_COUNT + 1) <= Cardinality(Buffers)
<1>1. Cardinality(Buffers) \in Nat
  BY BuffersAssumption, FS_CardinalityType
<1>2. (e + FACE_COUNT) % FACE_COUNT = e /\ e % FACE_COUNT = e
  BY WorkloadAssumption DEF Faces
<1>3. PacketsFor(e + FACE_COUNT) = PacketsFor(e)
  BY <1>2 DEF PacketsFor
<1>4. \A f \in Faces : IsCorner(f) =>
         PacketsFor(f + FACE_COUNT - 1) + PacketsFor(f) + PacketsFor(f + FACE_COUNT + 1)
           <= Cardinality(Buffers)
  BY WorkloadAssumption DEF Faces
<1>5. 1 \in Faces /\ IsCorner(1)
  BY WorkloadAssumption DEF Faces, IsCorner
<1>6. /\ PacketsFor(1 + FACE_COUNT - 1) \in 1 .. 2 /\ PacketsFor(1) \in 1 .. 2
      /\ PacketsFor(1 + FACE_COUNT + 1) \in 1 .. 2 /\ PacketsFor(e) \in 1 .. 2
  <2>1. /\ 1 + FACE_COUNT - 1 \in Nat /\ 1 \in Nat /\ 1 + FACE_COUNT + 1 \in Nat /\ e \in Nat
    BY WorkloadAssumption DEF Faces
  <2> QED BY <2>1, PacketsType
<1>7. Cardinality(Buffers) >= 3
  BY <1>1, <1>4, <1>5, <1>6
<1> QED BY <1>1, <1>3, <1>4, <1>6, <1>7

(***************************************************************************)
(* The invariant is inductive: one lemma for each statement of the sketch. *)
(***************************************************************************)

\* A step that changes no queue, no link and no buffer.
LEMMA OwnedStays ==
  ASSUME NEW s, Owned(s), UNCHANGED <<queue, nx, uninit>>
  PROVE  Owned(s)'
BY DEF Owned

Freed(s, pb) == [s EXCEPT ![FreeList] = Append(s[FreeList], pb)]

\* Buffer pb is the one that initPackets comes to.
Frees(pb) ==
  /\ queue' = [queue EXCEPT ![FreeList] = InsertQueue(@, pb, length[pb])]
  /\ nx' = InsertLinks(queue[FreeList], nx, pb)
  /\ uninit' = uninit \ {pb}
  /\ length' = length

LEMMA InitPacketInv ==
  ASSUME TypeOK, NEW s, Owned(s), InLoop(s), InitPacket
  PROVE  \E pb \in uninit : /\ Frees(pb)
                           /\ Freed(s, pb) \in [Queues -> Seq(Buffers)]
                           /\ Owned(Freed(s, pb))' /\ InLoop(Freed(s, pb))'
<1>1. PICK pb \in uninit :
        /\ queue' = [queue EXCEPT ![FreeList] = InsertQueue(@, pb, length[pb])]
        /\ nx' = InsertLinks(queue[FreeList], nx, pb)
        /\ uninit' = uninit \ {pb}
        /\ pc' = IF uninit = {pb} THEN "inbound" ELSE pc
        /\ length' = length
  BY DEF InitPacket
<1> DEFINE a == Append(s[FreeList], pb)
           t == [s EXCEPT ![FreeList] = a]
<1>2. /\ s \in [Queues -> Seq(Buffers)] /\ OncePlaced(s) /\ pb \in Buffers
      /\ queue \in [Queues -> Queue] /\ nx \in [Buffers -> Link]
      /\ s[FreeList] \in Seq(Buffers) /\ FreeList \in Queues
      /\ \A q \in Queues : Len(s[q]) \in Nat
  BY QueueNames DEF Owned, TypeOK
<1>3. /\ a \in Seq(Buffers) /\ Len(a) = Len(s[FreeList]) + 1
      /\ \A i \in 1 .. Len(s[FreeList]) : a[i] = s[FreeList][i]
      /\ a[Len(s[FreeList]) + 1] = pb
  BY <1>2
<1>4. \A q \in Queues : \A i \in 1 .. Len(s[q]) : s[q][i] # pb
  BY DEF Owned
<1>5. /\ \A q \in Queues : NoRepeat(s[q])
      /\ \A q, r \in Queues : q # r => Apart(s[q], s[r])
  BY <1>2, PlacedApart
<1>6. \A q \in Queues : Holds(queue[q], nx, s[q])
  BY DEF Owned
<1>7. Holds(InsertQueue(queue[FreeList], pb, length[pb]), nx', a)
  BY <1>1, <1>2, <1>4, <1>5, <1>6, InsertHolds
<1>8. \A q \in Queues \ {FreeList} : Holds(queue[q], nx', s[q])
  <2> TAKE q \in Queues \ {FreeList}
  <2>1. /\ queue[FreeList] \in Queue /\ s[q] \in Seq(Buffers)
        /\ Holds(queue[FreeList], nx, s[FreeList]) /\ Holds(queue[q], nx, s[q])
        /\ Apart(s[FreeList], s[q])
        /\ \A i \in 1 .. Len(s[q]) : s[q][i] # pb
    BY <1>2, <1>4, <1>5, <1>6
  <2> QED BY <2>1, <1>1, <1>2, InsertElsewhere
<1> HIDE DEF a
<1>9. /\ t \in [Queues -> Seq(Buffers)] /\ t[FreeList] = a
      /\ \A q \in Queues \ {FreeList} : t[q] = s[q]
      /\ queue'[FreeList] = InsertQueue(queue[FreeList], pb, length[pb])
      /\ \A q \in Queues \ {FreeList} : queue'[q] = queue[q]
  BY <1>1, <1>2, <1>3
<1> HIDE DEF t
<1>10. \A q \in Queues : Holds(queue'[q], nx', t[q])
  BY <1>7, <1>8, <1>9
<1>11. OncePlaced(t)
  <2> SUFFICES ASSUME NEW q \in Queues, NEW r \in Queues,
                      NEW i \in 1 .. Len(t[q]), NEW j \in 1 .. Len(t[r]),
                      t[q][i] = t[r][j]
               PROVE  q = r /\ i = j
    BY DEF OncePlaced
  <2>1. \A p \in Queues : \A k \in 1 .. Len(t[p]) :
          \/ p = FreeList /\ k = Len(s[FreeList]) + 1 /\ t[p][k] = pb
          \/ k \in 1 .. Len(s[p]) /\ t[p][k] = s[p][k] /\ t[p][k] # pb
    <3> TAKE p \in Queues
    <3> TAKE k \in 1 .. Len(t[p])
    <3>1. CASE p = FreeList /\ k = Len(s[FreeList]) + 1
      BY <3>1, <1>3, <1>9
    <3>2. CASE p = FreeList /\ k # Len(s[FreeList]) + 1
      <4>1. t[p] = a /\ Len(s[FreeList]) \in Nat /\ Len(a) = Len(s[FreeList]) + 1
        BY <3>2, <1>2, <1>3, <1>9
      <4>2. k \in 1 .. Len(s[FreeList])
        BY <3>2, <4>1
      <4> QED BY <3>2, <4>1, <4>2, <1>2, <1>3, <1>4
    <3>3. CASE p # FreeList
      <4>1. t[p] = s[p]
        BY <3>3, <1>9
      <4> QED BY <3>3, <4>1, <1>4
    <3> QED BY <3>1, <3>2, <3>3
  <2>2. \/ q = FreeList /\ i = Len(s[FreeList]) + 1 /\ t[q][i] = pb
        \/ i \in 1 .. Len(s[q]) /\ t[q][i] = s[q][i] /\ t[q][i] # pb
    BY <2>1
  <2>3. \/ r = FreeList /\ j = Len(s[FreeList]) + 1 /\ t[r][j] = pb
        \/ j \in 1 .. Len(s[r]) /\ t[r][j] = s[r][j] /\ t[r][j] # pb
    BY <2>1
  <2> QED BY <2>2, <2>3, <1>2 DEF OncePlaced
<1>12. \A b \in Buffers \ uninit' : \E q \in Queues : \E i \in 1 .. Len(t[q]) : t[q][i] = b
  <2> TAKE b \in Buffers \ uninit'
  <2>1. CASE b = pb
    <3>1. t[FreeList][Len(s[FreeList]) + 1] = b
          /\ Len(s[FreeList]) + 1 \in 1 .. Len(t[FreeList])
      BY <2>1, <1>2, <1>3, <1>9
    <3> QED BY <3>1, <1>2
  <2>2. CASE b # pb
    <3>1. PICK q \in Queues : \E i \in 1 .. Len(s[q]) : s[q][i] = b
      BY <2>2, <1>1 DEF Owned
    <3>2. \A i \in 1 .. Len(s[q]) : i \in 1 .. Len(t[q]) /\ t[q][i] = s[q][i]
      <4>1. CASE q = FreeList
        BY <4>1, <1>2, <1>3, <1>9
      <4>2. CASE q # FreeList
        BY <4>2, <1>9
      <4> QED BY <4>1, <4>2
    <3> QED BY <3>1, <3>2
  <2> QED BY <2>1, <2>2
<1>13. \A q \in Queues : \A i \in 1 .. Len(t[q]) : t[q][i] \notin uninit'
  <2> TAKE q \in Queues
  <2> TAKE i \in 1 .. Len(t[q])
  <2>1. CASE q = FreeList /\ i = Len(s[FreeList]) + 1
    BY <2>1, <1>1, <1>3, <1>9
  <2>2. CASE ~(q = FreeList /\ i = Len(s[FreeList]) + 1)
    <3>1. i \in 1 .. Len(s[q]) /\ t[q][i] = s[q][i]
      <4>1. CASE q = FreeList
        <5>1. t[q] = a /\ Len(s[FreeList]) \in Nat /\ Len(a) = Len(s[FreeList]) + 1
          BY <4>1, <1>2, <1>3, <1>9
        <5>2. i \in 1 .. Len(s[FreeList])
          BY <2>2, <4>1, <5>1
        <5> QED BY <4>1, <5>1, <5>2, <1>3
      <4>2. CASE q # FreeList
        BY <4>2, <1>9
      <4> QED BY <4>1, <4>2
    <3> QED BY <3>1, <1>1 DEF Owned
  <2> QED BY <2>1, <2>2
<1>14. Owned(t)'
  BY <1>9, <1>10, <1>11, <1>12, <1>13 DEF Owned, OncePlaced
<1>15. InLoop(t)'
  <2>1. InitShape(s) /\ face' = 0 /\ pc = "init"
    BY DEF InLoop, InitPacket, InitShape
  <2>2. \A f \in Faces : t[In(f)] = << >> /\ t[Out(f)] = << >>
    BY <2>1, <1>9, QueueNames DEF InitShape
  <2>3. CASE uninit = {pb}
    <3>1. pc' = "inbound" /\ uninit' = {}
      BY <2>3, <1>1
    <3>2. Len(<< >>) = 0
      OBVIOUS
    <3> QED BY <2>1, <2>2, <3>1, <3>2 DEF InLoop, InboundShape
  <2>4. CASE uninit # {pb}
    <3>1. pc' = "init" /\ uninit' # {}
      BY <2>1, <2>4, <1>1
    <3> QED BY <2>1, <2>2, <3>1 DEF InLoop, InitShape
  <2> QED BY <2>3, <2>4
<1>16. t = Freed(s, pb)
  BY DEF Freed, t, a
<1> QED BY <1>1, <1>9, <1>14, <1>15, <1>16 DEF Frees

\* One round of the loop over inbound queues has left the queue of face empty.
LEMMA InboundRound ==
  ASSUME TypeOK, NEW s, NEW t, pc = "inbound", InLoop(s), NextFace("outbound"),
         uninit' = uninit, t[In(face)] = << >>,
         \A f \in Faces : /\ f # face => t[In(f)] = s[In(f)]
                          /\ t[Out(f)] = s[Out(f)]
  PROVE  InLoop(t)'
<1>1. InboundShape(s) /\ uninit' = {}
  BY DEF InLoop
<1>2. Len(<< >>) = 0 /\ face \in Faces /\ \A f \in Faces : f \in Int
  BY DEF Faces, TypeOK
<1>3. \A f \in Faces : /\ Len(t[In(f)]) <= 1
                       /\ Len(t[Out(f)]) <= 1
                       /\ f < face + 1 => t[In(f)] = << >>
  BY <1>1, <1>2 DEF InboundShape, Faces
<1>4. CASE face + 1 < FACE_COUNT
  <2>1. pc' = "inbound" /\ face' = face + 1
    BY <1>4 DEF NextFace
  <2> QED BY <2>1, <1>1, <1>3 DEF InLoop, InboundShape
<1>5. CASE ~(face + 1 < FACE_COUNT)
  <2>1. pc' = "outbound" /\ face' = 0
    BY <1>5 DEF NextFace
  <2>2. \A f \in Faces : f < face + 1
    BY <1>5, <1>2, WorkloadAssumption DEF Faces
  <2> QED BY <2>1, <2>2, <1>1, <1>3 DEF InLoop, OutboundShape
<1> QED BY <1>4, <1>5

LEMMA NoInboundInv ==
  ASSUME TypeOK, NEW s, Owned(s), InLoop(s), NoInbound
  PROVE  Owned(s)' /\ InLoop(s)'
<1>1. pc = "inbound" /\ IsEmpty(queue[In(face)]) /\ NextFace("outbound")
      /\ UNCHANGED <<queue, nx, uninit>>
  BY DEF NoInbound
<1>2. In(face) \in Queues
  BY QueueNames DEF TypeOK
<1>3. s[In(face)] = << >>
  BY <1>1, <1>2, EmptyIff
<1> QED BY <1>1, <1>3, OwnedStays, InboundRound

LEMMA ProcessInboundInv ==
  ASSUME TypeOK, NEW s, Owned(s), InLoop(s), ProcessInbound
  PROVE  \E t \in [Queues -> Seq(Buffers)] : Owned(t)' /\ InLoop(t)'
<1>1. pc = "inbound" /\ ~IsEmpty(queue[In(face)]) /\ NextFace("outbound")
      /\ Move(In(face), FreeList, length[queue[In(face)].first]) /\ uninit' = uninit
  BY DEF ProcessInbound
<1>2. PICK g \in Faces : g = face
  BY DEF TypeOK
<1> DEFINE t == Moved(s, In(g), FreeList)
<1>3. In(g) \in Queues /\ FreeList \in Queues /\ In(g) # FreeList
  BY QueueNames
<1>4. s[In(g)] # << >>
  BY <1>1, <1>2, <1>3, EmptyIff
<1>5. Owned(t)'
  <2>1. PICK len : len = length[queue[In(g)].first]
    OBVIOUS
  <2>2. Move(In(g), FreeList, len) /\ uninit' = uninit
    BY <1>1, <1>2, <2>1
  <2> QED BY <1>3, <1>4, <2>2, MoveOwned
<1>6. s \in [Queues -> Seq(Buffers)]
  BY DEF Owned
<1>7. /\ t \in [Queues -> Seq(Buffers)]
      /\ \A q \in Queues : q # In(g) /\ q # FreeList => t[q] = s[q]
      /\ Len(t[In(g)]) = Len(s[In(g)]) - 1
      /\ Len(s[In(g)]) \in Nat /\ Len(s[In(g)]) >= 1
  BY <1>3, <1>4, <1>6, MovedPlaces
<1> HIDE DEF t
<1>8. Len(s[In(g)]) <= 1
  BY <1>1 DEF InLoop, InboundShape
<1>9. Len(t[In(g)]) = 0 /\ t[In(g)] \in Seq(Buffers)
  <2>1. t[In(g)] \in Seq(Buffers)
    BY <1>3, <1>7
  <2>2. Len(t[In(g)]) = 0
    BY <1>3, <1>6, <1>7, <1>8
  <2> QED BY <2>1, <2>2
<1>10. t[In(g)] = << >>
  BY <1>9, EmptyIffNoLen
<1>11. \A f \in Faces : /\ f # g => t[In(f)] = s[In(f)]
                        /\ t[Out(f)] = s[Out(f)]
  BY <1>3, <1>7, QueueNames
<1>12. InLoop(t)'
  BY <1>1, <1>2, <1>10, <1>11, InboundRound
<1> QED BY <1>5, <1>7, <1>12

LEMMA BlockedInv ==
  ASSUME TypeOK, NEW s, Owned(s), InLoop(s), Blocked
  PROVE  Owned(s)' /\ InLoop(s)'
<1>1. pc = "outbound" /\ pc' = "supply" /\ face' = face
      /\ UNCHANGED <<queue, nx, uninit>>
  BY DEF Blocked
<1>2. OutboundShape(s) /\ uninit' = {}
  BY <1>1 DEF InLoop
<1>3. \A f \in Faces : s[Out(f)] \in Seq(Buffers)
  BY QueueNames DEF Owned
<1>4. \A f \in Faces : Len(s[Out(f)]) <= 2 /\ Len(s[In(f)]) <= 1
  <2>1. Len(<< >>) = 0
    OBVIOUS
  <2>2. \A f \in Faces : Len(s[Out(f)]) \in Nat
    BY <1>3
  <2> QED BY <2>1, <2>2, <1>2 DEF OutboundShape
<1>5. SupplyShape(s)'
  BY <1>1, <1>2, <1>4 DEF OutboundShape, SupplyShape
<1> QED BY <1>1, <1>2, <1>5, OwnedStays DEF InLoop

LEMMA StartEventInv ==
  ASSUME TypeOK, NEW s, Owned(s), InLoop(s), StartEvent
  PROVE  Owned(s)' /\ InLoop(s)'
<1>1. pc = "outbound" /\ pc' = "ship" /\ face' = face
      /\ UNCHANGED <<queue, nx, uninit>>
      /\ \A f \in Faces : IsEmpty(queue[Out(f)])
      /\ wordCount' = WindowWords(fm' % FACE_COUNT)
  BY DEF StartEvent, event
<1>2. OutboundShape(s) /\ uninit' = {} /\ uninit = {}
  BY <1>1 DEF InLoop
<1>3. \A f \in Faces : s[In(f)] = << >> /\ s[Out(f)] = << >>
  BY <1>1, <1>2, EmptyIff, QueueNames DEF OutboundShape
<1>4. PICK e \in Faces :
        /\ fm' = IF IsCorner(e) THEN e + FACE_COUNT - 1 ELSE e
        /\ lastFaceM' = IF IsCorner(e) THEN e + FACE_COUNT + 1 ELSE e
  BY DEF StartEvent
<1>5. Cardinality(Buffers) <= Len(s[FreeList])
  BY <1>2, <1>3, WholePool
<1>6. Cardinality(Buffers) \in Nat /\ Len(s[FreeList]) \in Nat
  <2>1. s[FreeList] \in Seq(Buffers)
    BY QueueNames DEF Owned
  <2> QED BY <2>1, BuffersAssumption, FS_CardinalityType
<1>7. /\ Packets(wordCount') = PacketsFor(fm') /\ fm' \in Nat /\ lastFaceM' \in Nat /\ e \in Nat
      /\ FACE_COUNT \in Nat
      /\ FACE_COUNT >= 3
  BY <1>1, <1>4, WorkloadAssumption DEF PacketsFor, Faces
<1>8. /\ fm' <= lastFaceM' /\ lastFaceM' <= fm' + 2
      /\ Due' <= Len(s[FreeList])
  <2>1. CASE IsCorner(e)
    <3>1. fm' = e + FACE_COUNT - 1 /\ lastFaceM' = e + FACE_COUNT + 1
          /\ fm' + 1 = e + FACE_COUNT /\ fm' + 2 = e + FACE_COUNT + 1
      BY <2>1, <1>4, <1>7
    <3>2. Due' = PacketsFor(e + FACE_COUNT - 1) + PacketsFor(e + FACE_COUNT)
                   + PacketsFor(e + FACE_COUNT + 1)
      BY <3>1, <1>7 DEF Due
    <3> QED BY <2>1, <3>1, <3>2, <1>5, <1>6, <1>7, EventFits, PacketsType
  <2>2. CASE ~IsCorner(e)
    <3>1. fm' = e /\ lastFaceM' = e
      BY <2>2, <1>4
    <3>2. Due' = PacketsFor(e) /\ PacketsFor(e) \in 1 .. 2
      BY <3>1, <1>7, PacketsType DEF Due
    <3> QED BY <3>1, <3>2, <1>5, <1>6, <1>7, EventFits
  <2> QED BY <2>1, <2>2
<1>9. fm' % FACE_COUNT \in Faces /\ \A m \in fm' + 1 .. lastFaceM' : m % FACE_COUNT \in Faces
  <2>1. \A i, j \in Nat : \A m \in i + 1 .. j : m \in Nat
    OBVIOUS
  <2> QED BY <2>1, <1>7, ModType
<1>10. wordCount' > 0 /\ Packets(wordCount') \in 1 .. 2
  <2>1. fm' % FACE_COUNT \in Int
    BY <1>9 DEF Faces
  <2>2. /\ wordCount' \in 1 .. 2 * PACKET_MAX_WORDS
        /\ Packets(wordCount') \in 1 .. 2
    BY <2>1, <1>1, WindowType
  <2> QED BY <2>2
<1>11. Len(<< >>) = 0
  OBVIOUS
<1>12. ShipShape(s)'
  <2>1. \A f \in Faces : s[In(f)] = << >> /\ Len(s[Out(f)]) <= 2
    BY <1>3, <1>11
  <2>2. Len(s[Out(fm' % FACE_COUNT)]) + Packets(wordCount') <= 2
    BY <1>3, <1>9, <1>10, <1>11
  <2>3. \A m \in fm' + 1 .. lastFaceM' : s[Out(m % FACE_COUNT)] = << >>
    BY <1>3, <1>9
  <2>4. face' = 0
    BY <1>1, <1>2 DEF OutboundShape
  <2> QED BY <1>8, <1>10, <2>1, <2>2, <2>3, <2>4 DEF ShipShape
<1> QED BY <1>1, <1>2, <1>12, OwnedStays DEF InLoop

LEMMA ShipPacketInv ==
  ASSUME TypeOK, NEW s, Owned(s), InLoop(s), ShipPacket
  PROVE  \E t \in [Queues -> Seq(Buffers)] : Owned(t)' /\ InLoop(t)'
<1> DEFINE plen == IF wordCount > PACKET_MAX_WORDS THEN PACKET_MAX_WORDS ELSE wordCount
           rest == wordCount - plen
<1>1. /\ pc = "ship" /\ ~IsEmpty(queue[FreeList]) /\ uninit' = uninit /\ face' = face
      /\ Move(FreeList, Out(fm % FACE_COUNT), rest)
  BY DEF ShipPacket, NextPacket
<1>2. /\ fm \in Nat /\ lastFaceM \in Nat /\ wordCount \in Nat
      /\ wordCount <= 2 * PACKET_MAX_WORDS
      /\ PACKET_MAX_WORDS \in Nat /\ PACKET_MAX_WORDS > 0
  BY WorkloadAssumption DEF TypeOK
<1>3. PICK g \in Faces : g = fm % FACE_COUNT
  BY <1>2, ModType
<1> DEFINE t == Moved(s, FreeList, Out(g))
<1>4. Out(g) \in Queues /\ FreeList \in Queues /\ Out(g) # FreeList
  BY QueueNames
<1>5. s[FreeList] # << >>
  BY <1>1, <1>4, EmptyIff
<1>6. Owned(t)'
  <2>1. PICK len : len = rest
    OBVIOUS
  <2>2. Move(FreeList, Out(g), len) /\ uninit' = uninit
    BY <1>1, <1>3, <2>1
  <2> QED BY <1>4, <1>5, <2>2, MoveOwned
<1>7. s \in [Queues -> Seq(Buffers)]
  BY DEF Owned
<1>8. /\ t \in [Queues -> Seq(Buffers)]
      /\ \A q \in Queues : q # FreeList /\ q # Out(g) => t[q] = s[q]
      /\ Len(t[FreeList]) = Len(s[FreeList]) - 1
      /\ Len(t[Out(g)]) = Len(s[Out(g)]) + 1
      /\ \A q \in Queues : Len(s[q]) \in Nat /\ Len(t[q]) \in Nat
  BY <1>4, <1>5, <1>7, MovedPlaces
<1> HIDE DEF t
<1>9. ShipShape(s) /\ uninit' = {} /\ face' = 0
  BY <1>1 DEF InLoop, ShipShape
<1>10. /\ fm <= lastFaceM /\ lastFaceM <= fm + 2 /\ wordCount > 0
       /\ Due <= Len(s[FreeList])
       /\ Len(s[Out(g)]) + Packets(wordCount) <= 2
       /\ \A m \in fm + 1 .. lastFaceM : s[Out(m % FACE_COUNT)] = << >>
       /\ \A f \in Faces : s[In(f)] = << >> /\ Len(s[Out(f)]) <= 2
  BY <1>3, <1>9 DEF ShipShape
<1>11. \A m \in fm + 1 .. lastFaceM :
         /\ m % FACE_COUNT \in Faces
         /\ t[Out(m % FACE_COUNT)] = << >>
         /\ Len(t[Out(m % FACE_COUNT)]) = 0
  <2> TAKE m \in fm + 1 .. lastFaceM
  <2>1. m \in Nat /\ m - fm \in 1 .. 2 /\ m = fm + (m - fm)
    BY <1>2, <1>10
  <2>2. m % FACE_COUNT # g
    BY <2>1, <1>2, <1>3, DifferentFaces
  <2>3. m % FACE_COUNT \in Faces
    BY <2>1, ModType
  <2>4. /\ Out(m % FACE_COUNT) \in Queues
        /\ Out(m % FACE_COUNT) # FreeList
        /\ Out(m % FACE_COUNT) # Out(g)
    BY <2>2, <2>3, QueueNames
  <2>5. t[Out(m % FACE_COUNT)] = << >>
    BY <1>8, <1>10, <2>4
  <2>6. Len(<< >>) = 0
    OBVIOUS
  <2> QED BY <2>3, <2>5, <2>6
<1>12. Packets(wordCount) \in 1 .. 2
  BY DEF Packets
<1>13. \A f \in Faces : t[In(f)] = << >> /\ Len(t[Out(f)]) <= 2
  <2> TAKE f \in Faces
  <2>1. /\ In(f) \in Queues /\ In(f) # FreeList /\ In(f) # Out(g)
        /\ Out(f) \in Queues /\ Out(f) # FreeList
    BY QueueNames
  <2>2. t[In(f)] = << >>
    BY <1>8, <1>10, <2>1
  <2>3. Len(s[Out(f)]) <= 2 /\ Len(s[Out(g)]) <= 1
    BY <1>4, <1>8, <1>10, <1>12
  <2>4. Len(t[Out(f)]) <= 2
    <3>1. CASE Out(f) = Out(g)
      BY <3>1, <2>3, <1>4, <1>8
    <3>2. CASE Out(f) # Out(g)
      BY <3>2, <2>1, <2>3, <1>8
    <3> QED BY <3>1, <3>2
  <2> QED BY <2>2, <2>4
<1>14. CASE rest > 0
  <2>1. pc' = "ship" /\ fm' = fm /\ lastFaceM' = lastFaceM /\ wordCount' = rest
    BY <1>1, <1>14 DEF ShipPacket, NextPacket
  <2>2. wordCount > PACKET_MAX_WORDS /\ rest <= PACKET_MAX_WORDS
    BY <1>2, <1>14
  <2>3. Packets(wordCount) = 2 /\ Packets(rest) = 1
    BY <2>2, <1>2 DEF Packets
  <2>4. Due \in Int /\ Due' = Due - 1
    <3>1. PacketsFor(fm + 1) \in Int /\ PacketsFor(fm + 2) \in Int
      BY <1>2, PacketsType
    <3> HIDE DEF rest
    <3> QED BY <3>1, <2>1, <2>3 DEF Due
  <2>5. Due' <= Len(t[FreeList])
    BY <2>4, <1>4, <1>7, <1>8, <1>10
  <2>6. Len(t[Out(g)]) + Packets(rest) <= 2
    BY <2>3, <1>4, <1>7, <1>8, <1>10
  <2>7. ShipShape(t)'
    <3> HIDE DEF rest
    <3>1. Len(t[Out(fm' % FACE_COUNT)]) + Packets(wordCount') <= 2
      BY <2>1, <2>6, <1>3
    <3>2. \A m \in fm' + 1 .. lastFaceM' : t[Out(m % FACE_COUNT)] = << >>
      BY <2>1, <1>11
    <3>3. fm' <= lastFaceM' /\ lastFaceM' <= fm' + 2 /\ wordCount' > 0
      BY <2>1, <1>10, <1>14
    <3> QED BY <3>1, <3>2, <3>3, <2>5, <1>9, <1>13 DEF ShipShape
  <2>8. InLoop(t)'
    BY <2>1, <2>7, <1>9 DEF InLoop
  <2> QED BY <2>8, <1>6, <1>8
<1>15. CASE ~(rest > 0) /\ fm < lastFaceM
  <2>1. /\ pc' = "ship" /\ fm' = fm + 1 /\ lastFaceM' = lastFaceM
        /\ wordCount' = WindowWords((fm + 1) % FACE_COUNT)
    BY <1>1, <1>15 DEF ShipPacket, NextPacket
  <2>2. Packets(wordCount) = 1
    BY <1>2, <1>15 DEF Packets
  <2>3. /\ fm + 1 \in Nat /\ (fm + 1) % FACE_COUNT \in Int
        /\ Packets(wordCount') = PacketsFor(fm + 1)
        /\ wordCount' \in 1 .. 2 * PACKET_MAX_WORDS
    <3>1. fm + 1 \in Nat /\ (fm + 1) % FACE_COUNT \in Int
      BY <1>2, ModType DEF Faces
    <3> QED BY <3>1, <2>1, WindowType DEF PacketsFor
  <2>4. Due \in Int /\ Due' = Due - 1
    <3>1. PacketsFor(fm + 1) \in Int /\ PacketsFor(fm + 2) \in Int
      BY <1>2, PacketsType
    <3>2. Due' = PacketsFor(fm + 1) + (IF fm + 1 < lastFaceM THEN PacketsFor(fm + 2) ELSE 0)
      <4>1. ~(fm' + 1 < lastFaceM') \/ fm + 1 < lastFaceM
        BY <2>1, <1>2
      <4>2. ~(fm' + 1 < lastFaceM')
        BY <2>1, <1>2, <1>10
      <4>3. fm' + 1 = fm + 2 /\ (fm' < lastFaceM' <=> fm + 1 < lastFaceM)
        BY <2>1, <1>2
      <4> QED BY <4>2, <4>3, <2>3, <3>1 DEF Due
    <3>3. Due = 1 + PacketsFor(fm + 1) + (IF fm + 1 < lastFaceM THEN PacketsFor(fm + 2) ELSE 0)
      BY <2>2, <1>15, <3>1 DEF Due
    <3> QED BY <3>1, <3>2, <3>3
  <2>5. Due' <= Len(t[FreeList])
    BY <2>4, <1>4, <1>7, <1>8, <1>10
  <2>6. ShipShape(t)'
    <3>1. fm + 1 \in fm + 1 .. lastFaceM
      BY <1>2, <1>15
    <3>2. PacketsFor(fm + 1) \in 1 .. 2 /\ Len(t[Out((fm + 1) % FACE_COUNT)]) = 0
      BY <3>1, <2>3, <1>11, PacketsType
    <3>3. Len(t[Out(fm' % FACE_COUNT)]) + Packets(wordCount') <= 2
      BY <3>2, <2>1, <2>3
    <3>4. \A m \in fm' + 1 .. lastFaceM' : m \in fm + 1 .. lastFaceM
      BY <2>1, <1>2
    <3>5. \A m \in fm' + 1 .. lastFaceM' : t[Out(m % FACE_COUNT)] = << >>
      BY <3>4, <1>11
    <3>6. fm' <= lastFaceM' /\ lastFaceM' <= fm' + 2 /\ wordCount' > 0
      BY <2>1, <2>3, <1>2, <1>10, <1>15
    <3> QED BY <3>3, <3>5, <3>6, <2>5, <1>9, <1>13 DEF ShipShape
  <2>7. InLoop(t)'
    BY <2>1, <2>6, <1>9 DEF InLoop
  <2> QED BY <2>7, <1>6, <1>8
<1>16. CASE ~(rest > 0) /\ ~(fm < lastFaceM)
  <2>1. pc' = "supply"
    BY <1>1, <1>16 DEF ShipPacket, NextPacket
  <2>2. \A f \in Faces : ~(f < face')
    BY <1>9 DEF Faces
  <2>3. SupplyShape(t)'
    BY <2>2, <1>13 DEF SupplyShape
  <2>4. InLoop(t)'
    BY <2>1, <2>3, <1>9 DEF InLoop
  <2> QED BY <2>4, <1>6, <1>8
<1> QED BY <1>14, <1>15, <1>16

\* One round of the supply stub leaves one inbound and one outbound packet at most.
LEMMA SupplyRound ==
  ASSUME TypeOK, NEW s, NEW t, pc = "supply", InLoop(s), NextFace("inbound"),
         uninit' = uninit, Len(t[In(face)]) <= 1, Len(t[Out(face)]) <= 1,
         \A f \in Faces : f # face => t[In(f)] = s[In(f)] /\ t[Out(f)] = s[Out(f)]
  PROVE  InLoop(t)'
<1>1. SupplyShape(s) /\ uninit' = {}
  BY DEF InLoop
<1>2. Len(<< >>) = 0 /\ face \in Faces /\ \A f \in Faces : f \in Int
  BY DEF Faces, TypeOK
<1>3. \A f \in Faces : f < face + 1 => Len(t[In(f)]) <= 1 /\ Len(t[Out(f)]) <= 1
  BY <1>1, <1>2 DEF SupplyShape, Faces
<1>4. CASE face + 1 < FACE_COUNT
  <2>1. pc' = "supply" /\ face' = face + 1
    BY <1>4 DEF NextFace
  <2>2. \A f \in Faces : f >= face + 1 => t[In(f)] = << >> /\ Len(t[Out(f)]) <= 2
    BY <1>1, <1>2 DEF SupplyShape, Faces
  <2>3. \A f \in Faces : Len(t[Out(f)]) <= 2
    <3> TAKE f \in Faces
    <3>1. CASE f = face
      BY <3>1, <1>1 DEF SupplyShape
    <3>2. CASE f # face
      BY <3>2, <1>1 DEF SupplyShape
    <3> QED BY <3>1, <3>2
  <2> QED BY <2>1, <2>2, <2>3, <1>1, <1>3 DEF InLoop, SupplyShape
<1>5. CASE ~(face + 1 < FACE_COUNT)
  <2>1. pc' = "inbound" /\ face' = 0
    BY <1>5 DEF NextFace
  <2>2. \A f \in Faces : f < face + 1 /\ ~(f < 0)
    BY <1>5, <1>2, WorkloadAssumption DEF Faces
  <2> QED BY <2>1, <2>2, <1>1, <1>3 DEF InLoop, InboundShape
<1> QED BY <1>4, <1>5

LEMMA NothingToSupplyInv ==
  ASSUME TypeOK, NEW s, Owned(s), InLoop(s), NothingToSupply
  PROVE  Owned(s)' /\ InLoop(s)'
<1>1. pc = "supply" /\ IsEmpty(queue[Out(face)]) /\ NextFace("inbound")
      /\ UNCHANGED <<queue, nx, uninit>>
  BY DEF NothingToSupply
<1>2. face \in Faces /\ Out(face) \in Queues /\ face >= face
  BY QueueNames DEF TypeOK, Faces
<1>3. s[Out(face)] = << >>
  BY <1>1, <1>2, EmptyIff
<1>4. s[In(face)] = << >>
  BY <1>1, <1>2 DEF InLoop, SupplyShape
<1>5. Len(<< >>) = 0
  OBVIOUS
<1>6. Len(s[In(face)]) <= 1 /\ Len(s[Out(face)]) <= 1
  BY <1>3, <1>4, <1>5
<1> QED BY <1>1, <1>6, OwnedStays, SupplyRound

LEMMA SupplyOutboundInv ==
  ASSUME TypeOK, NEW s, Owned(s), InLoop(s), SupplyOutbound
  PROVE  \E t \in [Queues -> Seq(Buffers)] : Owned(t)' /\ InLoop(t)'
<1>1. pc = "supply" /\ ~IsEmpty(queue[Out(face)]) /\ NextFace("inbound")
      /\ Move(Out(face), In(face), length[queue[Out(face)].first]) /\ uninit' = uninit
  BY DEF SupplyOutbound
<1>2. PICK g \in Faces : g = face
  BY DEF TypeOK
<1> DEFINE t == Moved(s, Out(g), In(g))
<1>3. Out(g) \in Queues /\ In(g) \in Queues /\ Out(g) # In(g)
  BY QueueNames
<1>4. s[Out(g)] # << >>
  BY <1>1, <1>2, <1>3, EmptyIff
<1>5. Owned(t)'
  <2>1. PICK len : len = length[queue[Out(g)].first]
    OBVIOUS
  <2>2. Move(Out(g), In(g), len) /\ uninit' = uninit
    BY <1>1, <1>2, <2>1
  <2> QED BY <1>3, <1>4, <2>2, MoveOwned
<1>6. s \in [Queues -> Seq(Buffers)]
  BY DEF Owned
<1>7. /\ t \in [Queues -> Seq(Buffers)]
      /\ \A q \in Queues : q # Out(g) /\ q # In(g) => t[q] = s[q]
      /\ Len(t[Out(g)]) = Len(s[Out(g)]) - 1
      /\ Len(t[In(g)]) = Len(s[In(g)]) + 1
      /\ \A q \in Queues : Len(s[q]) \in Nat /\ Len(t[q]) \in Nat
  BY <1>3, <1>4, <1>6, MovedPlaces
<1> HIDE DEF t
<1>8. Len(s[Out(g)]) <= 2 /\ Len(s[In(g)]) = 0
  <2>1. g >= face /\ Len(<< >>) = 0
    BY <1>2 DEF Faces
  <2> QED BY <2>1, <1>1, <1>2 DEF InLoop, SupplyShape
<1>9. Len(t[Out(g)]) <= 1 /\ Len(t[In(g)]) <= 1
  BY <1>3, <1>7, <1>8
<1>10. \A f \in Faces : f # g => t[In(f)] = s[In(f)] /\ t[Out(f)] = s[Out(f)]
  BY <1>3, <1>7, QueueNames
<1>11. InLoop(t)'
  BY <1>1, <1>2, <1>9, <1>10, SupplyRound
<1> QED BY <1>5, <1>7, <1>11

(***************************************************************************)
(* No packet is longer than what was filled in, so none is counted as bad. *)
(***************************************************************************)
LEMMA MoveData ==
  ASSUME TypeOK, DataInv, NEW from \in Queues, NEW to \in Queues,
         ~IsEmpty(queue[from]), Move(from, to, length[queue[from].first])
  PROVE  length' = length
<1>1. length \in [Buffers -> 0 .. 255] /\ queue[from].first \in Buffers
  BY DEF TypeOK, Queue, Link, IsEmpty
<1>2. length' = [length EXCEPT ![queue[from].first] = length[queue[from].first]]
  BY DEF Move
<1> QED BY <1>1, <1>2

LEMMA NextData == ASSUME TypeOK, DataInv, [Next]_vars PROVE DataInv'
<1>1. face \in Faces /\ fm \in Nat /\ LongMod \in Nat \ {0}
  BY BuffersAssumption DEF TypeOK
<1>2. In(face) \in Queues /\ Out(face) \in Queues /\ FreeList \in Queues
  BY <1>1, QueueNames
<1>3. ASSUME UNCHANGED <<length, filled, badPackets, badWords>> PROVE DataInv'
  BY <1>3 DEF DataInv, NoBadData
<1>4. CASE InitPacket
  BY <1>3, <1>4 DEF InitPacket, bad
<1>5. CASE NoInbound
  BY <1>3, <1>5 DEF NoInbound, bad
<1>6. CASE ProcessInbound
  <2> DEFINE pb == queue[In(face)].first
  <2>1. ~IsEmpty(queue[In(face)]) /\ Move(In(face), FreeList, length[pb]) /\ filled' = filled
    BY <1>6 DEF ProcessInbound
  <2>2. length' = length
    BY <2>1, <1>2, MoveData
  <2>3. pb \in Buffers /\ length[pb] \in 0 .. 255 /\ filled[pb] \in 0 .. 255
        /\ length[pb] <= filled[pb] /\ badWords = 0 /\ badPackets = 0
    BY <2>1, <1>2 DEF TypeOK, Queue, Link, IsEmpty, DataInv, NoBadData
  <2>4. ~(length[pb] > filled[pb])
    <3> HIDE DEF pb
    <3>1. \A m, n \in 0 .. 255 : m <= n => ~(m > n)
      OBVIOUS
    <3> QED BY <2>3, <3>1, Zenon
  <2>5. badWords' = (0 + 0) % LongMod /\ badPackets' = 0
    BY <1>6, <2>3, <2>4 DEF ProcessInbound
  <2>6. badWords' = 0
    BY <2>5, <1>1
  <2> QED BY <2>1, <2>2, <2>5, <2>6 DEF DataInv, NoBadData
<1>7. CASE Blocked
  BY <1>3, <1>7 DEF Blocked, bad
<1>8. CASE StartEvent
  BY <1>3, <1>8 DEF StartEvent, bad
<1>9. CASE ShipPacket
  <2> DEFINE pb == queue[FreeList].first
             plen == IF wordCount > PACKET_MAX_WORDS THEN PACKET_MAX_WORDS ELSE wordCount
             rest == wordCount - plen
  <2>1. /\ length' = [length EXCEPT ![pb] = rest]
        /\ filled' = [filled EXCEPT ![pb] = IF @ < rest THEN rest ELSE @]
        /\ UNCHANGED <<badPackets, badWords>>
    BY <1>9 DEF ShipPacket, Move, bad
  <2>2. rest \in Int
    BY WorkloadAssumption DEF TypeOK
  <2> HIDE DEF rest, pb
  <2>3. length \in [Buffers -> 0 .. 255] /\ filled \in [Buffers -> 0 .. 255]
    BY DEF TypeOK
  <2>4. \A b \in Buffers : length'[b] <= filled'[b]
    <3> TAKE b \in Buffers
    <3>1. length[b] <= filled[b]
      BY DEF DataInv
    <3>2. CASE b = pb
      BY <2>1, <2>2, <2>3, <3>2
    <3>3. CASE b # pb
      BY <2>1, <2>3, <3>1, <3>3
    <3> QED BY <3>2, <3>3
  <2> QED BY <2>1, <2>4 DEF DataInv, NoBadData
<1>10. CASE NothingToSupply
  BY <1>3, <1>10 DEF NothingToSupply, bad
<1>11. CASE SupplyOutbound
  <2>1. /\ ~IsEmpty(queue[Out(face)])
        /\ Move(Out(face), In(face), length[queue[Out(face)].first])
        /\ UNCHANGED <<filled, badPackets, badWords>>
    BY <1>11 DEF SupplyOutbound, bad
  <2>2. length' = length
    BY <2>1, <1>2, MoveData
  <2> QED BY <1>3, <2>1, <2>2
<1>12. CASE UNCHANGED vars
  BY <1>3, <1>12 DEF vars
<1> QED BY <1>4, <1>5, <1>6, <1>7, <1>8, <1>9, <1>10, <1>11, <1>12 DEF Next

(***************************************************************************)
(* The invariant holds in every behaviour.                                 *)
(***************************************************************************)
LEMMA InitInv == ASSUME Init PROVE Inv
<1> DEFINE s == [q \in Queues |-> << >>]
<1>1. s \in [Queues -> Seq(Buffers)] /\ \A q \in Queues : s[q] = << >>
  OBVIOUS
<1> HIDE DEF s
<1>2. Len(<< >>) = 0
  OBVIOUS
<1>3. \A q \in Queues : Holds(queue[q], nx, s[q])
  <2> TAKE q \in Queues
  <2>1. queue[q].first = NULL /\ queue[q].last = NULL /\ s[q] = << >> /\ Len(s[q]) = 0
    BY <1>1, <1>2 DEF Init, EmptyQueue
  <2>2. \A i \in 1 .. Len(s[q]) - 1 : FALSE
    BY <2>1
  <2> QED BY <2>1, <2>2 DEF Holds
<1>4. \A q \in Queues : \A i \in 1 .. Len(s[q]) : FALSE
  BY <1>1, <1>2
<1>5. Owned(s)
  BY <1>1, <1>3, <1>4 DEF Owned, OncePlaced, Init
<1>6. Buffers # {}
  <2>1. PICK e \in Faces : e = 0
    BY WorkloadAssumption DEF Faces
  <2>2. PacketsFor(e) \in 1 .. 2 /\ PacketsFor(e) <= Cardinality(Buffers)
    BY <2>1, EventFits, PacketsType
  <2>3. Cardinality(Buffers) \in Nat /\ Cardinality(Buffers) # 0
    BY <2>2, BuffersAssumption, FS_CardinalityType
  <2> QED BY <2>3, FS_EmptySet
<1>7. InLoop(s)
  <2>1. pc = "init" /\ uninit # {} /\ face = 0
    BY <1>6 DEF Init
  <2>2. \A f \in Faces : s[In(f)] = << >> /\ s[Out(f)] = << >>
    BY <1>1, QueueNames
  <2> QED BY <2>1, <2>2 DEF InLoop, InitShape
<1>8. DataInv
  BY DEF Init, DataInv, NoBadData
<1> QED BY <1>1, <1>5, <1>7, <1>8, InitTypeOK DEF Inv

LEMMA NextInv == ASSUME Inv, [Next]_vars PROVE Inv'
<1>1. PICK s \in [Queues -> Seq(Buffers)] : Owned(s) /\ InLoop(s)
  BY DEF Inv
<1>2. TypeOK /\ DataInv
  BY DEF Inv
<1>3. TypeOK' /\ DataInv'
  BY <1>2, NextTypeOK, NextData
<1>4. \E t \in [Queues -> Seq(Buffers)] : Owned(t)' /\ InLoop(t)'
  <2>1. CASE InitPacket
    <3>1. PICK pb \in uninit : /\ Freed(s, pb) \in [Queues -> Seq(Buffers)]
                              /\ Owned(Freed(s, pb))' /\ InLoop(Freed(s, pb))'
      BY <2>1, <1>1, <1>2, InitPacketInv
    <3> QED BY <3>1
  <2>2. CASE NoInbound
    BY <2>2, <1>1, <1>2, NoInboundInv
  <2>3. CASE ProcessInbound
    BY <2>3, <1>1, <1>2, ProcessInboundInv
  <2>4. CASE Blocked
    BY <2>4, <1>1, <1>2, BlockedInv
  <2>5. CASE StartEvent
    BY <2>5, <1>1, <1>2, StartEventInv
  <2>6. CASE ShipPacket
    BY <2>6, <1>1, <1>2, ShipPacketInv
  <2>7. CASE NothingToSupply
    BY <2>7, <1>1, <1>2, NothingToSupplyInv
  <2>8. CASE SupplyOutbound
    BY <2>8, <1>1, <1>2, SupplyOutboundInv
  <2>9. CASE UNCHANGED vars
    <3>1. Owned(s)'
      BY <2>9, <1>1 DEF vars, Owned
    <3>2. InLoop(s)'
      BY <2>9, <1>1 DEF vars, InLoop, InitShape, InboundShape, OutboundShape,
                       ShipShape, SupplyShape, Due
    <3> QED BY <1>1, <3>1, <3>2
  <2> QED BY <2>1, <2>2, <2>3, <2>4, <2>5, <2>6, <2>7, <2>8, <2>9 DEF Next
<1>5. PICK t \in [Queues -> Seq(Buffers)] : Owned(t)' /\ InLoop(t)'
  BY <1>4
<1>6. t \in [Queues' -> Seq(Buffers')]
  BY <1>5 DEF Queues
<1> QED BY <1>3, <1>5 DEF Inv

\* The linked lists always are queues that share the buffers out among them.
THEOREM Invariance == Spec => []Inv
<1>1. Init => Inv
  BY InitInv
<1>2. Inv /\ [Next]_vars => Inv'
  BY NextInv
<1> QED BY <1>1, <1>2, PTL DEF Spec

(***************************************************************************)
(* newPacketBuffer never returns the null pointer that eventProcessing     *)
(* does not test for, whatever the number of buffers from 6 packets' worth *)
(* up, and whatever the sizes of packets and windows.                      *)
(***************************************************************************)
THEOREM NoNullBuffer == Spec => []NeverNullBuffer
<1>1. Inv => NeverNullBuffer
  <2> SUFFICES ASSUME Inv, pc = "ship" PROVE ~IsEmpty(queue[FreeList])
    BY DEF NeverNullBuffer
  <2>1. PICK s \in [Queues -> Seq(Buffers)] : Owned(s) /\ InLoop(s)
    BY DEF Inv
  <2>2. Due <= Len(s[FreeList])
    BY <2>1 DEF InLoop, ShipShape
  <2>3. Due >= 1
    <3>1. fm + 1 \in Nat /\ fm + 2 \in Nat
      BY DEF Inv, TypeOK
    <3>2. PacketsFor(fm + 1) \in 1 .. 2 /\ PacketsFor(fm + 2) \in 1 .. 2
      BY <3>1, PacketsType
    <3>3. Packets(wordCount) \in 1 .. 2
      BY DEF Packets
    <3> QED BY <3>2, <3>3 DEF Due
  <2>4. FreeList \in Queues /\ Len(s[FreeList]) \in Nat /\ Len(<< >>) = 0
    BY QueueNames
  <2>5. Due \in Int
    <3>1. PacketsFor(fm + 1) \in Int /\ PacketsFor(fm + 2) \in Int
      BY PacketsType DEF Inv, TypeOK
    <3> QED BY <3>1 DEF Due, Packets
  <2>6. s[FreeList] # << >>
    BY <2>2, <2>3, <2>4, <2>5
  <2> QED BY <2>1, <2>4, <2>6, EmptyIff
<1> QED BY <1>1, Invariance, PTL

\* When an event starts and while it is shipped no inbound packet is left.
THEOREM QuietStart == Spec => []EventStartsQuiet
<1>1. Inv => EventStartsQuiet
  <2> SUFFICES ASSUME Inv, pc \in {"outbound", "ship"}, NEW f \in Faces
               PROVE  IsEmpty(queue[In(f)])
    BY DEF EventStartsQuiet
  <2>1. PICK s \in [Queues -> Seq(Buffers)] : Owned(s) /\ InLoop(s)
    BY DEF Inv
  <2>2. s[In(f)] = << >>
    BY <2>1 DEF InLoop, OutboundShape, ShipShape
  <2> QED BY <2>1, <2>2, QueueNames, EmptyIff
<1> QED BY <1>1, Invariance, PTL

\* No face ever holds more than one inbound and two outbound packets.
THEOREM FaceLimits == Spec => []ShortQueues
<1>1. Inv => ShortQueues
  <2> SUFFICES ASSUME Inv, NEW f \in Faces
               PROVE  /\ queue[In(f)].first = queue[In(f)].last
                      /\ \/ queue[Out(f)].first = queue[Out(f)].last
                         \/ nx[queue[Out(f)].first] = queue[Out(f)].last
    BY DEF ShortQueues
  <2>1. PICK s \in [Queues -> Seq(Buffers)] : Owned(s) /\ InLoop(s)
    BY DEF Inv
  <2>2. In(f) \in Queues /\ Out(f) \in Queues /\ s[In(f)] \in Seq(Buffers)
        /\ s[Out(f)] \in Seq(Buffers) /\ s \in [Queues -> Seq(Buffers)]
    BY QueueNames
  <2>3. Len(s[In(f)]) <= 1 /\ Len(s[Out(f)]) <= 2
    <3>1. Len(<< >>) = 0 /\ face \in Int /\ f \in Int
      BY DEF Inv, TypeOK, Faces
    <3>2. pc \in {"init", "inbound", "outbound", "ship", "supply"}
      BY DEF Inv, TypeOK
    <3>3. CASE pc = "init"
      BY <3>1, <3>3, <2>1 DEF InLoop, InitShape
    <3>4. CASE pc = "inbound"
      BY <2>2, <3>4, <2>1 DEF InLoop, InboundShape
    <3>5. CASE pc = "outbound"
      BY <2>2, <3>1, <3>5, <2>1 DEF InLoop, OutboundShape
    <3>6. CASE pc = "ship"
      BY <3>1, <3>6, <2>1 DEF InLoop, ShipShape
    <3>7. CASE pc = "supply"
      BY <3>1, <3>7, <2>1 DEF InLoop, SupplyShape
    <3> QED BY <3>2, <3>3, <3>4, <3>5, <3>6, <3>7
  <2>4. PICK i \in Seq(Buffers), m \in Nat : i = s[In(f)] /\ m = Len(i)
    BY <2>2
  <2>5. PICK o \in Seq(Buffers), n \in Nat : o = s[Out(f)] /\ n = Len(o)
    BY <2>2
  <2>6. Holds(queue[In(f)], nx, i) /\ Holds(queue[Out(f)], nx, o) /\ m <= 1 /\ n <= 2
    BY <2>1, <2>2, <2>3, <2>4, <2>5 DEF Owned
  <2>7. (i = << >> \/ m = 1) /\ (o = << >> \/ n = 1 \/ n = 2)
    <3>1. (i = << >> \/ m >= 1) /\ (o = << >> \/ n >= 1)
      BY <2>4, <2>5
    <3> QED BY <3>1, <2>6
  <2>8. queue[In(f)].first = queue[In(f)].last
    BY <2>4, <2>6, <2>7 DEF Holds
  <2>9. CASE o = << >> \/ n = 1
    BY <2>5, <2>6, <2>8, <2>9 DEF Holds
  <2>10. CASE o # << >> /\ n = 2
    <3>1. 1 \in 1 .. Len(o) - 1 /\ Len(o) = 1 + 1
      BY <2>5, <2>10
    <3> QED BY <3>1, <2>6, <2>8, <2>10 DEF Holds
  <2> QED BY <2>7, <2>9, <2>10
<1> QED BY <1>1, Invariance, PTL

\* The check of inbound packets never finds a packet or a word that is bad.
THEOREM DataIntact == Spec => []NoBadData
<1>1. Inv => NoBadData
  BY DEF Inv, DataInv
<1> QED BY <1>1, Invariance, PTL

-----------------------------------------------------------------------------
(***************************************************************************)
(* The lists as following the links finds them.                            *)
(***************************************************************************)
LEMMA ListsAre ==
  ASSUME NEW s, Owned(s)
  PROVE  Lists = s
<1>1. s \in [Queues -> Seq(Buffers)] /\ \A q \in Queues : NoRepeat(s[q])
  BY PlacedApart DEF Owned
<1>2. ASSUME NEW q \in Queues PROVE ListOf(queue[q], nx) = s[q]
  <2>1. s[q] \in Seq(Buffers) /\ NoRepeat(s[q]) /\ Holds(queue[q], nx, s[q])
    BY <1>1 DEF Owned
  <2> QED BY <2>1, HeldIsChained, ListIs
<1> QED BY <1>1, <1>2 DEF Lists

\* The inductive invariant holds of the sequences that the links give.
THEOREM InvarianceOfLists == Spec => []InvOfLists
<1>1. Inv => InvOfLists
  <2> SUFFICES ASSUME Inv PROVE InvOfLists
    OBVIOUS
  <2>1. PICK s \in [Queues -> Seq(Buffers)] : Owned(s) /\ InLoop(s)
    BY DEF Inv
  <2>2. Lists = s
    BY <2>1, ListsAre
  <2> QED BY <2>1, <2>2 DEF Inv, InvOfLists
<1> QED BY <1>1, Invariance, PTL

(***************************************************************************)
(* Every buffer that initPackets has freed is met exactly once when the    *)
(* links are followed from first in every queue: none is lost, in two      *)
(* queues, or twice in one.                                                *)
(***************************************************************************)
THEOREM BuffersHaveOneOwner == Spec => []OneOwner
<1>1. InvOfLists => OneOwner
  <2> SUFFICES ASSUME InvOfLists PROVE OneOwner
    OBVIOUS
  <2> DEFINE list == Lists
             N == Cardinality(Buffers)
             places == {p \in Queues \X (1 .. N) : p[2] <= Len(list[p[1]])}
             freed == Buffers \ uninit
             f == [p \in places |-> list[p[1]][p[2]]]
  <2>1. Owned(list)
    BY DEF InvOfLists
  <2>2. \A q \in Queues : list[q] \in Seq(Buffers) /\ Len(list[q]) \in Nat /\ Len(list[q]) <= N
    <3>1. list \in [Queues -> Seq(Buffers)]
      BY <2>1 DEF Owned
    <3>2. \A q \in Queues : NoRepeat(list[q])
      BY <2>1, <3>1, PlacedApart DEF Owned
    <3> HIDE DEF list, N
    <3>3. ASSUME NEW q \in Queues PROVE Len(list[q]) <= N
      <4>1. list[q] \in Seq(Buffers) /\ NoRepeat(list[q])
        BY <3>1, <3>2
      <4> QED BY <4>1, ShortNoRepeat DEF N
    <3> QED BY <3>1, <3>3
  <2>3. N \in Nat
    BY BuffersAssumption, FS_CardinalityType
  <2> HIDE DEF list, N
  <2>4. f \in [places -> freed]
    <3>1. \A q \in Queues : \A i \in 1 .. Len(list[q]) : list[q][i] \in freed
      BY <2>1, <2>2 DEF Owned
    <3>2. \A p \in places : p[1] \in Queues /\ p[2] \in 1 .. Len(list[p[1]])
      BY <2>2, <2>3
    <3> QED BY <3>1, <3>2
  <2>5. \A p, r \in places : f[p] = f[r] => p = r
    <3> SUFFICES ASSUME NEW p \in places, NEW r \in places, f[p] = f[r] PROVE p = r
      OBVIOUS
    <3>1. /\ p \in Queues \X (1 .. N) /\ r \in Queues \X (1 .. N)
          /\ p[2] \in 1 .. Len(list[p[1]]) /\ r[2] \in 1 .. Len(list[r[1]])
      BY <2>2, <2>3
    <3>2. list[p[1]][p[2]] = list[r[1]][r[2]]
      OBVIOUS
    <3>3. p[1] = r[1] /\ p[2] = r[2]
      BY <2>1, <3>1, <3>2 DEF Owned, OncePlaced
    <3> QED BY <3>1, <3>3
  <2>6. \A b \in freed : \E p \in places : f[p] = b
    <3> SUFFICES ASSUME NEW b \in freed PROVE \E p \in places : f[p] = b
      OBVIOUS
    <3>0. PICK q \in Queues : \E i \in 1 .. Len(list[q]) : list[q][i] = b
      BY <2>1 DEF Owned
    <3>1. PICK i \in 1 .. Len(list[q]) : list[q][i] = b
      BY <3>0
    <3>2. <<q, i>> \in places
      BY <2>2, <2>3
    <3> QED BY <3>1, <3>2
  <2>7. {list[p[1]][p[2]] : p \in places} = freed
    BY <2>4, <2>6
  <2>8. Cardinality(places) = Cardinality(freed)
    <3>1. IsFiniteSet(freed)
      BY BuffersAssumption, FS_Subset
    <3>2. f \in Injection(places, freed) /\ f \in Surjection(places, freed)
      BY <2>4, <2>5, <2>6 DEF Injection, IsInjective, Surjection
    <3> HIDE DEF places, freed, f
    <3> QED BY <3>1, <3>2, FS_Injection
  <2>9. \A q \in Queues : Holds(queue[q], nx, list[q])
    BY <2>1 DEF Owned
  <2> QED BY <2>7, <2>8, <2>9 DEF OneOwner, list, N
<1> QED BY <1>1, InvarianceOfLists, PTL
-----------------------------------------------------------------------------
(***************************************************************************)
(* What TotalOf adds up, for a list of every length.                       *)
(***************************************************************************)
\* The equation that defines the sums of the first packets of list.
Sums(t, list, len) ==
  t = [i \in 0 .. Len(list) |-> IF i = 0 THEN 0 ELSE t[i - 1] + len[list[i]]]

SumsTo(n, t, list, len) ==
  /\ t \in [0 .. n -> Int]
  /\ t[0] = 0
  /\ \A i \in 1 .. n : t[i] = t[i - 1] + len[list[i]]

LEMMA SumsUnique ==
  ASSUME NEW list \in Seq(Buffers), NEW len,
         NEW t, Sums(t, list, len), NEW u, Sums(u, list, len)
  PROVE  t = u
<1> USE DEF Sums
<1> DEFINE N == Len(list)
           D == {i \in 0 .. N : t[i] # u[i]}
<1>0. N \in Nat
  OBVIOUS
<1> HIDE DEF N
<1>1. ASSUME D # {} PROVE FALSE
  <2>a. D \in SUBSET Nat
    OBVIOUS
  <2> HIDE DEF D
  <2>1. PICK m \in D : \A j \in D : m <= j
    BY <1>1, <2>a, Least
  <2> USE DEF D
  <2>2. t = [i \in 0 .. N |-> IF i = 0 THEN 0 ELSE t[i - 1] + len[list[i]]]
        /\ u = [i \in 0 .. N |-> IF i = 0 THEN 0 ELSE u[i - 1] + len[list[i]]]
    BY DEF N
  <2>3. m # 0
    BY <2>2
  <2>4. m \in 0 .. N /\ m - 1 \in 0 .. N /\ ~ m <= m - 1
    BY <2>3, <1>0
  <2>5. t[m - 1] = u[m - 1]
    BY <2>1, <2>4
  <2> QED BY <2>2, <2>3, <2>4, <2>5
<1>2. \A i \in 0 .. N : t[i] = u[i]
  BY <1>1
<1> QED BY <1>2 DEF N

LEMMA SumsExist ==
  ASSUME NEW list \in Seq(Buffers), NEW len \in [Buffers -> Int], NEW n \in 0 .. Len(list)
  PROVE  \E t : SumsTo(n, t, list, len)
<1> DEFINE N == Len(list)
           D == {k \in 0 .. N : ~ \E t : SumsTo(k, t, list, len)}
<1>0. N \in Nat /\ \A i \in 1 .. N : len[list[i]] \in Int
  OBVIOUS
<1> HIDE DEF N
<1>1. ASSUME D # {} PROVE FALSE
  <2>a. D \in SUBSET Nat
    OBVIOUS
  <2> HIDE DEF D
  <2>1. PICK m \in D : \A j \in D : m <= j
    BY <1>1, <2>a, Least
  <2> USE DEF D
  <2>2. m # 0
    <3>1. SumsTo(0, [i \in 0 .. 0 |-> 0], list, len)
      BY DEF SumsTo
    <3> QED BY <3>1
  <2>3. m \in 1 .. N /\ m - 1 \in 0 .. N /\ ~ m <= m - 1
    BY <2>2, <1>0
  <2>4. PICK t : SumsTo(m - 1, t, list, len)
    BY <2>1, <2>3
  <2> DEFINE u == [i \in 0 .. m |-> IF i = m THEN t[m - 1] + len[list[m]] ELSE t[i]]
  <2>5. len[list[m]] \in Int
    BY <2>3, <1>0
  <2>6. \A i \in 0 .. m : i = m \/ i \in 0 .. m - 1
    BY <2>3
  <2>7. t[m - 1] \in Int /\ \A i \in 0 .. m - 1 : t[i] \in Int
    BY <2>3, <2>4 DEF SumsTo
  <2>8. u \in [0 .. m -> Int]
    BY <2>5, <2>6, <2>7
  <2>9. u[0] = 0
    BY <2>3, <2>4 DEF SumsTo
  <2>10. \A i \in 1 .. m : u[i] = u[i - 1] + len[list[i]]
    BY <2>3, <2>4 DEF SumsTo
  <2> HIDE DEF u
  <2>11. SumsTo(m, u, list, len)
    BY <2>8, <2>9, <2>10 DEF SumsTo
  <2> QED BY <2>11
<1>2. \A k \in 0 .. N : \E t : SumsTo(k, t, list, len)
  BY <1>1
<1> QED BY <1>2 DEF N

\* What is a sum of every beginning of list is what TotalOf takes the last of.
LEMMA TotalIs ==
  ASSUME NEW list \in Seq(Buffers), NEW len, NEW t, SumsTo(Len(list), t, list, len)
  PROVE  TotalOf(list, len) = t[Len(list)] /\ t[Len(list)] \in Int
<1>0. Len(list) \in Nat
  OBVIOUS
<1>1. Sums(t, list, len)
  <2>1. t = [i \in 0 .. Len(list) |-> t[i]]
    BY DEF SumsTo
  <2>2. \A i \in 0 .. Len(list) : t[i] = IF i = 0 THEN 0 ELSE t[i - 1] + len[list[i]]
    BY <1>0 DEF SumsTo
  <2> QED BY <2>1, <2>2 DEF Sums
<1> DEFINE u == CHOOSE u : Sums(u, list, len)
<1>2. Sums(u, list, len)
  BY <1>1
<1>3. TotalOf(list, len) = u[Len(list)]
  BY Zenon DEF TotalOf, Sums
<1>4. u = t
  BY <1>1, <1>2, SumsUnique
<1>5. Len(list) \in 0 .. Len(list) /\ t \in [0 .. Len(list) -> Int]
  BY <1>0 DEF SumsTo
<1> QED BY <1>3, <1>4, <1>5

LEMMA TotalType ==
  ASSUME NEW list \in Seq(Buffers), NEW len \in [Buffers -> Int]
  PROVE  TotalOf(list, len) \in Int
<1>1. Len(list) \in 0 .. Len(list)
  OBVIOUS
<1>2. PICK t : SumsTo(Len(list), t, list, len)
  BY <1>1, SumsExist
<1> QED BY <1>2, TotalIs

LEMMA TotalOfNone ==
  ASSUME NEW len
  PROVE  TotalOf(<< >>, len) = 0
<1> DEFINE t == [i \in 0 .. 0 |-> 0]
<1>1. Len(<< >>) = 0 /\ << >> \in Seq(Buffers)
  OBVIOUS
<1>2. SumsTo(0, t, << >>, len) /\ t[0] = 0
  BY DEF SumsTo
<1> HIDE DEF t
<1> QED BY <1>1, <1>2, TotalIs

\* Only the lengths of the packets in the list count.
LEMMA TotalFrame ==
  ASSUME NEW list \in Seq(Buffers), NEW len \in [Buffers -> Int], NEW len2,
         \A i \in 1 .. Len(list) : len2[list[i]] = len[list[i]]
  PROVE  TotalOf(list, len2) = TotalOf(list, len)
<1>1. Len(list) \in 0 .. Len(list)
  OBVIOUS
<1>2. PICK t : SumsTo(Len(list), t, list, len)
  BY <1>1, SumsExist
<1>3. SumsTo(Len(list), t, list, len2)
  BY <1>2 DEF SumsTo
<1> QED BY <1>2, <1>3, TotalIs

LEMMA TotalAppend ==
  ASSUME NEW list \in Seq(Buffers), NEW len \in [Buffers -> Int], NEW b \in Buffers
  PROVE  TotalOf(Append(list, b), len) = TotalOf(list, len) + len[b]
<1> DEFINE N == Len(list)
           a == Append(list, b)
<1>1. /\ N \in Nat /\ a \in Seq(Buffers) /\ Len(a) = N + 1 /\ a[N + 1] = b
      /\ \A i \in 1 .. N : a[i] = list[i]
      /\ len[b] \in Int
  OBVIOUS
<1> HIDE DEF a, N
<1>2. PICK t : SumsTo(N + 1, t, a, len)
  <2>1. N + 1 \in 0 .. Len(a)
    BY <1>1
  <2> QED BY <1>1, <2>1, SumsExist
<1> DEFINE u == [i \in 0 .. N |-> t[i]]
<1>3. SumsTo(N, u, list, len)
  <2>1. \A i \in 0 .. N : i \in 0 .. N + 1 /\ t[i] \in Int /\ u[i] = t[i]
    BY <1>1, <1>2 DEF SumsTo
  <2>2. u \in [0 .. N -> Int]
    BY <2>1
  <2>3. 0 \in 0 .. N /\ t[0] = 0
    BY <1>1, <1>2 DEF SumsTo
  <2>4. ASSUME NEW i \in 1 .. N
        PROVE  i \in 0 .. N /\ i - 1 \in 0 .. N /\ t[i] = t[i - 1] + len[list[i]]
    <3>1. i \in 0 .. N /\ i - 1 \in 0 .. N /\ i \in 1 .. N + 1 /\ a[i] = list[i]
      BY <1>1
    <3>2. t[i] = t[i - 1] + len[a[i]]
      BY <3>1, <1>2 DEF SumsTo
    <3> QED BY <3>1, <3>2
  <2> HIDE DEF u
  <2> QED BY <2>1, <2>2, <2>3, <2>4 DEF SumsTo
<1>4. u[N] = t[N] /\ t[N + 1] = t[N] + len[b]
  <2>1. N \in 0 .. N /\ N + 1 \in 1 .. N + 1 /\ N + 1 - 1 = N
    BY <1>1
  <2>2. t[N + 1] = t[N + 1 - 1] + len[a[N + 1]]
    BY <2>1, <1>2 DEF SumsTo
  <2> QED BY <2>1, <2>2, <1>1
<1> HIDE DEF u
<1>5. TotalOf(list, len) = u[N]
  BY <1>3, TotalIs DEF N
<1>6. TotalOf(a, len) = t[N + 1]
  BY <1>1, <1>2, TotalIs
<1> QED BY <1>4, <1>5, <1>6 DEF a

LEMMA TotalTail ==
  ASSUME NEW list \in Seq(Buffers), list # << >>, NEW len \in [Buffers -> Int]
  PROVE  TotalOf(Tail(list), len) = TotalOf(list, len) - len[list[1]]
<1> DEFINE N == Len(list)
           a == Tail(list)
<1>1. /\ N \in Nat /\ N >= 1 /\ a \in Seq(Buffers) /\ Len(a) = N - 1
      /\ \A i \in 1 .. N - 1 : a[i] = list[i + 1]
      /\ len[list[1]] \in Int
  OBVIOUS
<1> HIDE DEF a, N
<1>2. PICK t : SumsTo(N, t, list, len)
  <2>1. N \in 0 .. N
    BY <1>1
  <2> QED BY <2>1, SumsExist DEF N
<1>3. t[1] = len[list[1]] /\ t[1] \in Int
  <2>1. 1 \in 1 .. N /\ 1 - 1 = 0
    BY <1>1
  <2>2. t[1] = t[1 - 1] + len[list[1]] /\ t[0] = 0
    BY <2>1, <1>2 DEF SumsTo
  <2> QED BY <2>1, <2>2, <1>1
<1> DEFINE u == [i \in 0 .. N - 1 |-> t[i + 1] - t[1]]
<1>4. SumsTo(N - 1, u, a, len)
  <2>1. \A i \in 0 .. N - 1 : t[i + 1] \in Int /\ u[i] = t[i + 1] - t[1]
    BY <1>1, <1>2 DEF SumsTo
  <2>2. u \in [0 .. N - 1 -> Int]
    BY <2>1, <1>3
  <2>3. u[0] = 0
    <3>1. 0 \in 0 .. N - 1 /\ 0 + 1 = 1
      BY <1>1
    <3> QED BY <3>1, <2>1, <1>3
  <2>4. ASSUME NEW i \in 1 .. N - 1 PROVE u[i] = u[i - 1] + len[a[i]]
    <3>1. /\ i \in 0 .. N - 1 /\ i - 1 \in 0 .. N - 1 /\ i + 1 \in 1 .. N
          /\ i - 1 + 1 = i /\ i + 1 - 1 = i
      BY <1>1
    <3>2. u[i] = t[i + 1] - t[1] /\ u[i - 1] = t[i] - t[1] /\ t[i + 1] \in Int /\ t[i] \in Int
      BY <3>1, <2>1
    <3>3. t[i + 1] = t[i] + len[list[i + 1]] /\ a[i] = list[i + 1]
      <4>1. t[i + 1] = t[i + 1 - 1] + len[list[i + 1]]
        BY <3>1, <1>2 DEF SumsTo
      <4> QED BY <4>1, <3>1, <1>1
    <3>4. len[list[i + 1]] \in Int
      BY <3>1 DEF N
    <3> HIDE DEF u
    <3> QED BY <3>2, <3>3, <3>4, <1>3
  <2> HIDE DEF u
  <2> QED BY <2>2, <2>3, <2>4 DEF SumsTo
<1>5. u[N - 1] = t[N] - t[1]
  BY <1>1
<1> HIDE DEF u
<1>6. TotalOf(list, len) = t[N]
  BY <1>2, TotalIs DEF N
<1>7. TotalOf(a, len) = u[N - 1]
  BY <1>1, <1>4, TotalIs
<1> QED BY <1>3, <1>5, <1>6, <1>7 DEF a
-----------------------------------------------------------------------------
(***************************************************************************)
(* The statistics of the queues.                                           *)
(***************************************************************************)
Balanced(q, list, len) ==
  /\ (q.packetsIn - q.packetsOut - Len(list)) % LongMod = 0
  /\ (q.wordsIn - q.wordsOut - TotalOf(list, len)) % LongMod = 0

LEMMA LengthsAreInts ==
  ASSUME NEW len \in [Buffers -> 0 .. 255]
  PROVE  len \in [Buffers -> Int]
<1>1. \A x \in 0 .. 255 : x \in Int
  OBVIOUS
<1>2. \A b \in Buffers : len[b] \in Int
  BY <1>1
<1>3. len = [b \in Buffers |-> len[b]]
  OBVIOUS
<1> QED BY <1>2, <1>3, Zenon

LEMMA InsertBalanced ==
  ASSUME PACKET_QUEUE_STATS, NEW q \in Queue, NEW list \in Seq(Buffers), NEW pb \in Buffers,
         NEW len \in [Buffers -> 0 .. 255], NEW l \in 0 .. 255,
         \A i \in 1 .. Len(list) : list[i] # pb,
         Balanced(q, list, len)
  PROVE  Balanced(InsertQueue(q, pb, l), Append(list, pb), [len EXCEPT ![pb] = l])
<1> DEFINE len2 == [len EXCEPT ![pb] = l]
           r == InsertQueue(q, pb, l)
<1>0. len2 \in [Buffers -> 0 .. 255]
  OBVIOUS
<1>1. len \in [Buffers -> Int] /\ len2 \in [Buffers -> Int]
  BY <1>0, LengthsAreInts
<1>2. /\ len2[pb] = l /\ \A i \in 1 .. Len(list) : len2[list[i]] = len[list[i]]
      /\ Len(Append(list, pb)) = Len(list) + 1
  OBVIOUS
<1> HIDE DEF len2
<1>3. TotalOf(list, len2) = TotalOf(list, len) /\ TotalOf(list, len) \in Int
  BY <1>1, <1>2, TotalFrame, TotalType
<1>4. TotalOf(Append(list, pb), len2) = TotalOf(list, len) + l
  BY <1>1, <1>2, <1>3, TotalAppend
<1>5. /\ r.packetsIn = (q.packetsIn + 1) % LongMod /\ r.packetsOut = q.packetsOut
      /\ r.wordsIn = (q.wordsIn + l) % LongMod /\ r.wordsOut = q.wordsOut
  BY DEF InsertQueue, Count, Queue
<1>6. PICK a \in Int, b \in Int, c \in Int, d \in Int, n \in Int, w \in Int, m \in Nat \ {0} :
         /\ a = q.packetsIn /\ b = q.packetsOut /\ c = q.wordsIn /\ d = q.wordsOut
         /\ n = Len(list) /\ w = TotalOf(list, len) /\ m = LongMod
  BY <1>3, BuffersAssumption DEF Queue
<1> HIDE DEF r
<1>7. Agree(a, b, n, m) /\ Agree(c, d, w, m)
  BY <1>6, Zenon DEF Balanced, Agree
<1>8. l \in Int /\ 1 \in Int
  OBVIOUS
<1>9. Agree((a + 1) % m, b, n + 1, m) /\ Agree((c + l) % m, d, w + l, m)
  BY <1>7, <1>8, AgreeIn
<1>10. Agree(r.packetsIn, r.packetsOut, Len(Append(list, pb)), LongMod)
  BY <1>2, <1>5, <1>6, <1>9, Zenon
<1>11. Agree(r.wordsIn, r.wordsOut, TotalOf(Append(list, pb), len2), LongMod)
  BY <1>4, <1>5, <1>6, <1>9, Zenon
<1> QED BY <1>10, <1>11, Zenon DEF Balanced, Agree, r, len2

LEMMA RemoveBalanced ==
  ASSUME PACKET_QUEUE_STATS, NEW q \in Queue, NEW n, NEW list \in Seq(Buffers),
         list # << >>, NoRepeat(list), NEW pb, pb = list[1],
         NEW len \in [Buffers -> 0 .. 255], NEW l \in 0 .. 255,
         Balanced(q, list, len)
  PROVE  Balanced(RemoveQueue(q, n, len[pb]), Tail(list), [len EXCEPT ![pb] = l])
<1> DEFINE len2 == [len EXCEPT ![pb] = l]
           r == RemoveQueue(q, n, len[pb])
<1>0. /\ pb \in Buffers /\ Tail(list) \in Seq(Buffers) /\ ~ Occurs(pb, Tail(list))
      /\ Len(list) \in Int /\ Len(Tail(list)) = Len(list) - 1
  BY TailOf
<1>1. len \in [Buffers -> Int] /\ len[pb] \in Int
  BY <1>0, LengthsAreInts
<1>2. \A i \in 1 .. Len(Tail(list)) : len2[Tail(list)[i]] = len[Tail(list)[i]]
  <2>1. \A i \in 1 .. Len(Tail(list)) : Tail(list)[i] # pb /\ Tail(list)[i] \in Buffers
    BY <1>0, OccursAt DEF Occurs
  <2> QED BY <2>1
<1> HIDE DEF len2
<1>3. TotalOf(list, len) \in Int
  BY <1>1, TotalType
<1>4. TotalOf(Tail(list), len2) = TotalOf(list, len) - len[pb]
  <2>1. TotalOf(Tail(list), len2) = TotalOf(Tail(list), len)
    BY <1>0, <1>1, <1>2, TotalFrame
  <2> QED BY <2>1, <1>1, TotalTail
<1>5. /\ r.packetsOut = (q.packetsOut + 1) % LongMod /\ r.packetsIn = q.packetsIn
      /\ r.wordsOut = (q.wordsOut + len[pb]) % LongMod /\ r.wordsIn = q.wordsIn
  BY DEF RemoveQueue, Count, Queue
<1>6. PICK a \in Int, b \in Int, c \in Int, d \in Int, k \in Int, w \in Int, m \in Nat \ {0} :
         /\ a = q.packetsIn /\ b = q.packetsOut /\ c = q.wordsIn /\ d = q.wordsOut
         /\ k = Len(list) /\ w = TotalOf(list, len) /\ m = LongMod
  <2>1. PICK w \in Int : w = TotalOf(list, len)
    BY <1>3
  <2>2. PICK k \in Int : k = Len(list)
    BY <1>0
  <2>3. /\ q.packetsIn \in Int /\ q.packetsOut \in Int /\ q.wordsIn \in Int /\ q.wordsOut \in Int
        /\ LongMod \in Nat \ {0}
    BY BuffersAssumption DEF Queue
  <2> QED BY <2>1, <2>2, <2>3
<1>x. PICK x \in Int : x = len[pb]
  BY <1>1
<1> HIDE DEF r
<1>7. Agree(a, b, k, m) /\ Agree(c, d, w, m)
  BY <1>6, Zenon DEF Balanced, Agree
<1>8. 1 \in Int
  OBVIOUS
<1>9. Agree(a, (b + 1) % m, k - 1, m) /\ Agree(c, (d + x) % m, w - x, m)
  BY <1>7, <1>8, <1>x, AgreeOut
<1>10. Agree(r.packetsIn, r.packetsOut, Len(Tail(list)), LongMod)
  BY <1>0, <1>5, <1>6, <1>x, <1>9, Zenon
<1>11. Agree(r.wordsIn, r.wordsOut, TotalOf(Tail(list), len2), LongMod)
  BY <1>4, <1>5, <1>6, <1>x, <1>9, Zenon
<1> QED BY <1>10, <1>11, Zenon DEF Balanced, Agree, r, len2

LEMMA FrameBalanced ==
  ASSUME NEW q, NEW list \in Seq(Buffers), NEW pb,
         NEW len \in [Buffers -> 0 .. 255], NEW l,
         \A i \in 1 .. Len(list) : list[i] # pb,
         Balanced(q, list, len)
  PROVE  Balanced(q, list, [len EXCEPT ![pb] = l])
<1> DEFINE len2 == [len EXCEPT ![pb] = l]
<1>1. \A i \in 1 .. Len(list) : len2[list[i]] = len[list[i]]
  OBVIOUS
<1>2. len \in [Buffers -> Int]
  BY LengthsAreInts
<1> HIDE DEF len2
<1>3. TotalOf(list, len2) = TotalOf(list, len)
  BY <1>1, <1>2, TotalFrame
<1> QED BY <1>3 DEF Balanced, len2

StatsOf(s) == PACKET_QUEUE_STATS => \A q \in Queues : Balanced(queue[q], s[q], length)

LEMMA MoveStats ==
  ASSUME TypeOK, NEW s, Owned(s), StatsOf(s), NEW from \in Queues, NEW to \in Queues,
         from # to, s[from] # << >>, NEW l \in 0 .. 255, Move(from, to, l)
  PROVE  StatsOf(Moved(s, from, to))'
<1> SUFFICES ASSUME PACKET_QUEUE_STATS, NEW q \in Queues
             PROVE  Balanced(queue'[q], Moved(s, from, to)[q], length')
  BY DEF StatsOf, Queues
<1> DEFINE pb == s[from][1]
           t == Moved(s, from, to)
<1>1. /\ s \in [Queues -> Seq(Buffers)] /\ OncePlaced(s)
      /\ queue \in [Queues -> Queue] /\ nx \in [Buffers -> Link]
      /\ length \in [Buffers -> 0 .. 255]
      /\ \A p \in Queues : s[p] \in Seq(Buffers) /\ queue[p] \in Queue
  BY DEF Owned, TypeOK
<1>2. \A p \in Queues : /\ NoRepeat(s[p]) /\ Holds(queue[p], nx, s[p])
                        /\ Balanced(queue[p], s[p], length)
  BY <1>1, PlacedApart DEF Owned, StatsOf
<1>3. queue[from].first = pb /\ pb \in Buffers
  BY <1>1, <1>2, RemoveHolds
<1>4. \A p \in Queues \ {from} : \A i \in 1 .. Len(s[p]) : s[p][i] # pb
  BY <1>1, MovedPlaces DEF OncePlaced
<1>5. /\ queue'[from] = RemoveQueue(queue[from], nx, length[pb])
      /\ queue'[to] = InsertQueue(queue[to], pb, l)
      /\ \A p \in Queues : p # from /\ p # to => queue'[p] = queue[p]
      /\ length' = [length EXCEPT ![pb] = l]
  BY <1>1, <1>3 DEF Move
<1>6. /\ t[from] = Tail(s[from]) /\ t[to] = Append(s[to], pb)
      /\ \A p \in Queues : p # from /\ p # to => t[p] = s[p]
  BY <1>1 DEF Moved
<1> HIDE DEF t, pb
<1>7. CASE q = from
  <2>1. Balanced(RemoveQueue(queue[from], nx, length[pb]), Tail(s[from]),
                [length EXCEPT ![pb] = l])
    BY <1>1, <1>2, RemoveBalanced DEF pb
  <2> QED BY <1>5, <1>6, <1>7, <2>1 DEF t
<1>8. CASE q = to
  <2>1. Balanced(InsertQueue(queue[to], pb, l), Append(s[to], pb), [length EXCEPT ![pb] = l])
    BY <1>1, <1>2, <1>3, <1>4, InsertBalanced
  <2> QED BY <1>5, <1>6, <1>8, <2>1 DEF t
<1>9. CASE q # from /\ q # to
  <2>1. Balanced(queue[q], s[q], [length EXCEPT ![pb] = l])
    BY <1>1, <1>2, <1>4, <1>9, FrameBalanced
  <2> QED BY <1>5, <1>6, <1>9, <2>1 DEF t
<1> QED BY <1>7, <1>8, <1>9

LEMMA FreesStats ==
  ASSUME TypeOK, NEW s, Owned(s), StatsOf(s), NEW pb \in uninit, Frees(pb)
  PROVE  StatsOf(Freed(s, pb))'
<1> SUFFICES ASSUME PACKET_QUEUE_STATS, NEW q \in Queues
             PROVE  Balanced(queue'[q], Freed(s, pb)[q], length')
  BY DEF StatsOf, Queues
<1>1. /\ queue \in [Queues -> Queue] /\ length \in [Buffers -> 0 .. 255]
      /\ s \in [Queues -> Seq(Buffers)] /\ pb \in Buffers /\ length[pb] \in 0 .. 255
      /\ FreeList \in Queues /\ s[FreeList] \in Seq(Buffers) /\ queue[FreeList] \in Queue
      /\ Balanced(queue[q], s[q], length)
  BY QueueNames DEF Owned, TypeOK, StatsOf
<1>2. /\ length' = length /\ length = [length EXCEPT ![pb] = length[pb]]
      /\ queue' = [queue EXCEPT ![FreeList] = InsertQueue(@, pb, length[pb])]
  BY <1>1 DEF Frees
<1>3. CASE q = FreeList
  <2>1. \A i \in 1 .. Len(s[FreeList]) : s[FreeList][i] # pb
    BY <1>1 DEF Owned
  <2>2. Balanced(InsertQueue(queue[q], pb, length[pb]), Append(s[q], pb),
                 [length EXCEPT ![pb] = length[pb]])
    BY <1>1, <1>3, <2>1, InsertBalanced
  <2>3. queue'[q] = InsertQueue(queue[q], pb, length[pb]) /\ Freed(s, pb)[q] = Append(s[q], pb)
    BY <1>1, <1>2, <1>3 DEF Freed
  <2> QED BY <1>2, <2>2, <2>3
<1>4. CASE q # FreeList
  BY <1>1, <1>2, <1>4 DEF Freed
<1> QED BY <1>3, <1>4


\* Some queue loses its first buffer to another: the statistics go along.
LEMMA AfterMove ==
  ASSUME TypeOK, NEW s, Owned(s), StatsOf(s), NEW from \in Queues, NEW to \in Queues,
         from # to, ~IsEmpty(queue[from]), NEW l \in 0 .. 255, Move(from, to, l),
         uninit' = uninit
  PROVE  \E t : Owned(t)' /\ StatsOf(t)'
<1>1. s[from] # << >>
  BY EmptyIff
<1>2. Owned(Moved(s, from, to))'
  BY <1>1, MoveOwned
<1>3. StatsOf(Moved(s, from, to))'
  BY <1>1, MoveStats
<1> QED BY <1>2, <1>3

\* The lists that the links give, in any state of the queues and the links.
LEMMA ListsOf ==
  ASSUME NEW qs, NEW n, NEW s \in [Queues -> Seq(Buffers)], OncePlaced(s),
         \A q \in Queues : Holds(qs[q], n, s[q])
  PROVE  \A q \in Queues : ListOf(qs[q], n) = s[q]
<1> TAKE q \in Queues
<1>1. s[q] \in Seq(Buffers) /\ NoRepeat(s[q]) /\ Holds(qs[q], n, s[q])
  BY PlacedApart
<1> QED BY <1>1, HeldIsChained, ListIs

LEMMA NextStats ==
  ASSUME TypeOK, NEW s, Owned(s), InLoop(s), StatsOf(s), [Next]_vars
  PROVE  \E t : Owned(t)' /\ StatsOf(t)'
<1>0. \A b \in Buffers : length[b] \in 0 .. 255
  BY DEF TypeOK
<1>1. CASE InitPacket
  <2>1. PICK pb \in uninit : Frees(pb) /\ Owned(Freed(s, pb))'
    BY <1>1, InitPacketInv
  <2>2. StatsOf(Freed(s, pb))'
    BY <2>1, FreesStats
  <2> QED BY <2>1, <2>2
<1>2. CASE ProcessInbound
  <2>1. PICK g \in Faces : g = face
    BY DEF TypeOK
  <2>2. ~IsEmpty(queue[In(g)]) /\ In(g) \in Queues /\ FreeList \in Queues /\ In(g) # FreeList
    BY <1>2, <2>1, QueueNames DEF ProcessInbound
  <2>3. queue[In(g)].first \in Buffers
    BY <2>2 DEF TypeOK, Queue, Link, IsEmpty
  <2>4. PICK l \in 0 .. 255 : l = length[queue[In(g)].first]
    BY <1>0, <2>3
  <2>5. Move(In(g), FreeList, l) /\ uninit' = uninit
    BY <1>2, <2>1, <2>4 DEF ProcessInbound
  <2> QED BY <2>2, <2>5, AfterMove
<1>3. CASE ShipPacket
  <2>1. PICK g \in Faces : g = fm % FACE_COUNT
    <3>1. fm \in Nat
      BY WorkloadAssumption DEF TypeOK
    <3> QED BY <3>1, ModType
  <2>2. /\ ~IsEmpty(queue[FreeList]) /\ Out(g) \in Queues /\ FreeList \in Queues
        /\ FreeList # Out(g)
    BY <1>3, QueueNames DEF ShipPacket
  <2>3. PICK l \in 0 .. 255 :
          l = wordCount - (IF wordCount > PACKET_MAX_WORDS THEN PACKET_MAX_WORDS ELSE wordCount)
    BY WorkloadAssumption DEF TypeOK
  <2>4. Move(FreeList, Out(g), l) /\ uninit' = uninit
    BY <1>3, <2>1, <2>3 DEF ShipPacket
  <2> QED BY <2>2, <2>4, AfterMove
<1>4. CASE SupplyOutbound
  <2>1. PICK g \in Faces : g = face
    BY DEF TypeOK
  <2>2. ~IsEmpty(queue[Out(g)]) /\ In(g) \in Queues /\ Out(g) \in Queues /\ Out(g) # In(g)
    BY <1>4, <2>1, QueueNames DEF SupplyOutbound
  <2>3. queue[Out(g)].first \in Buffers
    BY <2>2 DEF TypeOK, Queue, Link, IsEmpty
  <2>4. PICK l \in 0 .. 255 : l = length[queue[Out(g)].first]
    BY <1>0, <2>3
  <2>5. Move(Out(g), In(g), l) /\ uninit' = uninit
    BY <1>4, <2>1, <2>4 DEF SupplyOutbound
  <2> QED BY <2>2, <2>5, AfterMove
<1>5. CASE UNCHANGED <<queue, nx, length, uninit>>
  <2>1. Owned(s)' /\ StatsOf(s)'
    BY <1>5 DEF Owned, StatsOf
  <2> QED BY <2>1
<1> QED BY <1>1, <1>2, <1>3, <1>4, <1>5
        DEF Next, NoInbound, Blocked, StartEvent, NothingToSupply, vars

LEMMA InitStats == ASSUME Init PROVE StatsBalance
<1> SUFFICES ASSUME NEW q \in Queues
             PROVE  Balanced(queue[q], ListOf(queue[q], nx), length)
  BY DEF StatsBalance, Balanced
<1>1. queue[q] = EmptyQueue
  BY DEF Init
<1>2. Holds(queue[q], nx, << >>)
  <2>1. Len(<< >>) = 0 /\ \A i \in 1 .. 0 - 1 : FALSE
    OBVIOUS
  <2> QED BY <1>1, <2>1 DEF Holds, EmptyQueue
<1>3. << >> \in Seq(Buffers) /\ NoRepeat(<< >>) /\ Len(<< >>) = 0
  BY DEF NoRepeat
<1>4. ListOf(queue[q], nx) = << >>
  BY <1>2, <1>3, HeldIsChained, ListIs
<1>5. TotalOf(<< >>, length) = 0
  BY TotalOfNone
<1>6. PICK m \in Nat \ {0} : m = LongMod
  BY BuffersAssumption
<1>7. Agree(0, 0, 0, m)
  BY DEF Agree
<1> QED BY <1>1, <1>3, <1>4, <1>5, <1>6, <1>7 DEF Balanced, Agree, EmptyQueue

(***************************************************************************)
(* The statistics of every queue add up, in packets and in words, in both  *)
(* variants of the build and after any number of wraps of the counters.    *)
(***************************************************************************)
THEOREM StatisticsBalance == Spec => []StatsBalance
<1>1. Init => StatsBalance
  BY InitStats
<1>2. Inv /\ StatsBalance /\ [Next]_vars => StatsBalance'
  <2> SUFFICES ASSUME Inv, StatsBalance, [Next]_vars PROVE StatsBalance'
    OBVIOUS
  <2>1. PICK s \in [Queues -> Seq(Buffers)] : Owned(s) /\ InLoop(s)
    BY DEF Inv
  <2>2. \A q \in Queues : ListOf(queue[q], nx) = s[q]
    <3> DEFINE qs == queue
               n == nx
    <3>1. OncePlaced(s) /\ \A q \in Queues : Holds(qs[q], n, s[q])
      BY <2>1 DEF Owned
    <3> HIDE DEF qs, n
    <3>2. \A q \in Queues : ListOf(qs[q], n) = s[q]
      BY <2>1, <3>1, ListsOf
    <3> QED BY <3>2 DEF qs, n
  <2>3. TypeOK /\ StatsOf(s)
    BY <2>2 DEF Inv, StatsBalance, StatsOf, Balanced
  <2>4. PICK t : Owned(t)' /\ StatsOf(t)'
    BY <2>1, <2>3, NextStats
  <2>5. /\ t \in [Queues -> Seq(Buffers)] /\ OncePlaced(t)
        /\ \A q \in Queues : Holds(queue'[q], nx', t[q])
    BY <2>4 DEF Owned, OncePlaced, Queues
  <2>6. \A q \in Queues : ListOf(queue'[q], nx') = t[q]
    <3> DEFINE qs == queue'
               n == nx'
    <3>1. \A q \in Queues : Holds(qs[q], n, t[q])
      BY <2>5
    <3> HIDE DEF qs, n
    <3>2. \A q \in Queues : ListOf(qs[q], n) = t[q]
      BY <2>5, <3>1, ListsOf
    <3> QED BY <3>2 DEF qs, n
  <2>7. PACKET_QUEUE_STATS => \A q \in Queues : Balanced(queue'[q], t[q], length')
    BY <2>4 DEF StatsOf
  <2> QED BY <2>6, <2>7, Zenon DEF StatsBalance, Balanced
<1> QED BY <1>1, <1>2, Invariance, PTL DEF Spec


-----------------------------------------------------------------------------
(***************************************************************************)
(* EventTraffic: the lengths of the packets in a list, and what becomes of *)
(* them when the first packet of one queue moves to another.               *)
(***************************************************************************)
LengthsOf(list, len) == [i \in 1 .. Len(list) |-> len[list[i]]]

LEMMA LengthsType ==
  ASSUME NEW list \in Seq(Buffers), NEW len \in [Buffers -> 0 .. 255]
  PROVE  /\ LengthsOf(list, len) \in Seq(0 .. 255)
         /\ Len(LengthsOf(list, len)) = Len(list)
         /\ \A i \in 1 .. Len(list) : LengthsOf(list, len)[i] = len[list[i]]
         /\ LengthsOf(list, len) = << >> <=> list = << >>
<1>1. Len(list) \in Nat /\ \A i \in 1 .. Len(list) : len[list[i]] \in 0 .. 255
  OBVIOUS
<1>2. LengthsOf(list, len) \in Seq(0 .. 255) /\ Len(LengthsOf(list, len)) = Len(list)
  BY <1>1 DEF LengthsOf
<1>3. \A i \in 1 .. Len(list) : LengthsOf(list, len)[i] = len[list[i]]
  BY DEF LengthsOf
<1> QED BY <1>2, <1>3, EmptyIffNoLen

\* Sequences are equal when they have the same length and elements.
LEMMA SameSeq ==
  ASSUME NEW S, NEW a \in Seq(S), NEW b \in Seq(S), Len(a) = Len(b),
         \A i \in 1 .. Len(a) : a[i] = b[i]
  PROVE  a = b
OBVIOUS

LEMMA LengthsTail ==
  ASSUME NEW list \in Seq(Buffers), list # << >>, NoRepeat(list), NEW pb, pb = list[1],
         NEW len \in [Buffers -> 0 .. 255], NEW l \in 0 .. 255
  PROVE  /\ LengthsOf(Tail(list), [len EXCEPT ![pb] = l]) = Tail(LengthsOf(list, len))
         /\ Head(LengthsOf(list, len)) = len[pb]
<1> DEFINE len2 == [len EXCEPT ![pb] = l]
           a == LengthsOf(Tail(list), len2)
           b == LengthsOf(list, len)
<1>0. /\ pb \in Buffers /\ Tail(list) \in Seq(Buffers) /\ ~ Occurs(pb, Tail(list))
      /\ Len(list) \in Nat /\ Len(list) > 0 /\ Len(Tail(list)) = Len(list) - 1
      /\ \A i \in 1 .. Len(list) - 1 : Tail(list)[i] = list[i + 1]
  BY TailOf, EndsOf
<1>1. len2 \in [Buffers -> 0 .. 255]
  OBVIOUS
<1>2. \A i \in 1 .. Len(list) - 1 : len2[list[i + 1]] = len[list[i + 1]]
  <2>1. \A i \in 1 .. Len(list) - 1 : list[i + 1] # pb /\ list[i + 1] \in Buffers
    BY <1>0, OccursAt DEF Occurs
  <2> QED BY <2>1
<1> HIDE DEF len2
<1>3. /\ a \in Seq(0 .. 255) /\ Len(a) = Len(list) - 1
      /\ \A i \in 1 .. Len(list) - 1 : a[i] = len[list[i + 1]]
  <2>1. /\ a \in Seq(0 .. 255) /\ Len(a) = Len(Tail(list))
        /\ \A i \in 1 .. Len(Tail(list)) : a[i] = len2[Tail(list)[i]]
    BY <1>0, <1>1, LengthsType
  <2> HIDE DEF a
  <2> QED BY <2>1, <1>0, <1>2
<1>4. /\ b \in Seq(0 .. 255) /\ Len(b) = Len(list)
      /\ \A i \in 1 .. Len(list) : b[i] = len[list[i]]
  BY LengthsType
<1> HIDE DEF a, b
<1>5. /\ Tail(b) \in Seq(0 .. 255) /\ Len(Tail(b)) = Len(list) - 1
      /\ \A i \in 1 .. Len(list) - 1 : Tail(b)[i] = len[list[i + 1]]
      /\ Head(b) = len[pb]
  BY <1>0, <1>4
<1>6. Tail(b) = a
  BY <1>3, <1>5, SameSeq
<1> QED BY <1>5, <1>6 DEF a, b, len2

LEMMA LengthsAppend ==
  ASSUME NEW list \in Seq(Buffers), NEW pb \in Buffers,
         \A i \in 1 .. Len(list) : list[i] # pb,
         NEW len \in [Buffers -> 0 .. 255], NEW l \in 0 .. 255
  PROVE  LengthsOf(Append(list, pb), [len EXCEPT ![pb] = l]) = Append(LengthsOf(list, len), l)
<1> DEFINE len2 == [len EXCEPT ![pb] = l]
           list2 == Append(list, pb)
           a == LengthsOf(list2, len2)
           b == LengthsOf(list, len)
<1>0. /\ Len(list) \in Nat /\ list2 \in Seq(Buffers) /\ Len(list2) = Len(list) + 1
      /\ \A i \in 1 .. Len(list) : list2[i] = list[i] /\ len2[list[i]] = len[list[i]]
      /\ list2[Len(list) + 1] = pb /\ len2[pb] = l /\ len2 \in [Buffers -> 0 .. 255]
  OBVIOUS
<1> HIDE DEF len2, list2
<1>1. /\ a \in Seq(0 .. 255) /\ Len(a) = Len(list) + 1
      /\ \A i \in 1 .. Len(list) + 1 : a[i] = len2[list2[i]]
  BY <1>0, LengthsType
<1>2. /\ b \in Seq(0 .. 255) /\ Len(b) = Len(list)
      /\ \A i \in 1 .. Len(list) : b[i] = len[list[i]]
  BY LengthsType
<1> HIDE DEF a, b
<1>3. /\ Append(b, l) \in Seq(0 .. 255) /\ Len(Append(b, l)) = Len(list) + 1
      /\ \A i \in 1 .. Len(list) : Append(b, l)[i] = len[list[i]]
      /\ Append(b, l)[Len(list) + 1] = l
  BY <1>0, <1>2
<1>4. \A i \in 1 .. Len(list) + 1 : a[i] = Append(b, l)[i]
  <2> SUFFICES ASSUME NEW i \in 1 .. Len(list) + 1 PROVE a[i] = Append(b, l)[i]
    OBVIOUS
  <2>1. CASE i \in 1 .. Len(list)
    BY <2>1, <1>0, <1>1, <1>3
  <2>2. CASE i = Len(list) + 1
    BY <2>2, <1>0, <1>1, <1>3
  <2>3. \A n \in Nat : \A k \in 1 .. n + 1 : k \in 1 .. n \/ k = n + 1
    OBVIOUS
  <2> QED BY <2>1, <2>2, <2>3, <1>0, Zenon
<1>5. a = Append(b, l)
  BY <1>1, <1>3, <1>4, SameSeq
<1> QED BY <1>5 DEF a, b, len2, list2

LEMMA LengthsFrame ==
  ASSUME NEW list \in Seq(Buffers), NEW pb \in Buffers, \A i \in 1 .. Len(list) : list[i] # pb,
         NEW len \in [Buffers -> 0 .. 255], NEW l \in 0 .. 255
  PROVE  LengthsOf(list, [len EXCEPT ![pb] = l]) = LengthsOf(list, len)
<1>1. \A i \in 1 .. Len(list) : [len EXCEPT ![pb] = l][list[i]] = len[list[i]]
  OBVIOUS
<1> QED BY <1>1, Zenon DEF LengthsOf

\* u and len2 are the queues and the lengths after such a move.
MovesTo(s, from, to, l, u, len2) ==
  u = Moved(s, from, to) /\ len2 = [length EXCEPT ![s[from][1]] = l]

LengthsMove(s, from, to, l, u, len2) ==
  /\ LengthsOf(u[from], len2) = Tail(LengthsOf(s[from], length))
  /\ LengthsOf(u[to], len2) = Append(LengthsOf(s[to], length), l)
  /\ \A q \in Queues : q # from /\ q # to =>
       u[q] = s[q] /\ LengthsOf(u[q], len2) = LengthsOf(s[q], length)
  /\ Len(u[from]) = Len(s[from]) - 1 /\ Len(u[to]) = Len(s[to]) + 1
  /\ LengthsOf(s[from], length) # << >>
  /\ Head(LengthsOf(s[from], length)) = length[s[from][1]]

LEMMA MoveLengths ==
  ASSUME TypeOK, NEW s, Owned(s), NEW from \in Queues, NEW to \in Queues,
         from # to, s[from] # << >>, NEW l \in 0 .. 255, NEW u, NEW len2,
         MovesTo(s, from, to, l, u, len2)
  PROVE  LengthsMove(s, from, to, l, u, len2)
<1> DEFINE pb == s[from][1]
<1>1. /\ s \in [Queues -> Seq(Buffers)] /\ OncePlaced(s)
      /\ length \in [Buffers -> 0 .. 255]
      /\ \A q \in Queues : s[q] \in Seq(Buffers)
  BY DEF Owned, TypeOK
<1>2. \A q \in Queues : NoRepeat(s[q])
  BY <1>1, PlacedApart
<1>3. pb \in Buffers /\ Len(s[from]) \in Nat /\ Len(s[from]) > 0
  BY <1>1, EndsOf
<1>4. \A q \in Queues : q # from => \A i \in 1 .. Len(s[q]) : s[q][i] # pb
  BY <1>1, <1>3 DEF OncePlaced
<1>5. /\ u[from] = Tail(s[from]) /\ u[to] = Append(s[to], pb)
      /\ \A q \in Queues : q # from /\ q # to => u[q] = s[q]
  BY <1>1 DEF Moved, MovesTo
<1>6. Len(u[from]) = Len(s[from]) - 1 /\ Len(u[to]) = Len(s[to]) + 1
  BY <1>1, <1>3, <1>5
<1> HIDE DEF pb
<1>7. len2 = [length EXCEPT ![pb] = l]
  BY DEF pb, MovesTo
<1>8. LengthsOf(u[from], len2) = Tail(LengthsOf(s[from], length))
      /\ Head(LengthsOf(s[from], length)) = length[pb]
  <2>1. LengthsOf(Tail(s[from]), [length EXCEPT ![pb] = l]) = Tail(LengthsOf(s[from], length))
        /\ Head(LengthsOf(s[from], length)) = length[pb]
    BY <1>1, <1>2, LengthsTail DEF pb
  <2> QED BY <2>1, <1>5, <1>7
<1>9. LengthsOf(u[to], len2) = Append(LengthsOf(s[to], length), l)
  <2>1. LengthsOf(Append(s[to], pb), [length EXCEPT ![pb] = l])
          = Append(LengthsOf(s[to], length), l)
    BY <1>1, <1>3, <1>4, LengthsAppend
  <2> QED BY <2>1, <1>5, <1>7
<1>10. ASSUME NEW q \in Queues, q # from, q # to
       PROVE  LengthsOf(u[q], len2) = LengthsOf(s[q], length)
  <2>1. LengthsOf(s[q], [length EXCEPT ![pb] = l]) = LengthsOf(s[q], length)
    <3>1. s[q] \in Seq(Buffers) /\ \A i \in 1 .. Len(s[q]) : s[q][i] # pb
      BY <1>1, <1>4, <1>10
    <3> QED BY <3>1, <1>1, <1>3, LengthsFrame
  <2> QED BY <2>1, <1>5, <1>7, <1>10
<1>11. LengthsOf(s[from], length) # << >>
  BY <1>1, LengthsType
<1> QED BY <1>5, <1>6, <1>8, <1>9, <1>10, <1>11 DEF pb, LengthsMove


(***************************************************************************)
(* What an event is due, as a function of the variables it depends on.     *)
(***************************************************************************)
AheadOf(a, b, k) ==
  LET f == (a + k) % FACE_COUNT
  IN  IF a + k <= b THEN Pieces(f, WindowWords(f)) ELSE << >>

DueOf(p, a, b, w) ==
  IF p = "ship" THEN Pieces(a % FACE_COUNT, w) \o AheadOf(a, b, 1) \o AheadOf(a, b, 2)
  ELSE << >>

LEMMA DueIs == StillDue = DueOf(pc, fm, lastFaceM, wordCount)
BY DEF StillDue, DueOf, Ahead, AheadOf

LEMMA PiecesAre ==
  ASSUME NEW f, NEW w \in 1 .. 2 * PACKET_MAX_WORDS
  PROVE  /\ w > PACKET_MAX_WORDS => Pieces(f, w) = <<<<f, w - PACKET_MAX_WORDS>>, <<f, 0>>>>
         /\ w <= PACKET_MAX_WORDS => Pieces(f, w) = <<<<f, 0>>>>
<1>0. PACKET_MAX_WORDS \in Nat
  BY WorkloadAssumption
<1>1. CASE w > PACKET_MAX_WORDS
  <2>1. Packets(w) = 2
    BY <1>1 DEF Packets
  <2>2. Pieces(f, w) = [i \in 1 .. 2 |-> <<f, Lengths(w)[i]>>]
    BY <2>1 DEF Pieces
  <2>3. Lengths(w)[1] = w - PACKET_MAX_WORDS /\ Lengths(w)[2] = 0
    BY <2>1 DEF Lengths
  <2> QED BY <2>2, <2>3, <1>0, <1>1
<1>2. CASE w <= PACKET_MAX_WORDS
  <2>1. Packets(w) = 1
    BY <1>0, <1>2 DEF Packets
  <2>2. Pieces(f, w) = [i \in 1 .. 1 |-> <<f, Lengths(w)[i]>>]
    BY <2>1 DEF Pieces
  <2>3. Lengths(w)[1] = 0
    BY <2>1 DEF Lengths
  <2> QED BY <2>2, <2>3, <1>0, <1>2
<1> QED BY <1>0, <1>1, <1>2

LEMMA PiecesType ==
  ASSUME NEW f \in Int, NEW w \in 1 .. 2 * PACKET_MAX_WORDS
  PROVE  Pieces(f, w) \in Seq(Int \X Int)
<1>1. /\ <<f, 0>> \in Int \X Int /\ <<f, w - PACKET_MAX_WORDS>> \in Int \X Int
      /\ w > PACKET_MAX_WORDS \/ w <= PACKET_MAX_WORDS
  BY WorkloadAssumption
<1>2. \A S : \A x, y \in S : <<x>> \in Seq(S) /\ <<x, y>> \in Seq(S)
  OBVIOUS
<1>3. /\ <<<<f, 0>>>> \in Seq(Int \X Int)
      /\ <<<<f, w - PACKET_MAX_WORDS>>, <<f, 0>>>> \in Seq(Int \X Int)
  BY <1>1, <1>2, Zenon
<1> QED BY <1>1, <1>3, PiecesAre, Zenon

LEMMA AheadType ==
  ASSUME NEW a \in Nat, NEW b \in Nat, NEW k \in Nat
  PROVE  AheadOf(a, b, k) \in Seq(Int \X Int)
<1>1. a + k \in Nat /\ (a + k) % FACE_COUNT \in Int
  BY ModType DEF Faces
<1>2. WindowWords((a + k) % FACE_COUNT) \in 1 .. 2 * PACKET_MAX_WORDS
  BY <1>1, WindowType
<1>3. Pieces((a + k) % FACE_COUNT, WindowWords((a + k) % FACE_COUNT)) \in Seq(Int \X Int)
  BY <1>1, <1>2, PiecesType
<1> QED BY <1>3 DEF AheadOf

\* Sequences joined to sequences of one or two elements.
LEMMA Joined ==
  ASSUME NEW S, NEW x \in S, NEW y \in S, NEW a \in Seq(S), NEW b \in Seq(S)
  PROVE  /\ <<x>> \o a \o b # << >> /\ Head(<<x>> \o a \o b) = x
         /\ Tail(<<x>> \o a \o b) = a \o b
         /\ <<x, y>> \o a \o b # << >> /\ Head(<<x, y>> \o a \o b) = x
         /\ Tail(<<x, y>> \o a \o b) = <<y>> \o a \o b
         /\ a \o << >> = a
<1>1. <<x>> \o a \o b # << >> /\ Head(<<x>> \o a \o b) = x
  OBVIOUS
<1>2. <<x, y>> \o a \o b # << >> /\ Head(<<x, y>> \o a \o b) = x
  OBVIOUS
<1>3. Tail(<<x>> \o a \o b) = a \o b
  OBVIOUS
<1>4. Tail(<<x, y>> \o a \o b) = <<y>> \o a \o b
  OBVIOUS
<1>5. a \o << >> = a
  OBVIOUS
<1> QED BY <1>1, <1>2, <1>3, <1>4, <1>5


\* The words that a packet leaves, of w that are still to go.
RestOf(w) == w - (IF w > PACKET_MAX_WORDS THEN PACKET_MAX_WORDS ELSE w)

\* Shipping a packet takes the first off what is due.
DueShipped(a, b, w, rest) ==
  /\ rest \in 0 .. PACKET_MAX_WORDS
  /\ DueOf("ship", a, b, w) # << >>
  /\ Head(DueOf("ship", a, b, w)) = <<a % FACE_COUNT, rest>>
  /\ rest > 0 => DueOf("ship", a, b, rest) = Tail(DueOf("ship", a, b, w))
  /\ rest <= 0 /\ a < b =>
       DueOf("ship", a + 1, b, WindowWords((a + 1) % FACE_COUNT))
         = Tail(DueOf("ship", a, b, w))
  /\ rest <= 0 /\ ~ a < b => << >> = Tail(DueOf("ship", a, b, w))

LEMMA DueAfterShip ==
  ASSUME NEW a \in Nat, NEW b \in Nat, NEW w \in 1 .. 2 * PACKET_MAX_WORDS,
         a <= b, b <= a + 2,
         NEW rest, rest = RestOf(w)
  PROVE  DueShipped(a, b, w, rest)
<1> DEFINE f == a % FACE_COUNT
           S == Int \X Int
           n1 == AheadOf(a, b, 1)
           n2 == AheadOf(a, b, 2)
<1>0. PACKET_MAX_WORDS \in Nat \ {0} /\ f \in Int
  BY ModType, WorkloadAssumption DEF Faces
<1>1. n1 \in Seq(S) /\ n2 \in Seq(S)
  BY AheadType
<1>2. <<f, 0>> \in S /\ \A r \in Int : <<f, r>> \in S
  BY <1>0
<1>3. DueOf("ship", a, b, w) = Pieces(f, w) \o n1 \o n2
  BY DEF DueOf
<1>4. DueOf("ship", a, b, rest) = Pieces(f, rest) \o n1 \o n2
  BY DEF DueOf
<1>5. rest \in 0 .. PACKET_MAX_WORDS /\ (rest > 0 <=> w > PACKET_MAX_WORDS)
      /\ (w > PACKET_MAX_WORDS => rest = w - PACKET_MAX_WORDS)
  BY <1>0 DEF RestOf
<1>6. /\ <<f, 0>> \in S /\ <<f, rest>> \in S
  BY <1>0, <1>2, <1>5
<1>7. a < b =>
        DueOf("ship", a + 1, b, WindowWords((a + 1) % FACE_COUNT)) = n1 \o n2
  <2> SUFFICES ASSUME a < b
               PROVE  DueOf("ship", a + 1, b, WindowWords((a + 1) % FACE_COUNT)) = n1 \o n2
    OBVIOUS
  <2> DEFINE g == (a + 1) % FACE_COUNT
             m1 == AheadOf(a + 1, b, 1)
             m2 == AheadOf(a + 1, b, 2)
  <2>1. n1 = Pieces(g, WindowWords(g))
    BY DEF AheadOf
  <2>2. m1 = n2
    <3>1. a + 1 + 1 = a + 2
      OBVIOUS
    <3> QED BY <3>1, Zenon DEF AheadOf
  <2>3. m2 = << >>
    <3>1. ~ a + 1 + 2 <= b
      OBVIOUS
    <3> QED BY <3>1 DEF AheadOf
  <2>4. DueOf("ship", a + 1, b, WindowWords(g)) = Pieces(g, WindowWords(g)) \o m1 \o m2
    BY Zenon DEF DueOf
  <2> HIDE DEF n1, n2, m1, m2, g
  <2>5. n1 \o n2 \in Seq(S)
    BY <1>1
  <2>6. n1 \o n2 \o << >> = n1 \o n2
    BY <2>5, <1>6, Joined
  <2> QED BY <2>1, <2>2, <2>3, <2>4, <2>6, Zenon DEF g
<1>8. ~ a < b => n1 \o n2 = << >>
  <2>1. ~ a < b => n1 = << >> /\ n2 = << >>
    BY DEF AheadOf
  <2>2. << >> \o << >> = << >>
    OBVIOUS
  <2> QED BY <2>1, <2>2, Zenon
<1> HIDE DEF n1, n2, f, S
<1>9. CASE w > PACKET_MAX_WORDS
  <2>1. Pieces(f, w) = <<<<f, rest>>, <<f, 0>>>>
    BY <1>5, <1>9, PiecesAre
  <2>2. Pieces(f, rest) = <<<<f, 0>>>>
    <3>1. rest \in 1 .. 2 * PACKET_MAX_WORDS /\ rest <= PACKET_MAX_WORDS
      BY <1>0, <1>5, <1>9
    <3> QED BY <3>1, PiecesAre
  <2>3. /\ <<<<f, rest>>, <<f, 0>>>> \o n1 \o n2 # << >>
        /\ Head(<<<<f, rest>>, <<f, 0>>>> \o n1 \o n2) = <<f, rest>>
        /\ Tail(<<<<f, rest>>, <<f, 0>>>> \o n1 \o n2) = <<<<f, 0>>>> \o n1 \o n2
    <3>1. PICK x \in S, y \in S : x = <<f, rest>> /\ y = <<f, 0>>
      BY <1>6
    <3>2. /\ <<x, y>> \o n1 \o n2 # << >> /\ Head(<<x, y>> \o n1 \o n2) = x
          /\ Tail(<<x, y>> \o n1 \o n2) = <<y>> \o n1 \o n2
      BY <1>1, Joined
    <3> QED BY <3>1, <3>2, Zenon
  <2>4. rest > 0 /\ ~ rest <= 0
    BY <1>0, <1>5, <1>9
  <2> QED BY <1>3, <1>4, <1>5, <2>1, <2>2, <2>3, <2>4, Zenon DEF f, DueShipped
<1>10. CASE ~ w > PACKET_MAX_WORDS
  <2>1. rest = 0 /\ ~ rest > 0 /\ w <= PACKET_MAX_WORDS
    BY <1>0, <1>5, <1>10
  <2>2. Pieces(f, w) = <<<<f, rest>>>>
    BY <2>1, PiecesAre
  <2>3. /\ <<<<f, rest>>>> \o n1 \o n2 # << >>
        /\ Head(<<<<f, rest>>>> \o n1 \o n2) = <<f, rest>>
        /\ Tail(<<<<f, rest>>>> \o n1 \o n2) = n1 \o n2
    BY <1>1, <1>6, Joined
  <2> QED BY <1>3, <1>5, <1>7, <1>8, <2>1, <2>2, <2>3, Zenon DEF f, DueShipped
<1> QED BY <1>9, <1>10


(***************************************************************************)
(* Starting an event makes its packets due.                                *)
(***************************************************************************)
LEMMA PiecesSame ==
  ASSUME NEW f \in Faces
  PROVE  Traffic!Pieces(f) = Pieces(f, WindowWords(f))
<1>1. Load0[f] = Lengths(WindowWords(f))
  BY DEF Load0
<1>2. PICK w \in 1 .. 2 * PACKET_MAX_WORDS : w = WindowWords(f)
  BY WindowType DEF Faces
<1>3. Packets(w) \in Nat
  BY DEF Packets
<1>4. Len(Lengths(w)) = Packets(w)
  BY <1>3 DEF Lengths
<1> QED BY <1>1, <1>2, <1>4 DEF Traffic!Pieces, Pieces

LEMMA EventFaces ==
  ASSUME NEW e \in Faces
  PROVE  /\ e % FACE_COUNT = e
         /\ (e + 1) % FACE_COUNT \in Faces
         /\ IsCorner(e) => /\ e - 1 \in Faces
                           /\ (e + FACE_COUNT - 1) % FACE_COUNT = e - 1
                           /\ (e + FACE_COUNT - 1 + 1) % FACE_COUNT = e
                           /\ (e + FACE_COUNT - 1 + 2) % FACE_COUNT = (e + 1) % FACE_COUNT
<1> DEFINE N == FACE_COUNT
<1>1. N \in Nat /\ N >= 3 /\ e \in 0 .. N - 1
  BY WorkloadAssumption DEF Faces
<1>2. IsCorner(e) => e # 0
  BY <1>1 DEF IsCorner
<1>3. e % N = e /\ (e + 1) % N \in 0 .. N - 1
  BY <1>1
<1>4. \A x \in 0 .. N - 1 : (x + N) % N = x
  BY <1>1
<1>5. ASSUME IsCorner(e)
      PROVE  /\ e - 1 \in 0 .. N - 1
             /\ (e + N - 1) % N = e - 1 /\ (e + N - 1 + 1) % N = e
             /\ (e + N - 1 + 2) % N = (e + 1) % N
  <2>1. e - 1 \in 0 .. N - 1 /\ e - 1 + N = e + N - 1 /\ e + N - 1 + 1 = e + N
    BY <1>1, <1>2, <1>5
  <2>2. (e + N - 1) % N = e - 1 /\ (e + N - 1 + 1) % N = e
    BY <2>1, <1>1, <1>4
  <2>3. (e + N - 1 + 2) % N = (e + 1) % N
    <3>1. CASE e + 1 \in 0 .. N - 1
      <4>1. e + N - 1 + 2 = e + 1 + N
        BY <1>1
      <4> QED BY <3>1, <4>1, <1>1, <1>4
    <3>2. CASE e + 1 = N
      <4>1. e + N - 1 + 2 = N + N
        BY <1>1, <3>2
      <4>2. (N + N) % N = 0 /\ N % N = 0
        BY <1>1
      <4> QED BY <3>2, <4>1, <4>2
    <3> QED BY <1>1, <3>1, <3>2
  <2> QED BY <2>1, <2>2, <2>3
<1> QED BY <1>3, <1>5 DEF Faces, N

LEMMA DueAtStart ==
  ASSUME NEW e \in Faces, NEW a, NEW b,
         a = IF IsCorner(e) THEN e + FACE_COUNT - 1 ELSE e,
         b = IF IsCorner(e) THEN e + FACE_COUNT + 1 ELSE e
  PROVE  DueOf("ship", a, b, WindowWords(a % FACE_COUNT)) = Traffic!EventOn(e)
<1>0. e \in Nat /\ FACE_COUNT \in Nat /\ FACE_COUNT >= 3
  BY WorkloadAssumption DEF Faces
<1> DEFINE P(f) == Pieces(f, WindowWords(f))
<1>1. DueOf("ship", a, b, WindowWords(a % FACE_COUNT))
        = P(a % FACE_COUNT) \o AheadOf(a, b, 1) \o AheadOf(a, b, 2)
  BY Zenon DEF DueOf
<1>2. \A f \in Faces : Traffic!Pieces(f) = P(f)
  BY PiecesSame
<1>3. CASE IsCorner(e)
  <2>1. a = e + FACE_COUNT - 1 /\ b = a + 2 /\ a + 1 <= b /\ a + 2 <= b
    BY <1>0, <1>3
  <2>2. /\ a % FACE_COUNT = e - 1 /\ (a + 1) % FACE_COUNT = e
        /\ (a + 2) % FACE_COUNT = (e + 1) % FACE_COUNT
        /\ e - 1 \in Faces /\ (e + 1) % FACE_COUNT \in Faces
    BY <2>1, <1>3, EventFaces
  <2>3. AheadOf(a, b, 1) = P(e) /\ AheadOf(a, b, 2) = P((e + 1) % FACE_COUNT)
    BY <2>1, <2>2, Zenon DEF AheadOf
  <2> HIDE DEF P
  <2>4. Traffic!EventOn(e)
          = Traffic!Pieces(e - 1) \o Traffic!Pieces(e) \o Traffic!Pieces((e + 1) % FACE_COUNT)
    BY <1>3 DEF Traffic!EventOn, IsCorner
  <2> QED BY <1>1, <1>2, <2>2, <2>3, <2>4, Zenon
<1>4. CASE ~ IsCorner(e)
  <2>1. a = e /\ b = e /\ ~ a + 1 <= b /\ ~ a + 2 <= b
    BY <1>0, <1>4
  <2>2. a % FACE_COUNT = e
    BY <2>1, EventFaces
  <2>3. AheadOf(a, b, 1) = << >> /\ AheadOf(a, b, 2) = << >>
    BY <2>1, Zenon DEF AheadOf
  <2>4. P(e) \in Seq(Int \X Int)
    BY <1>0, WindowType, PiecesType
  <2> HIDE DEF P
  <2>5. P(e) \o << >> \o << >> = P(e)
    BY <2>4
  <2>6. Traffic!EventOn(e) = Traffic!Pieces(e)
    BY <1>4 DEF Traffic!EventOn, IsCorner
  <2> QED BY <1>1, <1>2, <2>2, <2>3, <2>5, <2>6, Zenon
<1> QED BY <1>3, <1>4


(***************************************************************************)
(* The state of EventTraffic, from the sequences that the lists hold.      *)
(***************************************************************************)
OutgoingOf(s, len) == [f \in Faces |-> LengthsOf(s[Out(f)], len)]
ArrivedOf(s, len) == [f \in Faces |-> LengthsOf(s[In(f)], len)]

LEMMA TrafficState ==
  ASSUME NEW s, Owned(s)
  PROVE  /\ Spare0 = Len(s[FreeList])
         /\ Outgoing0 = OutgoingOf(s, length) /\ Arrived0 = ArrivedOf(s, length)
<1> DEFINE qs == queue
           n == nx
<1>1. /\ s \in [Queues -> Seq(Buffers)] /\ OncePlaced(s)
      /\ \A q \in Queues : Holds(qs[q], n, s[q])
  BY DEF Owned
<1> HIDE DEF qs, n
<1>2. \A q \in Queues : ListOf(qs[q], n) = s[q]
  BY <1>1, ListsOf
<1>3. \A q \in Queues : ListOf(queue[q], nx) = s[q]
  BY <1>2 DEF qs, n
<1>4. \A q \in Queues : QueuedLengths(q) = LengthsOf(s[q], length)
  BY <1>3, Zenon DEF QueuedLengths, LengthsOf
<1> QED BY <1>3, <1>4, QueueNames DEF Spare0, Outgoing0, Arrived0, OutgoingOf, ArrivedOf

LEMMA TrafficStateNext ==
  ASSUME NEW s, Owned(s)'
  PROVE  /\ Spare0' = Len(s[FreeList])
         /\ Outgoing0' = OutgoingOf(s, length') /\ Arrived0' = ArrivedOf(s, length')
<1> DEFINE qs == queue'
           n == nx'
<1>1. /\ s \in [Queues -> Seq(Buffers)] /\ OncePlaced(s)
      /\ \A q \in Queues : Holds(qs[q], n, s[q])
  BY DEF Owned, OncePlaced, Queues
<1> HIDE DEF qs, n
<1>2. \A q \in Queues : ListOf(qs[q], n) = s[q]
  BY <1>1, ListsOf
<1>3. \A q \in Queues : ListOf(queue'[q], nx') = s[q]
  BY <1>2 DEF qs, n
<1>4. \A q \in Queues : QueuedLengths(q)' = LengthsOf(s[q], length')
  BY <1>3, Zenon DEF QueuedLengths, LengthsOf
<1> QED BY <1>3, <1>4, QueueNames DEF Spare0, Outgoing0, Arrived0, OutgoingOf, ArrivedOf

\* The lengths on the faces when a packet leaves or joins their queues.
Processed(s, g, u, len2) ==
  /\ Len(u[FreeList]) = Len(s[FreeList]) + 1
  /\ ArrivedOf(s, length)[g] # << >>
  /\ ArrivedOf(u, len2) = [ArrivedOf(s, length) EXCEPT ![g] = Tail(@)]
  /\ OutgoingOf(u, len2) = OutgoingOf(s, length)

LEMMA ProcessedLengths ==
  ASSUME TypeOK, NEW s, Owned(s), NEW g \in Faces, s[In(g)] # << >>, NEW l \in 0 .. 255,
         NEW u, NEW len2, MovesTo(s, In(g), FreeList, l, u, len2)
  PROVE  Processed(s, g, u, len2)
<1>1. In(g) \in Queues /\ FreeList \in Queues /\ In(g) # FreeList
  BY QueueNames
<1>2. /\ LengthsOf(u[In(g)], len2) = Tail(LengthsOf(s[In(g)], length))
      /\ Len(u[FreeList]) = Len(s[FreeList]) + 1
      /\ LengthsOf(s[In(g)], length) # << >>
      /\ \A q \in Queues : q # In(g) /\ q # FreeList =>
           u[q] = s[q] /\ LengthsOf(u[q], len2) = LengthsOf(s[q], length)
  <2>1. LengthsMove(s, In(g), FreeList, l, u, len2)
    BY <1>1, MoveLengths
  <2> QED BY <2>1 DEF LengthsMove
<1>3. \A f \in Faces : /\ f # g => LengthsOf(u[In(f)], len2) = LengthsOf(s[In(f)], length)
                       /\ LengthsOf(u[Out(f)], len2) = LengthsOf(s[Out(f)], length)
  BY <1>2, QueueNames
<1> QED BY <1>2, <1>3 DEF ArrivedOf, OutgoingOf, Processed

Supplied(s, g, u, len2) ==
  /\ u[FreeList] = s[FreeList]
  /\ OutgoingOf(s, length)[g] # << >> /\ ArrivedOf(s, length)[g] = << >>
  /\ ArrivedOf(u, len2) =
       [ArrivedOf(s, length) EXCEPT ![g] = <<Head(OutgoingOf(s, length)[g])>>]
  /\ OutgoingOf(u, len2) = [OutgoingOf(s, length) EXCEPT ![g] = Tail(@)]

LEMMA SuppliedLengths ==
  ASSUME TypeOK, NEW s, Owned(s), NEW g \in Faces, s[Out(g)] # << >>, s[In(g)] = << >>,
         NEW l, l = length[s[Out(g)][1]], l \in 0 .. 255,
         NEW u, NEW len2, MovesTo(s, Out(g), In(g), l, u, len2)
  PROVE  Supplied(s, g, u, len2)
<1>1. Out(g) \in Queues /\ In(g) \in Queues /\ Out(g) # In(g)
  BY QueueNames
<1>2. /\ LengthsOf(u[Out(g)], len2) = Tail(LengthsOf(s[Out(g)], length))
      /\ LengthsOf(u[In(g)], len2) = Append(LengthsOf(s[In(g)], length), l)
      /\ LengthsOf(s[Out(g)], length) # << >>
      /\ Head(LengthsOf(s[Out(g)], length)) = l
      /\ \A q \in Queues : q # Out(g) /\ q # In(g) =>
           u[q] = s[q] /\ LengthsOf(u[q], len2) = LengthsOf(s[q], length)
  <2>1. LengthsMove(s, Out(g), In(g), l, u, len2)
    BY <1>1, MoveLengths
  <2> QED BY <2>1 DEF LengthsMove
<1>3. \A f \in Faces : f # g => /\ LengthsOf(u[In(f)], len2) = LengthsOf(s[In(f)], length)
                                /\ LengthsOf(u[Out(f)], len2) = LengthsOf(s[Out(f)], length)
  BY <1>2, QueueNames
<1>4. LengthsOf(s[In(g)], length) = << >> /\ Append(<< >>, l) = <<l>>
  <2>1. s[In(g)] \in Seq(Buffers) /\ length \in [Buffers -> 0 .. 255]
    BY <1>1 DEF Owned, TypeOK
  <2>2. \A x : Append(<< >>, x) = <<x>>
    OBVIOUS
  <2> QED BY <2>1, <2>2, LengthsType
<1>5. u[FreeList] = s[FreeList]
  BY <1>2, QueueNames
<1> QED BY <1>2, <1>3, <1>4, <1>5 DEF ArrivedOf, OutgoingOf, Supplied

Shipped(s, g, l, u, len2) ==
  /\ Len(u[FreeList]) = Len(s[FreeList]) - 1
  /\ ArrivedOf(u, len2) = ArrivedOf(s, length)
  /\ OutgoingOf(u, len2) = [OutgoingOf(s, length) EXCEPT ![g] = Append(@, l)]

LEMMA ShippedLengths ==
  ASSUME TypeOK, NEW s, Owned(s), NEW g \in Faces, s[FreeList] # << >>, NEW l \in 0 .. 255,
         NEW u, NEW len2, MovesTo(s, FreeList, Out(g), l, u, len2)
  PROVE  Shipped(s, g, l, u, len2)
<1>1. FreeList \in Queues /\ Out(g) \in Queues /\ FreeList # Out(g)
  BY QueueNames
<1>2. /\ LengthsOf(u[Out(g)], len2) = Append(LengthsOf(s[Out(g)], length), l)
      /\ Len(u[FreeList]) = Len(s[FreeList]) - 1
      /\ \A q \in Queues : q # FreeList /\ q # Out(g) =>
           u[q] = s[q] /\ LengthsOf(u[q], len2) = LengthsOf(s[q], length)
  <2>1. LengthsMove(s, FreeList, Out(g), l, u, len2)
    BY <1>1, MoveLengths
  <2> QED BY <2>1 DEF LengthsMove
<1>3. \A f \in Faces : /\ f # g => LengthsOf(u[Out(f)], len2) = LengthsOf(s[Out(f)], length)
                       /\ LengthsOf(u[In(f)], len2) = LengthsOf(s[In(f)], length)
  BY <1>2, QueueNames
<1> QED BY <1>2, <1>3 DEF ArrivedOf, OutgoingOf, Shipped


(***************************************************************************)
(* Every step of the sketch is a step of EventTraffic, or changes nothing  *)
(* there.                                                                  *)
(***************************************************************************)
LEMMA FirstOf ==
  ASSUME NEW s, Owned(s), NEW q \in Queues, s[q] # << >>
  PROVE  queue[q].first = s[q][1] /\ s[q][1] \in Buffers
<1>1. s[q] \in Seq(Buffers) /\ Holds(queue[q], nx, s[q])
  BY DEF Owned
<1> QED BY <1>1, EndsOf DEF Holds

LEMMA MoveChanges ==
  ASSUME TypeOK, NEW s, Owned(s), NEW from \in Queues, NEW to \in Queues,
         from # to, s[from] # << >>, NEW l \in 0 .. 255, Move(from, to, l), uninit' = uninit
  PROVE  \E u, len2 : MovesTo(s, from, to, l, u, len2) /\ len2 = length' /\ Owned(u)'
<1>1. length' = [length EXCEPT ![s[from][1]] = l]
  BY FirstOf DEF Move
<1>2. Owned(Moved(s, from, to))'
  BY MoveOwned
<1> QED BY <1>1, <1>2 DEF MovesTo

LEMMA ConsumeStep ==
  ASSUME TypeOK, NEW s, Owned(s), ProcessInbound
  PROVE  Traffic!Next
<1>1. PICK g \in Faces : g = face
  BY DEF TypeOK
<1>2. /\ pc = "inbound" /\ pc' # "ship" /\ uninit' = uninit /\ ~IsEmpty(queue[In(g)])
      /\ Move(In(g), FreeList, length[queue[In(g)].first])
  BY <1>1 DEF ProcessInbound, NextFace
<1>3. In(g) \in Queues /\ FreeList \in Queues /\ In(g) # FreeList
  BY QueueNames
<1>4. s[In(g)] # << >>
  BY <1>2, <1>3, EmptyIff
<1>5. queue[In(g)].first \in Buffers
  BY <1>3, <1>4, FirstOf
<1>6. PICK l \in 0 .. 255 : l = length[queue[In(g)].first]
  BY <1>5 DEF TypeOK
<1>7. Move(In(g), FreeList, l)
  BY <1>2, <1>6
<1>8. PICK u, len2 : MovesTo(s, In(g), FreeList, l, u, len2) /\ len2 = length' /\ Owned(u)'
  BY <1>2, <1>3, <1>4, <1>7, MoveChanges
<1>9. /\ Len(u[FreeList]) = Len(s[FreeList]) + 1
      /\ ArrivedOf(s, length)[g] # << >>
      /\ ArrivedOf(u, len2) = [ArrivedOf(s, length) EXCEPT ![g] = Tail(@)]
      /\ OutgoingOf(u, len2) = OutgoingOf(s, length)
  <2>1. Processed(s, g, u, len2)
    BY <1>4, <1>8, ProcessedLengths
  <2> QED BY <2>1 DEF Processed
<1>10. /\ Spare0' = Len(u[FreeList])
       /\ Outgoing0' = OutgoingOf(u, length') /\ Arrived0' = ArrivedOf(u, length')
  BY <1>8, TrafficStateNext
<1>11. StillDue = << >> /\ StillDue' = << >>
  BY <1>2 DEF StillDue
<1>12. /\ Spare0 = Len(s[FreeList])
       /\ Outgoing0 = OutgoingOf(s, length) /\ Arrived0 = ArrivedOf(s, length)
  BY TrafficState
<1>13. Traffic!Consume(g)
  BY <1>8, <1>9, <1>10, <1>11, <1>12 DEF Traffic!Consume
<1> QED BY <1>13 DEF Traffic!Next, Traffic!Faces, Faces

LEMMA EchoStep ==
  ASSUME TypeOK, NEW s, Owned(s), InLoop(s), SupplyOutbound
  PROVE  Traffic!Next
<1>1. PICK g \in Faces : g = face
  BY DEF TypeOK
<1>2. /\ pc = "supply" /\ pc' # "ship" /\ uninit' = uninit /\ ~IsEmpty(queue[Out(g)])
      /\ Move(Out(g), In(g), length[queue[Out(g)].first])
  BY <1>1 DEF SupplyOutbound, NextFace
<1>3. Out(g) \in Queues /\ In(g) \in Queues /\ Out(g) # In(g)
  BY QueueNames
<1>4. s[Out(g)] # << >> /\ s[In(g)] = << >>
  <2>1. g >= face
    BY <1>1 DEF Faces
  <2> QED BY <2>1, <1>2, <1>3, EmptyIff DEF InLoop, SupplyShape
<1>5. queue[Out(g)].first = s[Out(g)][1] /\ queue[Out(g)].first \in Buffers
  BY <1>3, <1>4, FirstOf
<1>6. PICK l \in 0 .. 255 : l = length[queue[Out(g)].first]
  BY <1>5 DEF TypeOK
<1>7. Move(Out(g), In(g), l) /\ l = length[s[Out(g)][1]]
  BY <1>2, <1>5, <1>6
<1>8. PICK u, len2 : MovesTo(s, Out(g), In(g), l, u, len2) /\ len2 = length' /\ Owned(u)'
  BY <1>2, <1>3, <1>4, <1>7, MoveChanges
<1>9. /\ u[FreeList] = s[FreeList]
      /\ OutgoingOf(s, length)[g] # << >> /\ ArrivedOf(s, length)[g] = << >>
      /\ ArrivedOf(u, len2) =
           [ArrivedOf(s, length) EXCEPT ![g] = <<Head(OutgoingOf(s, length)[g])>>]
      /\ OutgoingOf(u, len2) = [OutgoingOf(s, length) EXCEPT ![g] = Tail(@)]
  <2>1. Supplied(s, g, u, len2)
    BY <1>4, <1>7, <1>8, SuppliedLengths
  <2> QED BY <2>1 DEF Supplied
<1>10. /\ Spare0' = Len(u[FreeList])
       /\ Outgoing0' = OutgoingOf(u, length') /\ Arrived0' = ArrivedOf(u, length')
  BY <1>8, TrafficStateNext
<1>11. StillDue = << >> /\ StillDue' = << >>
  BY <1>2 DEF StillDue
<1>12. /\ Spare0 = Len(s[FreeList])
       /\ Outgoing0 = OutgoingOf(s, length) /\ Arrived0 = ArrivedOf(s, length)
  BY TrafficState
<1>13. Traffic!Echo(g)
  BY <1>8, <1>9, <1>10, <1>11, <1>12 DEF Traffic!Echo
<1> QED BY <1>13 DEF Traffic!Next, Traffic!Faces, Faces

LEMMA ShipStep ==
  ASSUME TypeOK, NEW s, Owned(s), InLoop(s), ShipPacket
  PROVE  Traffic!Next
<1> DEFINE r == RestOf(wordCount)
<1>1. /\ pc = "ship" /\ ~IsEmpty(queue[FreeList]) /\ uninit' = uninit
      /\ Move(FreeList, Out(fm % FACE_COUNT), r) /\ NextPacket(r)
  BY DEF ShipPacket, RestOf
<1>2. PICK l : l = r
  OBVIOUS
<1>3. PICK a \in Nat, b \in Nat : a = fm /\ b = lastFaceM
  BY WorkloadAssumption DEF TypeOK
<1>4. a <= b /\ b <= a + 2 /\ wordCount \in 1 .. 2 * PACKET_MAX_WORDS
  BY <1>1, <1>3, WorkloadAssumption DEF TypeOK, InLoop, ShipShape
<1>5. PICK w \in 1 .. 2 * PACKET_MAX_WORDS : w = wordCount
  BY <1>4
<1>6. l = RestOf(w)
  BY <1>2, <1>5
<1>7. /\ l \in 0 .. PACKET_MAX_WORDS
      /\ DueOf("ship", a, b, w) # << >>
      /\ Head(DueOf("ship", a, b, w)) = <<a % FACE_COUNT, l>>
      /\ l > 0 => DueOf("ship", a, b, l) = Tail(DueOf("ship", a, b, w))
      /\ l <= 0 /\ a < b => DueOf("ship", a + 1, b, WindowWords((a + 1) % FACE_COUNT))
                              = Tail(DueOf("ship", a, b, w))
      /\ l <= 0 /\ ~ a < b => << >> = Tail(DueOf("ship", a, b, w))
  <2>1. DueShipped(a, b, w, l)
    BY <1>4, <1>6, DueAfterShip
  <2> QED BY <2>1 DEF DueShipped
<1>8. StillDue = DueOf("ship", a, b, w)
  BY <1>1, <1>3, <1>5, DueIs
<1>9. StillDue' = Tail(StillDue)
  <2>0. StillDue' = DueOf(pc', fm', lastFaceM', wordCount')
    BY DEF StillDue, DueOf, Ahead, AheadOf
  <2>1. CASE l > 0
    <3>1. pc' = "ship" /\ fm' = a /\ lastFaceM' = b /\ wordCount' = l
      BY <2>1, <1>1, <1>2, <1>3 DEF NextPacket
    <3> QED BY <2>0, <2>1, <3>1, <1>7, <1>8
  <2>2. CASE ~ l > 0 /\ a < b
    <3>1. /\ pc' = "ship" /\ fm' = a + 1 /\ lastFaceM' = b
          /\ wordCount' = WindowWords((a + 1) % FACE_COUNT)
      BY <2>2, <1>1, <1>2, <1>3 DEF NextPacket
    <3>2. l <= 0
      BY <2>2, <1>7, WorkloadAssumption
    <3> QED BY <2>0, <2>2, <3>1, <3>2, <1>7, <1>8
  <2>3. CASE ~ l > 0 /\ ~ a < b
    <3>1. pc' = "supply"
      BY <2>3, <1>1, <1>2, <1>3 DEF NextPacket
    <3>2. l <= 0
      BY <2>3, <1>7, WorkloadAssumption
    <3> QED BY <2>3, <3>1, <3>2, <1>7, <1>8 DEF StillDue
  <2> QED BY <2>1, <2>2, <2>3
<1>10. PICK g \in Faces : g = a % FACE_COUNT
  BY ModType
<1>11. l \in 0 .. 255 /\ Move(FreeList, Out(g), l)
  <2>1. l \in 0 .. 255
    BY <1>7, WorkloadAssumption
  <2> QED BY <2>1, <1>1, <1>2, <1>3, <1>10
<1>12. Out(g) \in Queues /\ FreeList \in Queues /\ FreeList # Out(g)
  BY QueueNames
<1>13. s[FreeList] # << >>
  BY <1>1, <1>12, EmptyIff
<1>14. PICK u, len2 : MovesTo(s, FreeList, Out(g), l, u, len2) /\ len2 = length' /\ Owned(u)'
  BY <1>1, <1>11, <1>12, <1>13, MoveChanges
<1>15. /\ Len(u[FreeList]) = Len(s[FreeList]) - 1
       /\ ArrivedOf(u, len2) = ArrivedOf(s, length)
       /\ OutgoingOf(u, len2) = [OutgoingOf(s, length) EXCEPT ![g] = Append(@, l)]
  <2>1. Shipped(s, g, l, u, len2)
    BY <1>11, <1>13, <1>14, ShippedLengths
  <2> QED BY <2>1 DEF Shipped
<1>16. /\ Spare0' = Len(u[FreeList])
       /\ Outgoing0' = OutgoingOf(u, length') /\ Arrived0' = ArrivedOf(u, length')
  BY <1>14, TrafficStateNext
<1>17. /\ Spare0 = Len(s[FreeList]) /\ Spare0 > 0
       /\ Outgoing0 = OutgoingOf(s, length) /\ Arrived0 = ArrivedOf(s, length)
  <2>1. Len(s[FreeList]) > 0
    BY <1>12, <1>13, EndsOf DEF Owned
  <2> QED BY <2>1, TrafficState
<1>18. Head(StillDue)[1] = g /\ Head(StillDue)[2] = l /\ StillDue # << >>
  BY <1>7, <1>8, <1>10
<1>19. Traffic!Ship
  BY <1>9, <1>14, <1>15, <1>16, <1>17, <1>18 DEF Traffic!Ship
<1> QED BY <1>19 DEF Traffic!Next


LEMMA StockStep ==
  ASSUME TypeOK, NEW s, Owned(s), InLoop(s), InitPacket
  PROVE  Traffic!Next
<1>1. pc = "init" /\ pc' # "ship"
  BY DEF InitPacket
<1>2. PICK pb \in uninit : Frees(pb) /\ Owned(Freed(s, pb))'
  BY InitPacketInv
<1>3. PICK u : u = Freed(s, pb) /\ Owned(u)'
  BY <1>2
<1>4. s \in [Queues -> Seq(Buffers)] /\ s[FreeList] \in Seq(Buffers) /\ pb \in Buffers
  BY QueueNames DEF Owned, TypeOK
<1>5. \A f \in Faces : /\ s[In(f)] = << >> /\ s[Out(f)] = << >>
                       /\ u[In(f)] = << >> /\ u[Out(f)] = << >>
  BY <1>1, <1>3, <1>4, QueueNames DEF InLoop, InitShape, Freed
<1>6. Len(u[FreeList]) = Len(s[FreeList]) + 1 /\ u[FreeList] \in Seq(Buffers)
  <2>1. u[FreeList] = Append(s[FreeList], pb)
    BY <1>3, <1>4, QueueNames DEF Freed
  <2> QED BY <2>1, <1>4
<1>7. Len(u[FreeList]) <= Cardinality(Buffers)
  <2>1. NoRepeat(u[FreeList])
    <3>1. OncePlaced(u)
      BY <1>3 DEF Owned, OncePlaced, Queues
    <3>2. \A i, j \in 1 .. Len(u[FreeList]) : u[FreeList][i] = u[FreeList][j] => i = j
      BY <3>1, QueueNames DEF OncePlaced
    <3> QED BY <3>2 DEF NoRepeat
  <2> QED BY <2>1, <1>6, ShortNoRepeat
<1>8. Len(<< >>) = 0 /\ \A len : LengthsOf(<< >>, len) = << >>
  BY DEF LengthsOf
<1>9. /\ Spare0 = Len(s[FreeList])
      /\ Outgoing0 = OutgoingOf(s, length) /\ Arrived0 = ArrivedOf(s, length)
  BY TrafficState
<1>10. /\ Spare0' = Len(u[FreeList])
       /\ Outgoing0' = OutgoingOf(u, length') /\ Arrived0' = ArrivedOf(u, length')
  BY <1>3, TrafficStateNext
<1>11. \A len : /\ OutgoingOf(s, len) = [f \in Faces |-> << >>]
               /\ ArrivedOf(s, len) = [f \in Faces |-> << >>]
  BY <1>5, <1>8 DEF OutgoingOf, ArrivedOf
<1>12. \A len : /\ OutgoingOf(u, len) = [f \in Faces |-> << >>]
               /\ ArrivedOf(u, len) = [f \in Faces |-> << >>]
  BY <1>5, <1>8 DEF OutgoingOf, ArrivedOf
<1>13. StillDue = << >> /\ StillDue' = << >>
  BY <1>1 DEF StillDue
<1>14. Spare0' = Spare0 + 1 /\ Spare0 < Cardinality(Buffers)
  <2>1. PICK n \in Nat, c \in Nat : n = Len(s[FreeList]) /\ c = Cardinality(Buffers)
    BY <1>4, BuffersAssumption, FS_CardinalityType
  <2>2. n + 1 <= c
    BY <2>1, <1>6, <1>7
  <2> QED BY <2>1, <2>2, <1>6, <1>9, <1>10
<1>15. Traffic!Stock
  BY <1>9, <1>10, <1>11, <1>12, <1>13, <1>14
     DEF Traffic!Stock, Traffic!Quiet, Traffic!Faces, Faces
<1> QED BY <1>15 DEF Traffic!Next

LEMMA BeginStep ==
  ASSUME TypeOK, NEW s, Owned(s), InLoop(s), StartEvent
  PROVE  Traffic!Next
<1>1. pc = "outbound" /\ pc' = "ship" /\ UNCHANGED <<queue, nx, length, uninit>>
      /\ \A f \in Faces : IsEmpty(queue[Out(f)])
      /\ wordCount' = WindowWords(fm' % FACE_COUNT)
  BY DEF StartEvent
<1>2. PICK e \in Faces :
        /\ fm' = IF IsCorner(e) THEN e + FACE_COUNT - 1 ELSE e
        /\ lastFaceM' = IF IsCorner(e) THEN e + FACE_COUNT + 1 ELSE e
  BY DEF StartEvent
<1>3. \A f \in Faces : s[In(f)] = << >> /\ s[Out(f)] = << >>
  BY <1>1, EmptyIff, QueueNames DEF InLoop, OutboundShape
<1>4. Len(s[FreeList]) = Cardinality(Buffers)
  <2>1. Cardinality(Buffers) <= Len(s[FreeList])
    BY <1>1, <1>3, WholePool DEF InLoop
  <2>2. s[FreeList] \in Seq(Buffers) /\ NoRepeat(s[FreeList])
    BY QueueNames, PlacedApart DEF Owned
  <2>3. Len(s[FreeList]) <= Cardinality(Buffers) /\ Len(s[FreeList]) \in Nat
    BY <2>2, ShortNoRepeat
  <2>4. Cardinality(Buffers) \in Nat
    BY BuffersAssumption, FS_CardinalityType
  <2> QED BY <2>1, <2>3, <2>4
<1>5. /\ Spare0 = Len(s[FreeList])
      /\ Outgoing0 = OutgoingOf(s, length) /\ Arrived0 = ArrivedOf(s, length)
  BY TrafficState
<1>6. UNCHANGED <<Spare0, Outgoing0, Arrived0>>
  BY <1>1 DEF Spare0, Outgoing0, Arrived0, QueuedLengths
<1>7. /\ OutgoingOf(s, length) = [f \in Faces |-> << >>]
      /\ ArrivedOf(s, length) = [f \in Faces |-> << >>]
  <2>1. Len(<< >>) = 0 /\ \A len : LengthsOf(<< >>, len) = << >>
    BY DEF LengthsOf
  <2> QED BY <2>1, <1>3 DEF OutgoingOf, ArrivedOf
<1>8. StillDue = << >>
  BY <1>1 DEF StillDue
<1>9. StillDue' = Traffic!EventOn(e)
  <2>1. PICK a, b : a = fm' /\ b = lastFaceM'
    OBVIOUS
  <2>2. DueOf("ship", a, b, WindowWords(a % FACE_COUNT)) = Traffic!EventOn(e)
    BY <1>2, <2>1, DueAtStart
  <2>3. StillDue' = DueOf(pc', fm', lastFaceM', wordCount')
    BY DEF StillDue, DueOf, Ahead, AheadOf
  <2> QED BY <1>1, <2>1, <2>2, <2>3
<1>10. Traffic!Begin
  BY <1>4, <1>5, <1>6, <1>7, <1>8, <1>9 DEF Traffic!Begin, Traffic!Quiet, Traffic!Faces, Faces
<1> QED BY <1>10 DEF Traffic!Next

\* What does not show in EventTraffic.
LEMMA QuietSteps ==
  ASSUME NoInbound \/ Blocked \/ NothingToSupply \/ UNCHANGED vars
  PROVE  UNCHANGED <<Spare0, StillDue, Outgoing0, Arrived0>>
<1>1. UNCHANGED <<queue, nx, length>>
  BY DEF NoInbound, Blocked, NothingToSupply, vars
<1>2. UNCHANGED <<Spare0, Outgoing0, Arrived0>>
  BY <1>1 DEF Spare0, Outgoing0, Arrived0, QueuedLengths
<1>3. CASE pc # "ship" /\ pc' # "ship"
  BY <1>2, <1>3 DEF StillDue
<1>4. CASE UNCHANGED vars
  BY <1>2, <1>4 DEF StillDue, Ahead, vars
<1> QED BY <1>3, <1>4 DEF NoInbound, Blocked, NothingToSupply, NextFace

LEMMA TrafficStep ==
  ASSUME TypeOK, NEW s, Owned(s), InLoop(s), [Next]_vars
  PROVE  [Traffic!Next]_<<Spare0, StillDue, Outgoing0, Arrived0>>
BY StockStep, ConsumeStep, BeginStep, ShipStep, EchoStep, QuietSteps DEF Next

LEMMA TrafficInit == ASSUME Init PROVE Traffic!Init
<1>1. \A q \in Queues : ListOf(queue[q], nx) = << >>
  <2> TAKE q \in Queues
  <2>1. queue[q] = EmptyQueue
    BY DEF Init
  <2>2. Len(<< >>) = 0 /\ \A i \in 1 .. 0 - 1 : FALSE
    OBVIOUS
  <2>3. Holds(queue[q], nx, << >>)
    BY <2>1, <2>2 DEF Holds, EmptyQueue
  <2>4. << >> \in Seq(Buffers) /\ NoRepeat(<< >>)
    BY <2>2 DEF NoRepeat
  <2> QED BY <2>3, <2>4, HeldIsChained, ListIs
<1>2. Len(<< >>) = 0 /\ \A q \in Queues : QueuedLengths(q) = << >>
  BY <1>1 DEF QueuedLengths
<1>3. Spare0 = 0 /\ Outgoing0 = [f \in Faces |-> << >>] /\ Arrived0 = [f \in Faces |-> << >>]
  BY <1>1, <1>2, QueueNames DEF Spare0, Outgoing0, Arrived0
<1>4. StillDue = << >>
  BY DEF Init, StillDue
<1> QED BY <1>3, <1>4 DEF Traffic!Init, Traffic!Faces, Faces

(***************************************************************************)
(* The sketch, with its links, its loops over the faces and its reuse of   *)
(* buffers, is an implementation of EventTraffic: the packets of an event  *)
(* travel through first-in first-out channels, come back on the face they  *)
(* left by, and the next event starts when all of them are back.           *)
(***************************************************************************)
THEOREM TrafficImplemented == Spec => ImplementsTraffic
<1>1. Init => Traffic!Init
  BY TrafficInit
<1>2. Inv /\ [Next]_vars => [Traffic!Next]_<<Spare0, StillDue, Outgoing0, Arrived0>>
  <2> SUFFICES ASSUME Inv, [Next]_vars
               PROVE  [Traffic!Next]_<<Spare0, StillDue, Outgoing0, Arrived0>>
    OBVIOUS
  <2>1. PICK s \in [Queues -> Seq(Buffers)] : Owned(s) /\ InLoop(s)
    BY DEF Inv
  <2> QED BY <2>1, TrafficStep DEF Inv
<1> QED BY <1>1, <1>2, Invariance, PTL DEF Spec, ImplementsTraffic, Traffic!Spec
=============================================================================
