----------------------------- MODULE Workload ------------------------------
(***************************************************************************)
(* The workload01 sketch: a tile that generates the traffic of MFM events  *)
(* on its faces (EventGen.cpp, FaceQueue.cpp, Packets.cpp, workload01.ino).*)
(*                                                                         *)
(* setup() puts every buffer on the free list.  loop() then repeats        *)
(*   "inbound"   one inbound packet per face is checked and freed          *)
(*   "outbound"  if a face still has outbound packets the event is not     *)
(*               over; otherwise the next event starts on a random face    *)
(*   "ship"      the packets of the event are put on one face (an edge)    *)
(*               or on three adjacent ones (a corner)                      *)
(*   "supply"    the stub for the missing devices: one outbound packet per *)
(*               face arrives as an inbound packet of the same face        *)
(* with one step of the model per face or per packet.  The event counter   *)
(* and the report it triggers every 25000 events change nothing else and   *)
(* are left out.                                                           *)
(***************************************************************************)
EXTENDS PacketQueue

CONSTANTS
  FACE_COUNT,        \* 8 in the source
  PACKET_MAX_WORDS,  \* 62
  EdgeWords,         \* 74: half of an event window
  CornerWords        \* 111: three quarters of one

IsCorner(f) == f % 2 = 1
WindowWords(f) == IF IsCorner(f) THEN CornerWords ELSE EdgeWords

\* The packets that a face's share of an event takes (face modulo FACE_COUNT).
Packets(words) == IF words > PACKET_MAX_WORDS THEN 2 ELSE 1
PacketsFor(m) == Packets(WindowWords(m % FACE_COUNT))

(***************************************************************************)
(* The source's 8 faces, 62-word packets and 74- and 111-word windows need *)
(* 6 buffers for an event on a corner; it has 100.                         *)
(***************************************************************************)
ASSUME WorkloadAssumption ==
  /\ FACE_COUNT \in Nat /\ FACE_COUNT >= 3
  /\ PACKET_MAX_WORDS \in Nat \ {0}
  /\ EdgeWords \in 1 .. 2 * PACKET_MAX_WORDS
  /\ CornerWords \in 1 .. 2 * PACKET_MAX_WORDS
  /\ PACKET_MAX_WORDS <= 255
  /\ \A f \in {g \in 0 .. FACE_COUNT - 1 : IsCorner(g)} :
       PacketsFor(f + FACE_COUNT - 1) + PacketsFor(f) + PacketsFor(f + FACE_COUNT + 1)
         <= Cardinality(Buffers)

VARIABLES
  pc,          \* where setup() or loop() is
  face,        \* the face a loop over all the faces is at
  fm,          \* the face being shipped to, before the reduction modulo FACE_COUNT
  lastFaceM,   \* the last such face of this event
  wordCount,   \* words of the event window still to go to this face
  uninit,      \* buffers that initPackets has not come to yet
  queue,       \* _freeList and the inbound and outbound queue of each face
  nx,          \* trailer.next of each buffer
  length,      \* trailer.length of each buffer
  filled,      \* how many leading words of each buffer hold the data pattern,
               \* which starts with a zero
  badPackets, badWords

control == <<pc, face>>
event == <<fm, lastFaceM, wordCount>>
bad == <<badPackets, badWords>>
vars == <<pc, face, fm, lastFaceM, wordCount, uninit,
          queue, nx, length, filled, badPackets, badWords>>

Faces == 0 .. FACE_COUNT - 1

FreeList == <<"free", 0>>
In(f) == <<"inbound", f>>
Out(f) == <<"outbound", f>>
Queues == {FreeList} \cup {In(f) : f \in Faces} \cup {Out(f) : f \in Faces}

-----------------------------------------------------------------------------
\* Every object is static: the queues are empty and the buffers are zero.
Init ==
  /\ pc = "init" /\ face = 0
  /\ fm = 0 /\ lastFaceM = 0 /\ wordCount = 0
  /\ uninit = Buffers
  /\ queue = [q \in Queues |-> EmptyQueue]
  /\ nx = [b \in Buffers |-> NULL]
  /\ length = [b \in Buffers |-> 0]
  /\ filled = [b \in Buffers |-> 1]
  /\ badPackets = 0 /\ badWords = 0

(***************************************************************************)
(* The first buffer of one queue is removed and inserted in another, with  *)
(* trailer.length set to len in between.                                   *)
(***************************************************************************)
\* Mutant: trailer.length is set after the insertion, which counts the old one.
MoveLateLength(from, to, len) ==
  LET pb == queue[from].first
  IN  /\ queue' = [queue EXCEPT
                     ![from] = RemoveQueue(queue[from], nx, length[pb]),
                     ![to] = InsertQueue(queue[to], pb, length[pb])]
      /\ nx' = InsertLinks(queue[to], RemoveLinks(queue[from], nx), pb)
      /\ length' = [length EXCEPT ![pb] = len]

Move(from, to, len) ==
  LET pb == queue[from].first
  IN  /\ queue' = [queue EXCEPT
                     ![from] = RemoveQueue(queue[from], nx, length[pb]),
                     ![to] = InsertQueue(queue[to], pb, len)]
      /\ nx' = InsertLinks(queue[to], RemoveLinks(queue[from], nx), pb)
      /\ length' = [length EXCEPT ![pb] = len]

\* The end of one round of a loop over the faces.
\* Mutant: face <= FACE_COUNT in the loop's condition.
NextFaceTooFar(done) ==
  IF face + 1 <= FACE_COUNT
  THEN face' = face + 1 /\ pc' = pc
  ELSE face' = 0 /\ pc' = done

NextFace(done) ==
  IF face + 1 < FACE_COUNT
  THEN face' = face + 1 /\ pc' = pc
  ELSE face' = 0 /\ pc' = done

(***************************************************************************)
(* initPackets, one buffer.  The code takes them in array order; which one *)
(* comes next makes no difference to anything that follows.                *)
(***************************************************************************)
InitPacket ==
  /\ pc = "init"
  /\ \E pb \in uninit :
       /\ queue' = [queue EXCEPT ![FreeList] = InsertQueue(@, pb, length[pb])]
       /\ nx' = InsertLinks(queue[FreeList], nx, pb)
       /\ uninit' = uninit \ {pb}
       /\ pc' = IF uninit = {pb} THEN "inbound" ELSE pc
  /\ UNCHANGED <<face, event, length, filled, bad>>

\* Mutant: the loop ends at the first face without an inbound packet.
NoInboundBreaks ==
  /\ pc = "inbound"
  /\ IsEmpty(queue[In(face)])
  /\ pc' = "outbound" /\ face' = 0
  /\ UNCHANGED <<event, uninit, queue, nx, length, filled, bad>>

NoInbound ==
  /\ pc = "inbound"
  /\ IsEmpty(queue[In(face)])
  /\ NextFace("outbound")
  /\ UNCHANGED <<event, uninit, queue, nx, length, filled, bad>>

\* Mutant: the packet is checked and not deleted.
ProcessInboundKeeps ==
  /\ pc = "inbound"
  /\ ~IsEmpty(queue[In(face)])
  /\ queue' = [queue EXCEPT ![In(face)] = RemoveQueue(@, nx, length[@.first])]
  /\ nx' = RemoveLinks(queue[In(face)], nx)
  /\ NextFace("outbound")
  /\ UNCHANGED <<event, uninit, length, filled, bad>>

ProcessInbound ==
  /\ pc = "inbound"
  /\ ~IsEmpty(queue[In(face)])
  /\ LET pb == queue[In(face)].first
         wrong == IF length[pb] > filled[pb] THEN length[pb] - filled[pb] ELSE 0
     IN  /\ Move(In(face), FreeList, length[pb])
         /\ badWords' = (badWords + wrong) % LongMod
         /\ badPackets' = IF wrong > 0 THEN (badPackets + 1) % LongMod
                          ELSE badPackets
  /\ NextFace("outbound")
  /\ UNCHANGED <<event, uninit, filled>>

\* Something is still to be shipped: eventProcessing returns.
\* Mutant: the loop goes on without the call of supplyOutbound.
BlockedForGood ==
  /\ pc = "outbound"
  /\ \E f \in Faces : ~IsEmpty(queue[Out(f)])
  /\ pc' = "inbound"
  /\ UNCHANGED <<face, event, uninit, queue, nx, length, filled, bad>>

Blocked ==
  /\ pc = "outbound"
  /\ \E f \in Faces : ~IsEmpty(queue[Out(f)])
  /\ pc' = "supply"
  /\ UNCHANGED <<face, event, uninit, queue, nx, length, filled, bad>>

\* Mutant: an event starts although packets are still outbound.
StartEventEarly ==
  /\ pc = "outbound"
  /\ \E eventFace \in Faces :
       /\ fm' = IF IsCorner(eventFace) THEN eventFace + FACE_COUNT - 1 ELSE eventFace
       /\ lastFaceM' = IF IsCorner(eventFace) THEN eventFace + FACE_COUNT + 1 ELSE eventFace
  /\ wordCount' = WindowWords(fm' % FACE_COUNT)
  /\ pc' = "ship"
  /\ UNCHANGED <<face, uninit, queue, nx, length, filled, bad>>

\* Mutant: one face too many.
StartEventWide ==
  /\ pc = "outbound"
  /\ \A f \in Faces : IsEmpty(queue[Out(f)])
  /\ \E eventFace \in Faces :
       /\ fm' = IF IsCorner(eventFace) THEN eventFace + FACE_COUNT - 1 ELSE eventFace
       /\ lastFaceM' = IF IsCorner(eventFace) THEN eventFace + FACE_COUNT + 2 ELSE eventFace
  /\ wordCount' = WindowWords(fm' % FACE_COUNT)
  /\ pc' = "ship"
  /\ UNCHANGED <<face, uninit, queue, nx, length, filled, bad>>

StartEvent ==
  /\ pc = "outbound"
  /\ \A f \in Faces : IsEmpty(queue[Out(f)])
  /\ \E eventFace \in Faces :
       /\ fm' = IF IsCorner(eventFace) THEN eventFace + FACE_COUNT - 1 ELSE eventFace
       /\ lastFaceM' = IF IsCorner(eventFace) THEN eventFace + FACE_COUNT + 1 ELSE eventFace
  /\ wordCount' = WindowWords(fm' % FACE_COUNT)
  /\ pc' = "ship"
  /\ UNCHANGED <<face, uninit, queue, nx, length, filled, bad>>

\* The end of one round of the loops over wordCount and fm.
NextPacket(rest) ==
  IF rest > 0
  THEN wordCount' = rest /\ UNCHANGED <<pc, fm, lastFaceM>>
  ELSE IF fm < lastFaceM
  THEN /\ fm' = fm + 1
       /\ wordCount' = WindowWords((fm + 1) % FACE_COUNT)
       /\ UNCHANGED <<pc, lastFaceM>>
  ELSE pc' = "supply" /\ fm' = 0 /\ lastFaceM' = 0 /\ wordCount' = 0

\* Mutant: the length is plen, as it should be, but the fill loop is not.
ShipPacketHalfFixed ==
  LET f == fm % FACE_COUNT
      pb == queue[FreeList].first
      plen == IF wordCount > PACKET_MAX_WORDS THEN PACKET_MAX_WORDS ELSE wordCount
      rest == wordCount - plen
  IN  /\ pc = "ship"
      /\ ~IsEmpty(queue[FreeList])
      /\ Move(FreeList, Out(f), plen)
      /\ filled' = [filled EXCEPT ![pb] = IF @ < rest THEN rest ELSE @]
      /\ NextPacket(rest)
      /\ UNCHANGED <<face, uninit, bad>>

(***************************************************************************)
(* One round of the while loop over wordCount.  The packet is given the    *)
(* words that are still to go after it, not the plen words that it was     *)
(* made for: wordCount is reduced before the buffer is filled.             *)
(* newPacketBuffer() returns 0 when the free list is empty; the code does  *)
(* not look, and there is no step of the model for writing through it.     *)
(***************************************************************************)
ShipPacket ==
  LET f == fm % FACE_COUNT
      pb == queue[FreeList].first
      plen == IF wordCount > PACKET_MAX_WORDS THEN PACKET_MAX_WORDS ELSE wordCount
      rest == wordCount - plen
  IN  /\ pc = "ship"
      /\ ~IsEmpty(queue[FreeList])
      /\ Move(FreeList, Out(f), rest)
      /\ filled' = [filled EXCEPT ![pb] = IF @ < rest THEN rest ELSE @]
      /\ NextPacket(rest)
      /\ UNCHANGED <<face, uninit, bad>>

NothingToSupply ==
  /\ pc = "supply"
  /\ IsEmpty(queue[Out(face)])
  /\ NextFace("inbound")
  /\ UNCHANGED <<event, uninit, queue, nx, length, filled, bad>>

\* Mutant: the packet arrives at the next face.
SupplyOutboundAskew ==
  /\ pc = "supply"
  /\ ~IsEmpty(queue[Out(face)])
  /\ Move(Out(face), In((face + 1) % FACE_COUNT), length[queue[Out(face)].first])
  /\ NextFace("inbound")
  /\ UNCHANGED <<event, uninit, filled, bad>>

\* supplyOutbound and handleInbound.
SupplyOutbound ==
  /\ pc = "supply"
  /\ ~IsEmpty(queue[Out(face)])
  /\ Move(Out(face), In(face), length[queue[Out(face)].first])
  /\ NextFace("inbound")
  /\ UNCHANGED <<event, uninit, filled, bad>>

Next ==
  \/ InitPacket
  \/ NoInbound \/ ProcessInbound
  \/ Blocked \/ StartEvent
  \/ ShipPacket
  \/ NothingToSupply \/ SupplyOutbound

Spec == Init /\ [][Next]_vars

\* The Arduino runtime calls loop() for ever and nothing in it waits.
FairSpec == Spec /\ WF_vars(Next)

-----------------------------------------------------------------------------
\* Every variable is of its C type, and pc is at a statement of the sketch.
TypeOK ==
  /\ pc \in {"init", "inbound", "outbound", "ship", "supply"}
  /\ face \in Faces
  /\ fm \in 0 .. 2 * FACE_COUNT /\ lastFaceM \in 0 .. 2 * FACE_COUNT
  /\ wordCount \in 0 .. 2 * PACKET_MAX_WORDS
  /\ uninit \subseteq Buffers
  /\ queue \in [Queues -> Queue]
  /\ nx \in [Buffers -> Link]
  /\ length \in [Buffers -> 0 .. 255]
  /\ filled \in [Buffers -> 0 .. 255]
  /\ badPackets \in 0 .. LongMod - 1 /\ badWords \in 0 .. LongMod - 1

Lists == [q \in Queues |-> ListOf(queue[q], nx)]

(***************************************************************************)
(* Following the links from first reaches last, in every queue, and every  *)
(* buffer that initPackets has freed is met exactly once: none is lost, in *)
(* two queues, or twice in one.  insert() and remove() are correct only if *)
(* no caller inserts a buffer that is still queued.                        *)
(***************************************************************************)
OneOwner ==
  LET list == Lists
      places == {p \in Queues \X (1 .. Cardinality(Buffers)) : p[2] <= Len(list[p[1]])}
  IN  /\ \A q \in Queues : Holds(queue[q], nx, list[q])
      /\ {list[p[1]][p[2]] : p \in places} = Buffers \ uninit
      /\ Cardinality(places) = Cardinality(Buffers \ uninit)

(***************************************************************************)
(* eventProcessing never gets a null pointer from newPacketBuffer, whose   *)
(* result it does not test: when a packet is due a buffer is free.         *)
(***************************************************************************)
NeverNullBuffer == pc = "ship" => ~IsEmpty(queue[FreeList])

(***************************************************************************)
(* "Sooner or later, we will find no more packets inbound or outbound.  At *)
(* that point we'll declare the event is over": the code only tests the    *)
(* outbound queues, yet no inbound packet is left when the next event      *)
(* starts.                                                                 *)
(***************************************************************************)
EventStartsQuiet ==
  pc \in {"outbound", "ship"} => \A f \in Faces : IsEmpty(queue[In(f)])

\* A face never holds more than one inbound and two outbound packets.
ShortQueues ==
  \A f \in Faces :
    /\ queue[In(f)].first = queue[In(f)].last
    /\ \/ queue[Out(f)].first = queue[Out(f)].last
       \/ nx[queue[Out(f)].first] = queue[Out(f)].last

\* No inbound packet is ever counted as bad: what is sent is what arrives.
NoBadData == badPackets = 0 /\ badWords = 0

\* The words of the packets in a list; len gives the length of each.
TotalOf(list, len) ==
  LET upTo[i \in 0 .. Len(list)] ==
        IF i = 0 THEN 0 ELSE upTo[i - 1] + len[list[i]]
  IN  upTo[Len(list)]

(***************************************************************************)
(* The statistics add up: what went into a queue less what came out of it  *)
(* is what is in it, in packets and in words, also after the counters have *)
(* wrapped.  It holds because no trailer.length changes while its buffer   *)
(* is queued.                                                              *)
(***************************************************************************)
StatsBalance ==
  PACKET_QUEUE_STATS =>
    \A q \in Queues :
      LET list == ListOf(queue[q], nx)
      IN  /\ (queue[q].packetsIn - queue[q].packetsOut - Len(list)) % LongMod = 0
          /\ (queue[q].wordsIn - queue[q].wordsOut - TotalOf(list, length)) % LongMod = 0

(***************************************************************************)
(* "about half ... three quarters of the event window will need to be      *)
(* transmitted": when an event has been shipped, the packets outbound on a *)
(* face of the event carry its whole share of the window.                  *)
(***************************************************************************)
WholeWindowShipped ==
  [][pc = "ship" /\ pc' = "supply" =>
       \A f \in Faces :
         ~IsEmpty(queue'[Out(f)]) =>
           TotalOf(ListOf(queue'[Out(f)], nx'), length') = WindowWords(f)]_vars

\* Every event gets over and the next one starts, for ever.
EventsGoOn == []<>(pc = "ship")

\* A buffer that is in use comes back to the free list.
BuffersComeBack ==
  \A b \in Buffers :
    (\E f \in Faces : queue[Out(f)].last = b)
      ~> \E i \in 1 .. Len(Lists[FreeList]) : Lists[FreeList][i] = b
=============================================================================
