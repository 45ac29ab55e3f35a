---------------------------- MODULE WorkloadInv ----------------------------
(***************************************************************************)
(* The inductive invariant of Workload: sequences s[q], one for each       *)
(* queue, exist that the linked lists hold (Owned), and whose lengths are  *)
(* those that the current statement of loop() allows (InLoop).             *)
(***************************************************************************)
EXTENDS Workload

\* No buffer is in two places of s.
OncePlaced(s) ==
  \A q, r \in Queues : \A i \in 1 .. Len(s[q]), j \in 1 .. Len(s[r]) :
    s[q][i] = s[r][j] => q = r /\ i = j

(***************************************************************************)
(* The queues hold the sequences s, in which every buffer that initPackets *)
(* has freed is once and no other is.                                      *)
(***************************************************************************)
Owned(s) ==
  /\ s \in [Queues -> Seq(Buffers)]
  /\ \A q \in Queues : Holds(queue[q], nx, s[q])
  /\ OncePlaced(s)
  /\ \A b \in Buffers \ uninit : \E q \in Queues : \E i \in 1 .. Len(s[q]) : s[q][i] = b
  /\ \A q \in Queues : \A i \in 1 .. Len(s[q]) : s[q][i] \notin uninit

\* How many packets the event being shipped is still due.
Due == Packets(wordCount)
       + (IF fm < lastFaceM THEN PacketsFor(fm + 1) ELSE 0)
       + (IF fm + 1 < lastFaceM THEN PacketsFor(fm + 2) ELSE 0)

(***************************************************************************)
(* During initPackets no face holds a packet.  Inbound packets: the loop   *)
(* over the faces leaves none, and the stub brings one per face at most.   *)
(* Outbound packets: an event starts when there are none and ships two per *)
(* face at most, and the stub takes one from each face.  The free list     *)
(* always has a buffer for each packet that is due.                        *)
(***************************************************************************)
InitShape(s) ==
  /\ uninit # {} /\ face = 0
  /\ \A f \in Faces : s[In(f)] = << >> /\ s[Out(f)] = << >>

InboundShape(s) ==
  \A f \in Faces : /\ Len(s[In(f)]) <= 1
                   /\ Len(s[Out(f)]) <= 1
                   /\ f < face => s[In(f)] = << >>

OutboundShape(s) ==
  /\ face = 0
  /\ \A f \in Faces : s[In(f)] = << >> /\ Len(s[Out(f)]) <= 1

ShipShape(s) ==
  /\ face = 0
  /\ fm <= lastFaceM /\ lastFaceM <= fm + 2
  /\ wordCount > 0
  /\ Due <= Len(s[FreeList])
  /\ \A f \in Faces : s[In(f)] = << >> /\ Len(s[Out(f)]) <= 2
  /\ Len(s[Out(fm % FACE_COUNT)]) + Packets(wordCount) <= 2
  /\ \A m \in fm + 1 .. lastFaceM : s[Out(m % FACE_COUNT)] = << >>

SupplyShape(s) ==
  \A f \in Faces : /\ Len(s[Out(f)]) <= 2
                   /\ f < face => Len(s[In(f)]) <= 1 /\ Len(s[Out(f)]) <= 1
                   /\ f >= face => s[In(f)] = << >>

InLoop(s) ==
  /\ pc # "init" => uninit = {}
  /\ pc = "init" => InitShape(s)
  /\ pc = "inbound" => InboundShape(s)
  /\ pc = "outbound" => OutboundShape(s)
  /\ pc = "ship" => ShipShape(s)
  /\ pc = "supply" => SupplyShape(s)

\* What is in a packet is what was filled in, as far as its length goes.
DataInv == /\ \A b \in Buffers : length[b] <= filled[b]
           /\ NoBadData

Inv == TypeOK /\ DataInv /\ \E s \in [Queues -> Seq(Buffers)] : Owned(s) /\ InLoop(s)

\* Inv with the sequences found by following the links, which TLC can do.
InvOfLists == TypeOK /\ DataInv /\ Owned(Lists) /\ InLoop(Lists)
=============================================================================
