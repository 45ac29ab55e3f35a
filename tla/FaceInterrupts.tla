--------------------------- MODULE FaceInterrupts ---------------------------
(***************************************************************************)
(* One FaceQueue shared by the background, which runs eventProcessing, and *)
(* by the interrupt handler that workload01.ino asks the port to a real    *)
(* device to attach (supplyOutbound, with handleInbound in it).  A handler *)
(* runs to its end before the background goes on, so it is one step; the   *)
(* background can be interrupted between any two accesses to memory, so    *)
(* insert() and remove() are one step for each access when it calls them.  *)
(*                                                                         *)
(* FaceQueue has the methods ..BG that close interrupts out.  The sketch   *)
(* inserts with insertOutboundBG, but takes packets with inbound.remove()  *)
(* rather than removeInboundBG: Guarded says which of the two is modelled. *)
(* The free list belongs to the background alone and is a set here.        *)
(* Statistics are compiled out.                                            *)
(***************************************************************************)
EXTENDS PacketQueue

CONSTANT
  Guarded,   \* the background takes packets with removeInboundBG
  ShipAtMost \* the packets of an event on one face: 2

ASSUME InterruptsAssumption ==
  /\ Guarded \in BOOLEAN
  /\ ShipAtMost \in Nat \ {0}
  /\ ~PACKET_QUEUE_STATS

VARIABLES
  inbound, outbound,  \* the two PacketQueues of the face
  nx,                 \* trailer.next of each buffer
  free,               \* the buffers on the free list
  enabled,            \* INTRCTL: interrupts are enabled
  pc,                 \* the next statement of the background
  pb,                 \* its local variable of that name (ret in remove())
  ship                \* how many packets of the event it has yet to ship

queues == <<inbound, outbound, nx>>
vars == <<inbound, outbound, nx, free, enabled, pc, pb, ship>>

Init ==
  /\ inbound = EmptyQueue /\ outbound = EmptyQueue
  /\ nx = [b \in Buffers |-> NULL]
  /\ free = Buffers
  /\ enabled = TRUE
  /\ pc = "take" /\ pb = NULL
  /\ ship = 0

(***************************************************************************)
(* inbound.remove() in the background, alone or in removeInboundBG.        *)
(***************************************************************************)
Take ==
  /\ pc = "take"
  /\ pc' = "remove"
  /\ enabled' = ~Guarded
  /\ UNCHANGED <<queues, free, pb, ship>>

\* if (first==0) return 0;  ret = first;
RemoveFirst ==
  /\ pc = "remove"
  /\ pb' = inbound.first
  /\ pc' = IF IsEmpty(inbound) THEN "taken" ELSE "compare"
  /\ UNCHANGED <<queues, free, enabled, ship>>

\* if (first==last)
RemoveCompare ==
  /\ pc = "compare"
  /\ pc' = IF inbound.first = inbound.last THEN "clear last" ELSE "advance"
  /\ UNCHANGED <<queues, free, enabled, pb, ship>>

\* first = last = 0;
RemoveClearLast ==
  /\ pc = "clear last"
  /\ inbound' = [inbound EXCEPT !.last = NULL]
  /\ pc' = "clear first"
  /\ UNCHANGED <<outbound, nx, free, enabled, pb, ship>>

RemoveClearFirst ==
  /\ pc = "clear first"
  /\ inbound' = [inbound EXCEPT !.first = NULL]
  /\ pc' = "unlink"
  /\ UNCHANGED <<outbound, nx, free, enabled, pb, ship>>

\* else first = first->trailer.next;
RemoveAdvance ==
  /\ pc = "advance"
  /\ inbound' = [inbound EXCEPT !.first = nx[@]]
  /\ pc' = "unlink"
  /\ UNCHANGED <<outbound, nx, free, enabled, pb, ship>>

\* ret->trailer.next = 0;
RemoveUnlink ==
  /\ pc = "unlink"
  /\ nx' = [nx EXCEPT ![pb] = NULL]
  /\ pc' = "taken"
  /\ UNCHANGED <<inbound, outbound, free, enabled, pb, ship>>

\* Mutant: the packet is not deleted.
TakenKeeps ==
  /\ pc = "taken"
  /\ enabled' = TRUE
  /\ pb' = NULL
  /\ pc' = "outbound"
  /\ UNCHANGED <<queues, free, ship>>

\* Back in eventProcessing the packet, if any, is checked and deleted.
Taken ==
  /\ pc = "taken"
  /\ enabled' = TRUE
  /\ free' = IF pb = NULL THEN free ELSE free \cup {pb}
  /\ pb' = NULL
  /\ pc' = "outbound"
  /\ UNCHANGED <<queues, ship>>

-----------------------------------------------------------------------------
\* An outbound packet is still there: eventProcessing returns, loop() calls it again.
Blocked ==
  /\ pc = "outbound"
  /\ ~IsEmpty(outbound)
  /\ pc' = "take"
  /\ UNCHANGED <<queues, free, enabled, pb, ship>>

\* An event that ships some packets, or none, on this face.
StartEvent ==
  /\ pc = "outbound"
  /\ IsEmpty(outbound)
  /\ ship' \in 0 .. ShipAtMost
  /\ pc' = IF ship' = 0 THEN "take" ELSE "new"
  /\ UNCHANGED <<queues, free, enabled, pb>>

\* Mutant: outbound.insert(pb) without noInterrupts().
NewPacketOpen ==
  /\ pc = "new"
  /\ pb' \in free
  /\ free' = free \ {pb'}
  /\ pc' = "insert"
  /\ UNCHANGED <<queues, enabled, ship>>

\* newPacketBuffer; the fill loop; noInterrupts() in insertOutboundBG.
NewPacket ==
  /\ pc = "new"
  /\ pb' \in free
  /\ free' = free \ {pb'}
  /\ enabled' = FALSE
  /\ pc' = "insert"
  /\ UNCHANGED <<queues, ship>>

\* newPacketBuffer returns the null pointer and the sketch writes through it.
NoBuffer ==
  /\ pc = "new"
  /\ free = {}
  /\ pc' = "null"
  /\ UNCHANGED <<queues, free, enabled, pb, ship>>

\* Mutant: first = pb in any case.
InsertFirstAlways ==
  /\ pc = "insert"
  /\ outbound' = [outbound EXCEPT !.first = pb]
  /\ pc' = "insert last"
  /\ UNCHANGED <<inbound, nx, free, enabled, pb, ship>>

\* if (first==0) first = pb;
InsertFirst ==
  /\ pc = "insert"
  /\ outbound' = [outbound EXCEPT !.first = IF @ = NULL THEN pb ELSE @]
  /\ pc' = "insert last"
  /\ UNCHANGED <<inbound, nx, free, enabled, pb, ship>>

\* if (last==0) last = pb;
InsertOnly ==
  /\ pc = "insert last"
  /\ outbound.last = NULL
  /\ outbound' = [outbound EXCEPT !.last = pb]
  /\ pc' = "terminate"
  /\ UNCHANGED <<inbound, nx, free, enabled, pb, ship>>

\* else { last->trailer.next = pb;  last = pb; }
InsertLink ==
  /\ pc = "insert last"
  /\ outbound.last # NULL
  /\ nx' = [nx EXCEPT ![outbound.last] = pb]
  /\ pc' = "new last"
  /\ UNCHANGED <<inbound, outbound, free, enabled, pb, ship>>

InsertLast ==
  /\ pc = "new last"
  /\ outbound' = [outbound EXCEPT !.last = pb]
  /\ pc' = "terminate"
  /\ UNCHANGED <<inbound, nx, free, enabled, pb, ship>>

\* last->trailer.next = 0;
InsertTerminate ==
  /\ pc = "terminate"
  /\ nx' = [nx EXCEPT ![outbound.last] = NULL]
  /\ pc' = "inserted"
  /\ UNCHANGED <<inbound, outbound, free, enabled, pb, ship>>

\* Mutant: one round too many.
InsertedOnce ==
  /\ pc = "inserted"
  /\ enabled' = TRUE
  /\ pb' = NULL
  /\ ship' = ship - 1
  /\ pc' = IF ship = 0 THEN "take" ELSE "new"
  /\ UNCHANGED <<queues, free>>

\* interrupts() in insertOutboundBG; the end of a round of the while loop.
Inserted ==
  /\ pc = "inserted"
  /\ enabled' = TRUE
  /\ pb' = NULL
  /\ ship' = ship - 1
  /\ pc' = IF ship = 1 THEN "take" ELSE "new"
  /\ UNCHANGED <<queues, free>>

-----------------------------------------------------------------------------
\* The interrupt handler: supplyOutbound, which calls handleInbound.
SupplyOutbound ==
  /\ enabled
  /\ pc # "null"
  /\ ~IsEmpty(outbound)
  /\ LET p == outbound.first
     IN  /\ outbound' = RemoveQueue(outbound, nx, 0)
         /\ inbound' = InsertQueue(inbound, p, 0)
         /\ nx' = InsertLinks(inbound, RemoveLinks(outbound, nx), p)
  /\ UNCHANGED <<free, enabled, pc, pb, ship>>

Background ==
  \/ Take \/ RemoveFirst \/ RemoveCompare \/ RemoveClearLast \/ RemoveClearFirst
  \/ RemoveAdvance \/ RemoveUnlink \/ Taken
  \/ Blocked \/ StartEvent \/ NewPacket \/ NoBuffer
  \/ InsertFirst \/ InsertOnly \/ InsertLink \/ InsertLast \/ InsertTerminate \/ Inserted

Next == Background \/ SupplyOutbound

Spec == Init /\ [][Next]_vars

(***************************************************************************)
(* The background is never suspended for ever.  The device interrupts      *)
(* again and again while it has nothing to send; enabled is off and on     *)
(* meanwhile, so its fairness is strong.                                   *)
(***************************************************************************)
FairSpec == Spec /\ WF_vars(Background) /\ SF_vars(SupplyOutbound)

-----------------------------------------------------------------------------
TypeOK ==
  /\ inbound \in Queue /\ outbound \in Queue
  /\ nx \in [Buffers -> Link]
  /\ free \subseteq Buffers
  /\ enabled \in BOOLEAN
  /\ pb \in Link
  /\ ship \in 0 .. ShipAtMost
  /\ pc \in {"take", "remove", "compare", "clear last", "clear first", "advance",
             "unlink", "taken", "outbound", "new", "insert", "insert last",
             "new last", "terminate", "inserted", "null"}

Listed(q) == LET list == ListOf(q, nx) IN {list[i] : i \in 1 .. Len(list)}

\* The two lists are proper and every buffer has exactly one owner.
Sound ==
  /\ \A q \in {inbound, outbound} : Holds(q, nx, ListOf(q, nx))
  /\ Listed(inbound) \cup Listed(outbound) \cup free \cup ({pb} \ {NULL}) = Buffers
  /\ Len(ListOf(inbound, nx)) + Len(ListOf(outbound, nx)) + Cardinality(free)
       + Cardinality({pb} \ {NULL}) = Cardinality(Buffers)

(***************************************************************************)
(* Whenever an interrupt can come, the queues that its handler works on    *)
(* are proper lists, first to last, and every buffer is on the free list,  *)
(* in one of the two queues, or in the hands of the background, exactly    *)
(* once: no packet is lost and none is in two queues.                      *)
(***************************************************************************)
ListsAtInterrupts == enabled => Sound

(***************************************************************************)
(* The same only where the background is not in a call of insert() or      *)
(* remove(): no call, however it was interrupted, leaves a queue damaged   *)
(* or a packet lost.                                                       *)
(***************************************************************************)
NothingLost == pc \in {"take", "outbound"} => Sound

\* A packet that has arrived is taken and its buffer comes back to the free list.
ArrivalsFreed ==
  \A b \in Buffers : b \in Listed(inbound) ~> (b \in free \/ pc = "null")
=============================================================================
