----------------------------- MODULE MCWorkload ----------------------------
(***************************************************************************)
(* Workload for TLC, and how it implements EventTraffic.                   *)
(***************************************************************************)
EXTENDS WorkloadInv

\* The lengths of the packets that the ship loop makes of a number of words.
Lengths(words) ==
  [i \in 1 .. Packets(words) |->
     IF i < Packets(words) THEN words - PACKET_MAX_WORDS ELSE 0]

QueuedLengths(q) ==
  LET list == ListOf(queue[q], nx) IN [i \in 1 .. Len(list) |-> length[list[i]]]

\* The packets of a number of words that are to go to face f.
Pieces(f, words) == [i \in 1 .. Packets(words) |-> <<f, Lengths(words)[i]>>]

\* All the packets of the face that is k faces on in the event, if there is one.
Ahead(k) ==
  LET f == (fm + k) % FACE_COUNT
  IN  IF fm + k <= lastFaceM THEN Pieces(f, WindowWords(f)) ELSE << >>

\* What the event being shipped is still due.
StillDue ==
  IF pc = "ship"
  THEN Pieces(fm % FACE_COUNT, wordCount) \o Ahead(1) \o Ahead(2)
  ELSE << >>

Load0 == [f \in Faces |-> Lengths(WindowWords(f))]
Spare0 == Len(ListOf(queue[FreeList], nx))
Outgoing0 == [f \in Faces |-> QueuedLengths(Out(f))]
Arrived0 == [f \in Faces |-> QueuedLengths(In(f))]

Traffic == INSTANCE EventTraffic WITH
  FaceCount <- FACE_COUNT, Pool <- Cardinality(Buffers), Load <- Load0,
  spare <- Spare0, due <- StillDue, outgoing <- Outgoing0, arrived <- Arrived0

\* The sketch, down to its links, does what EventTraffic says.
ImplementsTraffic == Traffic!Spec
=============================================================================
