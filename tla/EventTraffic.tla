---------------------------- MODULE EventTraffic ----------------------------
(***************************************************************************)
(* What the workload01 sketch promises, without buffers, links or loops:   *)
(* the channels of the faces are first-in first-out, an event puts its     *)
(* packets on one face or on three adjacent ones, every packet comes back  *)
(* on the face it left by and its buffer returns to the pool, and an event *)
(* starts only when everything of the one before has come back.            *)
(***************************************************************************)
EXTENDS Integers, Sequences

CONSTANTS
  FaceCount,  \* the faces of a tile, in a ring; the odd ones are corners
  Pool,       \* how many packet buffers there are
  Load        \* the lengths of the packets an event puts on each face

VARIABLES
  spare,     \* how many buffers the pool holds
  due,       \* the packets, as <<face, length>>, the event has yet to ship
  outgoing,  \* the lengths of the packets on their way out of each face
  arrived    \* and of those that have come in

Faces == 0 .. FaceCount - 1

Pieces(f) == [i \in 1 .. Len(Load[f]) |-> <<f, Load[f][i]>>]

\* An event on a corner concerns the faces around it as well.
EventOn(f) ==
  IF f % 2 = 1
  THEN Pieces(f - 1) \o Pieces(f) \o Pieces((f + 1) % FaceCount)
  ELSE Pieces(f)

Quiet == /\ due = << >>
         /\ \A f \in Faces : outgoing[f] = << >> /\ arrived[f] = << >>

Init ==
  /\ spare = 0
  /\ due = << >>
  /\ outgoing = [f \in Faces |-> << >>]
  /\ arrived = [f \in Faces |-> << >>]

Stock ==
  /\ Quiet /\ spare < Pool
  /\ spare' = spare + 1
  /\ UNCHANGED <<due, outgoing, arrived>>

Begin ==
  /\ Quiet /\ spare = Pool
  /\ \E f \in Faces : due' = EventOn(f)
  /\ UNCHANGED <<spare, outgoing, arrived>>

Ship ==
  /\ due # << >> /\ spare > 0
  /\ LET f == Head(due)[1]
     IN  outgoing' = [outgoing EXCEPT ![f] = Append(@, Head(due)[2])]
  /\ due' = Tail(due)
  /\ spare' = spare - 1
  /\ UNCHANGED arrived

\* A face takes the next packet in only when the one before is dealt with.
Echo(f) ==
  /\ due = << >>
  /\ outgoing[f] # << >> /\ arrived[f] = << >>
  /\ arrived' = [arrived EXCEPT ![f] = <<Head(outgoing[f])>>]
  /\ outgoing' = [outgoing EXCEPT ![f] = Tail(@)]
  /\ UNCHANGED <<spare, due>>

Consume(f) ==
  /\ due = << >>
  /\ arrived[f] # << >>
  /\ arrived' = [arrived EXCEPT ![f] = Tail(@)]
  /\ spare' = spare + 1
  /\ UNCHANGED <<due, outgoing>>

Next == \/ Stock \/ Begin \/ Ship
        \/ \E f \in Faces : Echo(f) \/ Consume(f)

Spec == Init /\ [][Next]_<<spare, due, outgoing, arrived>>
=============================================================================
