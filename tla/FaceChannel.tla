---------------------------- MODULE FaceChannel ----------------------------
(***************************************************************************)
(* What a FaceQueue promises to the background and to the interrupt        *)
(* handler of its device: two first-in first-out channels, on which each   *)
(* operation happens at once and loses, repeats or reorders no packet.     *)
(***************************************************************************)
EXTENDS Sequences, SequencesExt

CONSTANT Packet

VARIABLES outgoing, arrived

Init == outgoing = << >> /\ arrived = << >>

\* The background: insertOutboundBG and removeInboundBG.
Ship(p) == /\ p \notin ToSet(outgoing) \cup ToSet(arrived)
           /\ outgoing' = Append(outgoing, p)
           /\ UNCHANGED arrived

Take == /\ arrived # << >>
        /\ arrived' = Tail(arrived)
        /\ UNCHANGED outgoing

\* The interrupt handler: removeOutboundIL, then insertInboundIL.
Interrupt == /\ outgoing # << >>
             /\ outgoing' = Tail(outgoing)
             /\ arrived' = Append(arrived, Head(outgoing))

Next == Take \/ Interrupt \/ \E p \in Packet : Ship(p)

Spec == Init /\ [][Next]_<<outgoing, arrived>>
=============================================================================
