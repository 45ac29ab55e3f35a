-------------------------- MODULE MCFaceInterrupts --------------------------
(***************************************************************************)
(* FaceInterrupts for TLC.                                                 *)
(***************************************************************************)
EXTENDS FaceInterrupts

Channel == INSTANCE FaceChannel WITH
  Packet <- Buffers,
  outgoing <- ListOf(outbound, nx),
  arrived <- ListOf(inbound, nx)

(***************************************************************************)
(* Access by access, insert() and remove() are the operations of two       *)
(* first-in first-out channels.                                            *)
(***************************************************************************)
ImplementsChannel == Channel!Spec
=============================================================================
