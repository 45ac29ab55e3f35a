------------------------------ MODULE MCClock ------------------------------
(***************************************************************************)
(* Clock for TLC: a counter of six bits and a millisecond of five cycles,  *)
(* so that, as in 2^32 / 96,000, a turn is no whole number of them.        *)
(***************************************************************************)
EXTENDS Clock

MCDividers == <<1, 2, 4>>
=============================================================================
