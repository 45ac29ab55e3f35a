---------------------------- MODULE MCMFMPacket ----------------------------
(***************************************************************************)
(* MFMPacket for TLC: the packets that arrive.                             *)
(***************************************************************************)
EXTENDS MFMPacket

\* Texts of up to four of these: a space, +, -, 0, 7 and F.
Texts == UNION {[1 .. n -> {32, 43, 45, 48, 55, 70}] : n \in 0 .. 4}

\* A packet as it is found in the data of another one.
Inner(source, cursor, data) ==
  <<source, 0, cursor, Len(data)>> \o data \o <<0>>

Inners ==
  {Inner(s, c, d) : s \in {1, MAX_FACE_INDEX}, c \in {0, 1}, d \in {<< >>, <<49>>}}

\* Two packets, and one in another; some have an impossible source or cursor.
Nested ==
  {a \o b : a, b \in Inners} \cup {Inner(2, 0, a) \o <<48>> : a \in Inners}

Checked(data) == Append(data, CHOOSE b \in Byte : Bits(b) = CheckByte(data))

MCMessages ==
  Texts \cup Nested
    \cup {Checked(d) : d \in {<< >>, <<0>>, <<120, 49>>, [i \in 1 .. 9 |-> 0]}}

\* Bases, and a byte, a short and a long.
MCCodes == {2, 8, 16} \cup (BELONG .. BYTE)
=============================================================================
