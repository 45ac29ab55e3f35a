------------------------------ MODULE MFMPacket ------------------------------
(***************************************************************************)
(* MFMPacket.cpp: a packet in memory, read by its handler.                 *)
(*                                                                         *)
(* A packet is a pointer p to its data; its header is the four bytes       *)
(* before p and a null byte follows the data.  A packet may hold other     *)
(* packets, header and null included, and packetReadPacket returns a       *)
(* pointer to one where it lies: reading the inner packet moves a cursor   *)
(* that is a byte of the outer packet's data.                              *)
(*                                                                         *)
(* A failed API_ASSERT stops the tile; HeldValid says that none fails for  *)
(* an invalid packet.  The others are conditions on constant arguments,    *)
(* which the constants below respect.  What a read returns matters only in *)
(* NumbersReadRight, so it is not part of the state.                       *)
(***************************************************************************)
EXTENDS Integers, Sequences, SequencesExt

CONSTANTS
  MAX_PACKET_LENGTH,
  MAX_FACE_INDEX,
  BufferLength,  \* of the buffer that the packet is made in
  UIntMod,       \* int and u32 arithmetic is modulo this
  Messages,      \* the data of the packets that arrive
  BlockLengths,  \* the lengths of the blocks,
  Codes,         \* the formats
  MaxLens,       \* and the limits that the handler asks for,
  Indices        \* and the positions that it goes back to

Byte == 0 .. 255
BYTE == 0
BELONG == -2

ASSUME PacketAssumption ==
  /\ MAX_PACKET_LENGTH \in Byte /\ MAX_FACE_INDEX \in Byte \ {0}
  /\ BufferLength \in Nat /\ UIntMod \in Nat \ {0}
  /\ \A m \in Messages : /\ m \in Seq(Byte)
                         /\ Len(m) < MAX_PACKET_LENGTH - 1
                         /\ Len(m) + 1 + 4 <= BufferLength
  /\ Codes \subseteq (BELONG .. BYTE) \cup (2 .. 36)
  /\ BlockLengths \cup MaxLens \cup Indices \subseteq 0 .. UIntMod - 1

VARIABLES
  mem,   \* the bytes of the buffer
  held   \* the packets that the handler has pointers to

vars == <<mem, held>>

packetSource(p) == mem[p - 4]
packetCursor(p) == mem[p - 2]
packetLength(p) == mem[p - 1]
packetReadLength(p) == packetLength(p) - packetCursor(p)

validPacket(p) ==
  /\ packetLength(p) <= MAX_PACKET_LENGTH
  /\ packetCursor(p) <= packetLength(p)
  /\ packetSource(p) < MAX_FACE_INDEX

Data(p) == [i \in 1 .. packetLength(p) |-> mem[p + i - 1]]
Unread(p) == SubSeq(Data(p), packetCursor(p) + 1, packetLength(p))

\* q, its header and its null byte are all in the data of p.
Inside(q, p) == p <= q - 4 /\ q + packetLength(q) < p + packetLength(p)

-----------------------------------------------------------------------------
\* makePacket, for the one packet of a behaviour.
MadePacket(face, data) ==
  LET bytes == <<face, 0, 0, Len(data)>> \o data \o <<0>>
  IN  [a \in 0 .. BufferLength - 1 |-> IF a < Len(bytes) THEN bytes[a + 1] ELSE 0]

Init ==
  /\ \E face \in {0, MAX_FACE_INDEX - 1}, m \in Messages : mem = MadePacket(face, m)
  /\ held = {4}

\* Mutant: the new position is not limited.
SetCursorUnlimited(p, i) == mem' = [mem EXCEPT ![p - 2] = i]

\* What packetReread does with the header, for every function that calls it.
SetCursor(p, i) ==
  mem' = [mem EXCEPT ![p - 2] = IF i > packetLength(p) THEN packetLength(p) ELSE i]

\* A handler that goes back in a packet gives up what it read out of it.
packetReread(p, i) ==
  /\ SetCursor(p, i)
  /\ held' = {q \in held : ~ Inside(q, p)}

\* Reading a u64, or a block that is copied out of the packet.
packetReadBytes(p, n) ==
  /\ IF packetReadLength(p) < n THEN UNCHANGED mem ELSE SetCursor(p, packetCursor(p) + n)
  /\ UNCHANGED held

\* Where an inner packet is, if one is next.
InnerPacket(p) == p + packetCursor(p) + 4

\* Mutant: whatever is in the place of the header is taken for one.
InnerFitsUnchecked(p) ==
  /\ packetReadLength(p) >= 4 + 1
  /\ packetReadLength(p) - 4 - 1 >= packetLength(InnerPacket(p))

InnerFits(p) ==
  /\ packetReadLength(p) >= 4 + 1
  /\ validPacket(InnerPacket(p))
  /\ packetReadLength(p) - 4 - 1 >= packetLength(InnerPacket(p))

\* Mutant: the null byte after the inner packet is forgotten.
AfterInnerNoNull(p) == packetCursor(p) + packetLength(InnerPacket(p)) + 4

AfterInner(p) == packetCursor(p) + packetLength(InnerPacket(p)) + 4 + 1

\* Mutant: the inner packet is rewound before it is handed out.
packetReadPacketRewound(p) ==
  /\ InnerFits(p)
  /\ mem' = [mem EXCEPT ![InnerPacket(p) - 2] = 0, ![p - 2] = AfterInner(p)]
  /\ held' = held \cup {InnerPacket(p)}

packetReadPacket(p) ==
  \/ /\ InnerFits(p)
     /\ SetCursor(p, AfterInner(p))
     /\ held' = held \cup {InnerPacket(p)}
  \/ ~ InnerFits(p) /\ UNCHANGED vars

-----------------------------------------------------------------------------
(***************************************************************************)
(* Check bytes.  A byte is the set of the numbers of its bits.             *)
(***************************************************************************)
Bits(b) == {i \in 0 .. 7 : (b \div 2^i) % 2 = 1}
Xor(a, b) == (a \ b) \cup (b \ a)

\* Mutant: the top bit is shifted out.
CheckByteUpdateShift(v, d) == Xor({i + 1 : i \in v \ {7}}, Bits(d))

CHECK_BYTE_UPDATE(v, d) == Xor({(i + 1) % 8 : i \in v}, Bits(d))
CheckByte(data) ==
  LET upTo[n \in 0 .. Len(data)] ==
        IF n = 0 THEN Bits(240) ELSE CHECK_BYTE_UPDATE(upTo[n - 1], data[n])
  IN  upTo[Len(data)]

CheckByteValid(data) ==
  data # << >> /\ CheckByte(Front(data)) = Bits(Last(data))

packetReadCheckByte(p) ==
  /\ IF packetReadLength(p) = 1 /\ CheckByteValid(Data(p))
     THEN SetCursor(p, packetCursor(p) + 1)
     ELSE UNCHANGED mem
  /\ UNCHANGED held

-----------------------------------------------------------------------------
(***************************************************************************)
(* Reading a number.  packetReadByte delivers unread bytes until maxLen of *)
(* them are read; the position where that is so is computed in a u32.      *)
(***************************************************************************)
Offered(p, maxLen) ==
  LET max == (packetCursor(p) + maxLen) % UIntMod
  IN  SubSeq(Data(p), packetCursor(p) + 1,
             IF max < packetLength(p) THEN max ELSE packetLength(p))

\* The value of a digit or letter; 36 is the value of everything else.
DigitValue(ch) ==
  LET lower == IF 5 \in Bits(ch) THEN ch ELSE ch + 32
  IN  CASE ch \in 48 .. 57 -> ch - 48
        [] ch \notin 48 .. 57 /\ lower \in 97 .. 122 -> lower - 87
        [] OTHER -> 36

Space == 32
Minus == 45
Plus == 43

Started == [phase |-> "start", negative |-> FALSE, num |-> 0, used |-> 0]

\* Mutant: the character after the digits is not put back.
AfterDigitsTooFar(s) == [s EXCEPT !.phase = "done", !.used = @ + 1]

\* It was read to find the end of the number, and is put back.
AfterDigits(s) == [s EXCEPT !.phase = "done"]

ReadChar(s, ch, code) ==
  LET read == [s EXCEPT !.used = @ + 1] IN
  CASE s.phase \in {"done", "failed"} -> s
    [] s.phase = "start" /\ ch = Space -> read
    [] s.phase = "start" /\ ch \in {Minus, Plus} ->
         [read EXCEPT !.phase = "sign", !.negative = ch = Minus]
    [] s.phase \in {"start", "sign", "digits"} /\ DigitValue(ch) < code ->
         [read EXCEPT !.phase = "digits", !.num = (@ * code + DigitValue(ch)) % UIntMod]
    [] s.phase = "digits" /\ DigitValue(ch) >= code -> AfterDigits(s)
    [] OTHER -> [read EXCEPT !.phase = "failed"]

ReadText(text, code) ==
  LET after[n \in 0 .. Len(text)] ==
        IF n = 0 THEN Started ELSE ReadChar(after[n - 1], text[n], code)
      s == after[Len(text)]
  IN  [ok |-> s.phase \in {"digits", "done"}, used |-> s.used,
       value |-> IF s.negative THEN (UIntMod - s.num) % UIntMod ELSE s.num]

\* A big-endian number of 1, 2 or 4 bytes; if some are missing, the rest is read.
ReadBinary(text, code) ==
  LET size == 2 ^ (-code)
      used == IF size < Len(text) THEN size ELSE Len(text)
  IN  [ok |-> used = size, used |-> used,
       value |-> FoldLeft(LAMBDA n, ch : (n * 256 + ch) % UIntMod, 0,
                          SubSeq(text, 1, used))]

NumberRead(text, code) ==
  IF code \in BELONG .. BYTE THEN ReadBinary(text, code) ELSE ReadText(text, code)

packetReadNumber(p, code, maxLen) ==
  /\ \E n \in 0 .. packetReadLength(p) :
       /\ n = NumberRead(Offered(p, maxLen), code).used
       /\ SetCursor(p, packetCursor(p) + n)
  /\ UNCHANGED held

-----------------------------------------------------------------------------
Next ==
  \E p \in held :
    \/ \E i \in Indices : packetReread(p, i)
    \/ \E n \in BlockLengths \cup {8} : packetReadBytes(p, n)
    \/ packetReadPacket(p)
    \/ packetReadCheckByte(p)
    \/ \E code \in Codes, maxLen \in MaxLens : packetReadNumber(p, code, maxLen)

Spec == Init /\ [][Next]_vars

-----------------------------------------------------------------------------
\* A pointer has room for a header before it, and memory holds bytes.
TypeOK ==
  /\ mem \in [0 .. BufferLength - 1 -> Byte]
  /\ held \subseteq 4 .. BufferLength - 1

\* No read stops the tile with E_API_INVALID_PACKET: every packet that the
\* handler holds is valid and ends with its null byte inside the buffer,
\* whatever the sender put into the bytes that are taken for a header.
HeldValid ==
  \A p \in held : validPacket(p) /\ p + packetLength(p) < BufferLength

\* Two packets that are held share no byte, the header and the null byte
\* included, unless one lies in what was already read of the other: so moving
\* the cursor of one never changes what another has still to read.
HeldApart ==
  \A p, q \in held :
    \/ p = q
    \/ p + packetLength(p) < q - 4
    \/ q + packetLength(q) < p - 4
    \/ p <= q - 4 /\ q + packetLength(q) < p + packetCursor(p)
    \/ q <= p - 4 /\ p + packetLength(p) < q + packetCursor(q)

\* Reading changes nothing in the data of a packet but the cursors of packets
\* that are held out of it, so that going back finds the same bytes again.
OnlyInnerCursorsChange ==
  [][\A p \in held : \A a \in p .. p + packetLength(p) :
        \/ mem'[a] = mem[a]
        \/ \E q \in held : a = q - 2 /\ Inside(q, p)]_vars

\* A byte with one bit turned over.
Flipped(b, i) == IF i \in Bits(b) THEN b - 2^i ELSE b + 2^i

\* What a check byte is for: a packet with a valid check byte has none any
\* more when any one bit of it, the check byte included, is turned over.
CheckByteShowsErrors ==
  \A p \in held : CheckByteValid(Data(p)) =>
    \A k \in 1 .. packetLength(p), i \in 0 .. 7 :
      ~ CheckByteValid([Data(p) EXCEPT ![k] = Flipped(@, i)])

\* The text begins with a number: spaces, perhaps a sign, and all the digits
\* that follow.
Numeral(text, spaces, sign, digits, code) ==
  /\ spaces + sign + digits <= Len(text)
  /\ \A k \in 1 .. spaces : text[k] = Space
  /\ sign = 1 => text[spaces + 1] \in {Minus, Plus}
  /\ \A k \in 1 .. digits : DigitValue(text[spaces + sign + k]) < code
  /\ \/ spaces + sign + digits = Len(text)
     \/ DigitValue(text[spaces + sign + digits + 1]) >= code

Polynomial(digits, code) ==
  LET weight[k \in 0 .. Len(digits)] == IF k = 0 THEN 1 ELSE code * weight[k - 1]
      upTo[k \in 0 .. Len(digits)] ==
        IF k = 0 THEN 0
        ELSE upTo[k - 1] + DigitValue(digits[k]) * weight[Len(digits) - k]
  IN  upTo[Len(digits)]

\* read is what reading text should give: it succeeds exactly on the longest
\* number that text begins with, stores its value, and leaves the cursor on the
\* first byte after it.  Of a read that fails this asks only what
\* MFMPacket.cpp:545 does, where the cursor may have advanced or not: it has
\* passed spaces, perhaps a sign, and at most the character that is in the way.
ReadsNumber(read, text, code) ==
  LET N == 0 .. Len(text)
      numerals == {n \in N \X {0, 1} \X (N \ {0}) :
                     Numeral(text, n[1], n[2], n[3], code)}
  IN  /\ read.ok <=> numerals # {}
      /\ \A n \in numerals :
           LET digits == SubSeq(text, n[1] + n[2] + 1, n[1] + n[2] + n[3])
               value == Polynomial(digits, code) % UIntMod
               minus == n[2] = 1 /\ text[n[1] + 1] = Minus
           IN  /\ read.used = n[1] + n[2] + n[3]
               /\ read.value = IF minus THEN (UIntMod - value) % UIntMod ELSE value
      /\ numerals = {} =>
           /\ read.used <= Len(text)
           /\ \A k \in 1 .. read.used - 1 : text[k] \in {Space, Minus, Plus}
           /\ \A k \in 1 .. read.used - 2 : text[k] = Space

\* packetRead of a number in a base finds the number that is next in the packet,
\* if there is one, in the next maxLen bytes, or in all that are unread if they
\* are fewer, and passes exactly it.  maxLen is one that added to the cursor
\* does not overflow.  Where it leaves the cursor if there is no number is the
\* subject of CursorAtFirstUnread.
NumbersReadRight ==
  \A p \in held, code \in Codes, maxLen \in MaxLens :
    code >= 2 /\ packetCursor(p) + maxLen < UIntMod =>
      LET end == IF maxLen < packetReadLength(p) THEN maxLen ELSE packetReadLength(p)
      IN  ReadsNumber(NumberRead(Offered(p, maxLen), code),
                      SubSeq(Unread(p), 1, end), code)

\* MFMPacket.cpp:284 of the same reads: the bytes passed are all those that can
\* be read as spaces, a sign and digits, so that the cursor is left at the end,
\* or "pointing at the first character of packet [that] could not be interpreted
\* as part of a number", found or not.  It does not hold: a read that fails on a
\* character leaves the cursor behind it.
CursorAtFirstUnread ==
  \A p \in held, code \in Codes, maxLen \in MaxLens :
    code >= 2 /\ packetCursor(p) + maxLen < UIntMod =>
      LET text == Offered(p, maxLen)
          N == 0 .. Len(text)
          read == {n[1] + n[2] + n[3] : n \in {m \in N \X {0, 1} \X N :
                     Numeral(text, m[1], m[2], m[3], code)}}
      IN  NumberRead(text, code).used = Max(read)
=============================================================================
