--------------------------- MODULE MFMPacketProofs ---------------------------
(***************************************************************************)
(* Proofs about MFMPacket, for packets of any content, buffers of any      *)
(* length and every sequence of reads.  Where the cursors go does not      *)
(* depend on what the formats of numbers and the check byte compute; the   *)
(* last two parts are about these.                                         *)
(***************************************************************************)
EXTENDS MFMPacket, ModArith

\* As HeldApart has it, for two packets.
Apart(p, q) ==
  \/ p = q
  \/ p + packetLength(p) < q - 4
  \/ q + packetLength(q) < p - 4
  \/ p <= q - 4 /\ q + packetLength(q) < p + packetCursor(p)
  \/ q <= p - 4 /\ p + packetLength(p) < q + packetCursor(q)

PacketInv == TypeOK /\ HeldValid /\ HeldApart

LEMMA Limits ==
  /\ BufferLength \in Nat /\ MAX_PACKET_LENGTH \in 0 .. 255
  /\ MAX_FACE_INDEX \in 1 .. 255 /\ Byte = 0 .. 255
BY PacketAssumption DEF Byte

LEMMA Bytes ==
  ASSUME PacketInv, NEW a \in 0 .. BufferLength - 1
  PROVE  mem[a] \in Nat /\ mem[a] \in 0 .. 255
<1>1. mem[a] \in 0 .. 255
  BY Limits DEF PacketInv, TypeOK
<1> QED BY <1>1

LEMMA ApartHeld == HeldApart <=> \A p, q \in held : Apart(p, q)
BY DEF HeldApart, Apart

LEMMA HeldNumbers ==
  ASSUME PacketInv, NEW p \in held
  PROVE  /\ p \in Nat /\ 4 <= p /\ p < BufferLength
         /\ packetSource(p) \in 0 .. 255 /\ packetSource(p) < MAX_FACE_INDEX
         /\ packetLength(p) \in 0 .. 255 /\ packetLength(p) <= MAX_PACKET_LENGTH
         /\ packetCursor(p) \in 0 .. 255 /\ packetCursor(p) <= packetLength(p)
         /\ p + packetLength(p) < BufferLength
<1>1. p \in 4 .. BufferLength - 1
  BY DEF PacketInv, TypeOK
<1>2. p \in Nat /\ 4 <= p /\ p < BufferLength
  BY <1>1, Limits
<1>3. {p - 4, p - 2, p - 1} \subseteq 0 .. BufferLength - 1
  BY <1>2, Limits
<1>4. \A a \in 0 .. BufferLength - 1 : mem[a] \in 0 .. 255
  BY Limits DEF PacketInv, TypeOK
<1>5. /\ packetSource(p) \in 0 .. 255 /\ packetLength(p) \in 0 .. 255
      /\ packetCursor(p) \in 0 .. 255
  BY <1>3, <1>4 DEF packetSource, packetLength, packetCursor
<1>6. validPacket(p) /\ p + packetLength(p) < BufferLength
  BY DEF PacketInv, HeldValid
<1> QED BY <1>2, <1>5, <1>6 DEF validPacket

\* A cursor is no byte of the header of any other packet that is held.
LEMMA CursorMoved ==
  ASSUME PacketInv, NEW p \in held, NEW i \in Nat, SetCursor(p, i)
  PROVE  /\ mem' \in [0 .. BufferLength - 1 -> Byte]
         /\ \A a \in 0 .. BufferLength - 1 : a # p - 2 => mem'[a] = mem[a]
         /\ packetCursor(p)' = IF i > packetLength(p) THEN packetLength(p) ELSE i
         /\ \A q \in held : /\ packetSource(q)' = packetSource(q)
                            /\ packetLength(q)' = packetLength(q)
                            /\ q # p => packetCursor(q)' = packetCursor(q)
<1>1. PICK j \in 0 .. 255 : j = IF i > packetLength(p) THEN packetLength(p) ELSE i
  BY HeldNumbers
<1>2. mem' = [mem EXCEPT ![p - 2] = j]
  BY <1>1 DEF SetCursor
<1>3. mem \in [0 .. BufferLength - 1 -> Byte]
  BY DEF PacketInv, TypeOK
<1>4. p - 2 \in 0 .. BufferLength - 1 /\ p \in Nat
  BY HeldNumbers, Limits
<1>5. mem' \in [0 .. BufferLength - 1 -> Byte]
  BY <1>2, <1>3, <1>4, Limits
<1>6. \A a \in 0 .. BufferLength - 1 : a # p - 2 => mem'[a] = mem[a]
  BY <1>2, <1>3
<1>7. mem'[p - 2] = j
  BY <1>2, <1>3, <1>4
<1>8. ASSUME NEW q \in held
      PROVE  /\ packetSource(q)' = packetSource(q)
             /\ packetLength(q)' = packetLength(q)
             /\ q # p => packetCursor(q)' = packetCursor(q)
  <2>1. q \in Nat /\ {q - 4, q - 2, q - 1} \subseteq 0 .. BufferLength - 1
    BY HeldNumbers, Limits
  <2>2. Apart(p, q)
    BY ApartHeld DEF PacketInv
  <2>3. PICK l \in Nat, k \in Nat, c \in Nat, d \in Nat :
          /\ l = packetLength(p) /\ k = packetLength(q)
          /\ c = packetCursor(p) /\ d = packetCursor(q)
    <3>1. \A r \in held : packetLength(r) \in Nat /\ packetCursor(r) \in Nat
      BY HeldNumbers
    <3> QED BY <3>1
  <2>4. \/ p = q \/ p + l < q - 4 \/ q + k < p - 4
        \/ (p <= q - 4 /\ q + k < p + c) \/ (q <= p - 4 /\ p + l < q + d)
    BY <2>2, <2>3 DEF Apart
  <2>5. q - 4 # p - 2 /\ q - 1 # p - 2 /\ (q # p => q - 2 # p - 2)
    BY <1>4, <2>1, <2>4
  <2> QED BY <1>6, <2>1, <2>5 DEF packetSource, packetLength, packetCursor
<1> QED BY <1>1, <1>5, <1>6, <1>7, <1>8 DEF packetCursor

\* The packets that are still held keep their places if the cursor went
\* forward, or if those that lie inside the packet are held no more.
LEMMA CursorKeeps ==
  ASSUME PacketInv, NEW p \in held, NEW i \in Nat, SetCursor(p, i),
         NEW S \in SUBSET held,
         packetCursor(p) <= i \/ \A q \in S : ~ Inside(q, p)
  PROVE  /\ \A q \in S : /\ validPacket(q)'
                         /\ q + packetLength(q)' < BufferLength
         /\ \A q, r \in S : Apart(q, r)'
<1>1. /\ packetCursor(p)' = IF i > packetLength(p) THEN packetLength(p) ELSE i
      /\ \A q \in held : /\ packetSource(q)' = packetSource(q)
                         /\ packetLength(q)' = packetLength(q)
                         /\ q # p => packetCursor(q)' = packetCursor(q)
  BY CursorMoved
<1>2. ASSUME NEW q \in S
      PROVE  validPacket(q)' /\ q + packetLength(q)' < BufferLength
  <2>1. /\ packetLength(q) <= MAX_PACKET_LENGTH /\ packetCursor(q) <= packetLength(q)
        /\ packetSource(q) < MAX_FACE_INDEX /\ q + packetLength(q) < BufferLength
    BY HeldNumbers
  <2>2. packetCursor(q)' <= packetLength(q)
    <3>1. CASE q = p
      <4>1. packetLength(p) \in Nat
        BY HeldNumbers
      <4> QED BY <1>1, <3>1, <4>1
    <3>2. CASE q # p
      BY <1>1, <2>1, <3>2
    <3> QED BY <3>1, <3>2
  <2> QED BY <1>1, <2>1, <2>2 DEF validPacket
<1>3. ASSUME NEW q \in S, q # p
      PROVE  Apart(p, q)' /\ Apart(q, p)'
  <2>1. Apart(p, q)
    BY ApartHeld DEF PacketInv
  <2>2. PICK l \in Nat, k \in Nat, c \in Nat, d \in Nat :
          /\ l = packetLength(p) /\ k = packetLength(q)
          /\ c = packetCursor(p) /\ d = packetCursor(q) /\ c <= l
    <3>1. \A r \in held : packetLength(r) \in Nat /\ packetCursor(r) \in Nat
      BY HeldNumbers
    <3>2. packetCursor(p) <= packetLength(p)
      BY HeldNumbers
    <3> QED BY <3>1, <3>2
  <2>3. p \in Nat /\ q \in Nat
    BY HeldNumbers
  <2>4. \/ p + l < q - 4 \/ q + k < p - 4
        \/ (p <= q - 4 /\ q + k < p + c) \/ (q <= p - 4 /\ p + l < q + d)
    BY <1>3, <2>1, <2>2 DEF Apart
  <2>5. PICK e \in Nat : e = packetCursor(p)' /\ (c <= i => c <= e)
    <3>1. PICK e \in Nat : e = IF i > l THEN l ELSE i
      OBVIOUS
    <3>2. c <= i => c <= e
      BY <2>2, <3>1
    <3> QED BY <1>1, <2>2, <3>1, <3>2
  <2>6. c <= i \/ ~ (p <= q - 4 /\ q + k < p + l)
    BY <2>2 DEF Inside
  <2>7. \/ p + l < q - 4 \/ q + k < p - 4
        \/ (p <= q - 4 /\ q + k < p + e) \/ (q <= p - 4 /\ p + l < q + d)
    <3>1. c <= l
      BY <2>2
    <3>2. c <= i => c <= e
      BY <2>5
    <3> QED BY <2>3, <2>4, <2>6, <3>1, <3>2
  <2>8. packetLength(p)' = l /\ packetLength(q)' = k /\ packetCursor(q)' = d
    BY <1>1, <1>3, <2>2
  <2> QED BY <2>5, <2>7, <2>8, Zenon DEF Apart
<1>4. ASSUME NEW q \in S, NEW r \in S
      PROVE  Apart(q, r)'
  <2>1. CASE q = p \/ r = p
    <3>1. CASE q = r
      BY <3>1 DEF Apart
    <3>2. CASE q # r
      BY <1>3, <2>1, <3>2
    <3> QED BY <3>1, <3>2
  <2>2. CASE q # p /\ r # p
    <3>1. Apart(q, r)
      BY ApartHeld DEF PacketInv
    <3> QED BY <1>1, <2>2, <3>1 DEF Apart
  <2> QED BY <2>1, <2>2
<1> QED BY <1>2, <1>4

LEMMA Reads ==
  ASSUME PacketInv, NEW p \in held, NEW i \in Nat, SetCursor(p, i),
         packetCursor(p) <= i, UNCHANGED held
  PROVE  PacketInv'
<1>1. TypeOK'
  BY CursorMoved DEF PacketInv, TypeOK
<1>2. HeldValid'
  BY CursorKeeps DEF HeldValid
<1>3. HeldApart'
  <2>1. \A q, r \in held : Apart(q, r)'
    BY CursorKeeps
  <2> QED BY <2>1 DEF HeldApart, Apart
<1> QED BY <1>1, <1>2, <1>3 DEF PacketInv

LEMMA Unchanged ==
  ASSUME PacketInv, UNCHANGED vars
  PROVE  PacketInv'
BY DEF PacketInv, TypeOK, HeldValid, HeldApart, vars, validPacket, packetLength,
       packetCursor, packetSource

-----------------------------------------------------------------------------
LEMMA Bounds ==
  /\ BlockLengths \cup {8} \subseteq Nat /\ MaxLens \subseteq Nat /\ Indices \subseteq Nat
BY PacketAssumption

\* Going back: what lies inside the packet is held no more.
LEMMA RereadKeeps ==
  ASSUME PacketInv, NEW p \in held, NEW i \in Indices, packetReread(p, i)
  PROVE  PacketInv'
<1>1. SetCursor(p, i) /\ held' = {q \in held : ~ Inside(q, p)} /\ i \in Nat
  BY Bounds DEF packetReread
<1>2. held' \in SUBSET held /\ \A q \in held' : ~ Inside(q, p)
  BY <1>1
<1>3. /\ \A q \in held' : validPacket(q)' /\ q + packetLength(q)' < BufferLength
      /\ \A q, r \in held' : Apart(q, r)'
  BY <1>1, <1>2, CursorKeeps
<1>4. TypeOK'
  BY <1>1, <1>2, CursorMoved DEF PacketInv, TypeOK
<1>5. HeldValid' /\ HeldApart'
  BY <1>3 DEF HeldValid, HeldApart, Apart
<1> QED BY <1>4, <1>5 DEF PacketInv

LEMMA ReadBytesKeeps ==
  ASSUME PacketInv, NEW p \in held, NEW n \in Nat,
         UNCHANGED mem \/ SetCursor(p, packetCursor(p) + n), UNCHANGED held
  PROVE  PacketInv'
<1>1. CASE UNCHANGED mem
  BY <1>1, Unchanged DEF vars
<1>2. CASE SetCursor(p, packetCursor(p) + n)
  <2>1. packetCursor(p) \in Nat
    BY HeldNumbers
  <2>2. packetCursor(p) + n \in Nat /\ packetCursor(p) <= packetCursor(p) + n
    BY <2>1
  <2> QED BY <1>2, <2>2, Reads
<1> QED BY <1>1, <1>2

\* An inner packet lies in what was just read of the packet around it, and so
\* apart from all the packets that were held before.
LEMMA ReadPacketKeeps ==
  ASSUME PacketInv, NEW p \in held, InnerFits(p), SetCursor(p, AfterInner(p)),
         held' = held \cup {InnerPacket(p)}
  PROVE  PacketInv'
<1>1. PICK l \in Nat, c \in Nat, b \in Nat :
        /\ l = packetLength(p) /\ c = packetCursor(p) /\ b = BufferLength
        /\ c <= l /\ p + l < b /\ p \in Nat /\ 4 <= p
  <2>1. packetLength(p) \in Nat /\ packetCursor(p) \in Nat
    BY HeldNumbers
  <2> QED BY <2>1, HeldNumbers, Limits
<1>n. c <= l /\ p + l < b /\ p \in Nat /\ 4 <= p
  BY <1>1
<1>2. PICK n \in Nat : n = InnerPacket(p) /\ n = p + c + 4
  BY <1>1 DEF InnerPacket
<1>3. l - c >= 5
  <2>1. l - c = packetReadLength(p)
    BY <1>1 DEF packetReadLength
  <2>2. l - c \in Int /\ 4 + 1 = 5
    OBVIOUS
  <2> QED BY <2>1, <2>2, Zenon DEF InnerFits
<1>4. n < b /\ n \in 4 .. b - 1 /\ {n - 4, n - 2, n - 1} \subseteq 0 .. b - 1
      /\ p - 2 \notin {n - 4, n - 2, n - 1} /\ n # p
  BY <1>n, <1>2, <1>3
<1>5. PICK k \in Nat, d \in Nat :
        k = packetLength(n) /\ d = packetCursor(n) /\ k + 5 <= l - c /\ d <= k
  <2>1. packetLength(n) \in Nat /\ packetCursor(n) \in Nat
    <3>1. \A a \in 0 .. b - 1 : mem[a] \in Nat
      BY <1>1, Bytes
    <3> QED BY <1>4, <3>1 DEF packetLength, packetCursor
  <2>2. packetReadLength(p) - 4 - 1 >= packetLength(n) /\ packetCursor(n) <= packetLength(n)
    BY <1>2 DEF InnerFits, validPacket
  <2>3. (l - c) - 4 - 1 >= packetLength(n)
    BY <1>1, <2>2 DEF packetReadLength
  <2>4. packetLength(n) + 5 <= l - c
    BY <2>1, <2>3
  <2> QED BY <2>1, <2>2, <2>4
<1>6. AfterInner(p) = c + k + 4 + 1 /\ AfterInner(p) \in Nat /\ packetCursor(p) <= AfterInner(p)
  BY <1>1, <1>2, <1>5 DEF AfterInner
<1>7. /\ mem' \in [0 .. b - 1 -> Byte]
      /\ \A a \in 0 .. b - 1 : a # p - 2 => mem'[a] = mem[a]
      /\ \A q \in held : /\ packetLength(q)' = packetLength(q)
                         /\ q # p => packetCursor(q)' = packetCursor(q)
  BY <1>1, <1>6, CursorMoved
<1>8. packetCursor(p)' = c + k + 5
  <2>1. packetCursor(p)' = IF AfterInner(p) > l THEN l ELSE AfterInner(p)
    BY <1>1, <1>6, CursorMoved
  <2>2. ~ c + k + 4 + 1 > l /\ c + k + 4 + 1 = c + k + 5
    BY <1>5
  <2> QED BY <1>6, <2>1, <2>2, Zenon
<1>9. /\ packetSource(n)' = packetSource(n) /\ packetLength(n)' = k
      /\ packetCursor(n)' = d
  BY <1>4, <1>5, <1>7 DEF packetSource, packetLength, packetCursor
<1>10. /\ \A q \in held : validPacket(q)' /\ q + packetLength(q)' < b
       /\ \A q, r \in held : Apart(q, r)'
  BY <1>1, <1>6, CursorKeeps
<1>11. validPacket(n)' /\ n + packetLength(n)' < b
  <2>1. validPacket(n)
    BY <1>2 DEF InnerFits
  <2>2. validPacket(n)'
    BY <1>5, <1>9, <2>1 DEF validPacket
  <2>3. n + k < b
    BY <1>n, <1>2, <1>5
  <2> QED BY <1>9, <2>2, <2>3
<1>12. Apart(p, n)' /\ Apart(n, p)' /\ Apart(n, n)'
  <2>1. p <= n - 4 /\ n + k < p + (c + k + 5)
    BY <1>n, <1>2
  <2> QED BY <1>8, <1>9, <2>1, Zenon DEF Apart
<1>13. ASSUME NEW q \in held, q # p
       PROVE  Apart(q, n)' /\ Apart(n, q)'
  <2>1. PICK m \in Nat, e \in Nat :
          m = packetLength(q) /\ e = packetCursor(q) /\ q \in Nat
    <3>1. packetLength(q) \in Nat /\ packetCursor(q) \in Nat
      BY HeldNumbers
    <3> QED BY <3>1, HeldNumbers
  <2>2. Apart(p, q)
    BY ApartHeld DEF PacketInv
  <2>3. \/ p + l < q - 4 \/ q + m < p - 4
        \/ (p <= q - 4 /\ q + m < p + c) \/ (q <= p - 4 /\ p + l < q + e)
    BY <1>1, <1>13, <2>1, <2>2 DEF Apart
  <2>4. n + k < q - 4 \/ q + m < n - 4 \/ (q <= n - 4 /\ n + k < q + e)
    <3>1. n = p + c + 4 /\ k + 5 <= l - c /\ q \in Nat
      BY <1>2, <1>5, <2>1
    <3> QED BY <1>n, <2>3, <3>1
  <2>5. packetLength(q)' = m /\ packetCursor(q)' = e
    BY <1>7, <1>13, <2>1
  <2> QED BY <1>9, <2>4, <2>5, Zenon DEF Apart
<1>14. TypeOK'
  BY <1>1, <1>2, <1>4, <1>7 DEF PacketInv, TypeOK
<1>15. HeldValid'
  BY <1>1, <1>2, <1>10, <1>11 DEF HeldValid
<1>16. HeldApart'
  <2>1. \A q, r \in held' : Apart(q, r)'
    BY <1>2, <1>10, <1>12, <1>13
  <2> QED BY <2>1 DEF HeldApart, Apart
<1> QED BY <1>14, <1>15, <1>16 DEF PacketInv

-----------------------------------------------------------------------------
LEMMA InitPacket == Init => PacketInv
<1> SUFFICES ASSUME Init PROVE PacketInv
  OBVIOUS
<1>1. PICK face \in {0, MAX_FACE_INDEX - 1}, m \in Messages : mem = MadePacket(face, m)
  BY DEF Init
<1>2. held = {4}
  BY DEF Init
<1>3. /\ m \in Seq(Byte) /\ Len(m) \in Nat /\ Len(m) < MAX_PACKET_LENGTH
      /\ 4 + Len(m) < BufferLength
  <2>1. m \in Seq(Byte) /\ Len(m) < MAX_PACKET_LENGTH - 1 /\ Len(m) + 1 + 4 <= BufferLength
    BY PacketAssumption
  <2>2. Len(m) \in Nat
    BY <2>1
  <2> QED BY <2>1, <2>2, Limits
<1>4. face \in Byte /\ face < MAX_FACE_INDEX /\ Len(m) \in Byte /\ 0 \in Byte
  <2>1. Len(m) \in Byte /\ 0 \in Byte
    <3>1. PICK k \in Nat, x \in 0 .. 255 : k = Len(m) /\ x = MAX_PACKET_LENGTH /\ k < x
      BY <1>3, Limits
    <3>2. k < x
      BY <3>1
    <3>3. k \in 0 .. 255 /\ 0 \in 0 .. 255
      BY <3>2
    <3> QED BY <3>1, <3>3 DEF Byte
  <2>2. face \in Byte /\ face < MAX_FACE_INDEX
    BY <1>1, Limits
  <2> QED BY <2>1, <2>2
<1> DEFINE bytes == <<face, 0, 0, Len(m)>> \o m \o <<0>>
<1>5. bytes \in Seq(Byte)
  <2>1. <<face, 0, 0, Len(m)>> \in Seq(Byte) /\ <<0>> \in Seq(Byte)
    BY <1>4
  <2>2. <<face, 0, 0, Len(m)>> \o m \in Seq(Byte)
    BY <1>3, <2>1
  <2> QED BY <2>1, <2>2
<1>6. Len(bytes) = Len(m) + 5
  <2>1. Len(<<face, 0, 0, Len(m)>> \o m) = 4 + Len(m)
    BY <1>3
  <2>2. <<face, 0, 0, Len(m)>> \o m \in Seq(Byte)
    BY <1>3, <1>4
  <2> QED BY <1>3, <2>1, <2>2
<1>7. bytes[1] = face /\ bytes[3] = 0 /\ bytes[4] = Len(m)
  <2>1. /\ (<<face, 0, 0, Len(m)>> \o m)[1] = face
        /\ (<<face, 0, 0, Len(m)>> \o m)[3] = 0
        /\ (<<face, 0, 0, Len(m)>> \o m)[4] = Len(m)
    BY <1>3, <1>4
  <2>2. Len(<<face, 0, 0, Len(m)>> \o m) = 4 + Len(m)
    BY <1>3
  <2>3. <<face, 0, 0, Len(m)>> \o m \in Seq(Byte)
    BY <1>3, <1>4
  <2> QED BY <1>3, <2>1, <2>2, <2>3
<1> HIDE DEF bytes
<1>8. mem = [a \in 0 .. BufferLength - 1 |-> IF a < Len(bytes) THEN bytes[a + 1] ELSE 0]
  BY <1>1 DEF MadePacket, bytes
<1>9. mem \in [0 .. BufferLength - 1 -> Byte]
  <2>1. ASSUME NEW a \in 0 .. BufferLength - 1
        PROVE  (IF a < Len(bytes) THEN bytes[a + 1] ELSE 0) \in Byte
    <3>1. CASE a < Len(bytes)
      <4>1. a + 1 \in 1 .. Len(bytes)
        BY <1>3, <1>6, <3>1, Limits
      <4> QED BY <1>5, <3>1, <4>1
    <3>2. CASE ~ a < Len(bytes)
      BY <1>4, <3>2
    <3> QED BY <3>1, <3>2
  <2> QED BY <1>8, <2>1
<1>10. mem[0] = face /\ mem[2] = 0 /\ mem[3] = Len(m)
  <2>1. {0, 2, 3} \subseteq 0 .. BufferLength - 1
    BY <1>3, Limits
  <2>2. 0 < Len(bytes) /\ 2 < Len(bytes) /\ 3 < Len(bytes)
    BY <1>3, <1>6
  <2>3. 0 + 1 = 1 /\ 2 + 1 = 3 /\ 3 + 1 = 4
    OBVIOUS
  <2> QED BY <1>7, <1>8, <2>1, <2>2, <2>3
<1>11. packetSource(4) = face /\ packetCursor(4) = 0 /\ packetLength(4) = Len(m)
  <2>1. 4 - 4 = 0 /\ 4 - 2 = 2 /\ 4 - 1 = 3
    OBVIOUS
  <2> QED BY <1>10, <2>1 DEF packetSource, packetCursor, packetLength
<1>12. TypeOK
  <2>1. 4 \in 4 .. BufferLength - 1
    BY <1>3, Limits
  <2> QED BY <1>2, <1>9, <2>1 DEF TypeOK
<1>13. HeldValid
  <2>1. Len(m) <= MAX_PACKET_LENGTH /\ 0 <= Len(m)
    BY <1>3, Limits
  <2>2. validPacket(4) /\ 4 + packetLength(4) < BufferLength
    BY <1>3, <1>4, <1>11, <2>1 DEF validPacket
  <2> QED BY <1>2, <2>2 DEF HeldValid
<1>14. HeldApart
  BY <1>2 DEF HeldApart
<1> QED BY <1>12, <1>13, <1>14 DEF PacketInv

\* What a step of the handler is, as far as the cursors go.
LEMMA HandlerStep ==
  ASSUME PacketInv, Next
  PROVE  \E p \in held :
           \/ \E i \in Indices : packetReread(p, i)
           \/ UNCHANGED vars
           \/ \E n \in Nat : SetCursor(p, packetCursor(p) + n) /\ UNCHANGED held
           \/ /\ InnerFits(p) /\ SetCursor(p, AfterInner(p))
              /\ held' = held \cup {InnerPacket(p)}
<1>1. PICK p \in held :
        \/ \E i \in Indices : packetReread(p, i)
        \/ \E n \in BlockLengths \cup {8} : packetReadBytes(p, n)
        \/ packetReadPacket(p)
        \/ packetReadCheckByte(p)
        \/ \E code \in Codes, maxLen \in MaxLens : packetReadNumber(p, code, maxLen)
  BY DEF Next
<1>2. CASE \E n \in BlockLengths \cup {8} : packetReadBytes(p, n)
  BY <1>2, Bounds DEF packetReadBytes, vars
<1>3. CASE packetReadPacket(p)
  BY <1>3, Zenon DEF packetReadPacket
<1>4. CASE packetReadCheckByte(p)
  BY <1>4 DEF packetReadCheckByte, vars
<1>5. CASE \E code \in Codes, maxLen \in MaxLens : packetReadNumber(p, code, maxLen)
  <2>1. PICK n \in 0 .. packetReadLength(p) :
          SetCursor(p, packetCursor(p) + n) /\ UNCHANGED held
    BY <1>5, Zenon DEF packetReadNumber
  <2>2. n \in Nat
    BY HeldNumbers DEF packetReadLength
  <2> QED BY <2>1, <2>2
<1> QED BY <1>1, <1>2, <1>3, <1>4, <1>5

LEMMA NextPacket == PacketInv /\ [Next]_vars => PacketInv'
<1>1. ASSUME PacketInv, Next PROVE PacketInv'
  BY <1>1, HandlerStep, RereadKeeps, ReadBytesKeeps, ReadPacketKeeps, Unchanged
<1> QED BY <1>1, Unchanged

THEOREM PacketInvariant == Spec => []PacketInv
BY InitPacket, NextPacket, PTL DEF Spec

\* All pointers that a handler has lead into the buffer.
THEOREM PacketTypes == Spec => []TypeOK
<1>1. PacketInv => TypeOK
  BY DEF PacketInv
<1> QED BY <1>1, PacketInvariant, PTL

\* Whatever bytes a packet consists of, every packet that is read out of it is
\* valid and lies in the buffer, so no read stops the tile.
THEOREM Valid == Spec => []HeldValid
<1>1. PacketInv => HeldValid
  BY DEF PacketInv
<1> QED BY <1>1, PacketInvariant, PTL

\* Held packets share no byte, but one may lie in what was read of another.
THEOREM PacketsApart == Spec => []HeldApart
<1>1. PacketInv => HeldApart
  BY DEF PacketInv
<1> QED BY <1>1, PacketInvariant, PTL

\* Reading changes nothing in the data of a packet but the cursors of packets
\* that are held out of it.
THEOREM OnlyCursors == Spec => OnlyInnerCursorsChange
<1> DEFINE Kept ==
      \A p \in held : \A a \in p .. p + packetLength(p) :
        \/ mem'[a] = mem[a]
        \/ \E q \in held : a = q - 2 /\ Inside(q, p)
<1>1. ASSUME PacketInv, NEW q \in held, NEW i \in Nat, SetCursor(q, i) PROVE Kept
  <2> SUFFICES ASSUME NEW p \in held, NEW a \in p .. p + packetLength(p), a = q - 2
               PROVE  Inside(q, p)
    <3>1. \A p \in held : p .. p + packetLength(p) \subseteq 0 .. BufferLength - 1
      BY <1>1, HeldNumbers, Limits
    <3>2. \A a \in 0 .. BufferLength - 1 : a # q - 2 => mem'[a] = mem[a]
      BY <1>1, CursorMoved
    <3> QED BY <3>1, <3>2
  <2>1. Apart(p, q)
    BY <1>1, ApartHeld DEF PacketInv
  <2>2. \A r \in held : /\ packetLength(r) \in Nat /\ packetCursor(r) \in Nat
                        /\ packetCursor(r) <= packetLength(r) /\ r \in Nat
    BY <1>1, HeldNumbers
  <2>3. PICK l \in Nat, k \in Nat, c \in Nat, d \in Nat :
          /\ l = packetLength(p) /\ k = packetLength(q)
          /\ c = packetCursor(p) /\ d = packetCursor(q) /\ c <= l
    BY <2>2
  <2>4. \/ p = q \/ p + l < q - 4 \/ q + k < p - 4
        \/ (p <= q - 4 /\ q + k < p + c) \/ (q <= p - 4 /\ p + l < q + d)
    BY <2>1, <2>3 DEF Apart
  <2>5. p <= a /\ a <= p + l /\ p \in Nat /\ q \in Nat
    BY <2>2, <2>3
  <2>6. p <= q - 4 /\ q + k < p + l
    <3>1. c <= l
      BY <2>3
    <3> QED BY <2>4, <2>5, <3>1
  <2> QED BY <2>3, <2>6 DEF Inside
<1>2. ASSUME PacketInv, [Next]_vars PROVE [Kept]_vars
  <2>1. CASE UNCHANGED vars
    BY <2>1
  <2>2. CASE Next
    <3>1. PICK q \in held :
            \/ \E i \in Indices : packetReread(q, i)
            \/ UNCHANGED vars
            \/ \E n \in Nat : SetCursor(q, packetCursor(q) + n) /\ UNCHANGED held
            \/ /\ InnerFits(q) /\ SetCursor(q, AfterInner(q))
               /\ held' = held \cup {InnerPacket(q)}
      BY <1>2, <2>2, HandlerStep
    <3>2. CASE \E i \in Indices : packetReread(q, i)
      BY <1>1, <1>2, <3>2, Bounds DEF packetReread
    <3>3. CASE \E n \in Nat : SetCursor(q, packetCursor(q) + n) /\ UNCHANGED held
      <4>1. packetCursor(q) \in Nat
        BY <1>2, HeldNumbers
      <4> QED BY <1>1, <1>2, <3>3, <4>1
    <3>4. CASE InnerFits(q) /\ SetCursor(q, AfterInner(q))
      <4>1. AfterInner(q) \in Nat
        <5>1. q \in Nat /\ 4 <= q /\ q + packetLength(q) < BufferLength /\ BufferLength \in Nat
              /\ packetCursor(q) \in Nat /\ packetLength(q) \in Nat
          BY <1>2, HeldNumbers, Limits
        <5>2. packetLength(q) - packetCursor(q) >= 4 + 1
          BY <3>4 DEF InnerFits, packetReadLength
        <5>3. q + packetCursor(q) + 4 - 1 \in 0 .. BufferLength - 1
          BY <5>1, <5>2
        <5>4. mem[q + packetCursor(q) + 4 - 1] \in Nat
          BY <1>2, <5>3, Bytes
        <5> QED BY <5>1, <5>4 DEF AfterInner, InnerPacket, packetLength
      <4> QED BY <1>1, <1>2, <3>4, <4>1
    <3> QED BY <3>1, <3>2, <3>3, <3>4
  <2> QED BY <1>2, <2>1, <2>2
<1> QED BY <1>2, PacketInvariant, PTL DEF Spec, OnlyInnerCursorsChange
-----------------------------------------------------------------------------
(***************************************************************************)
(* What the check byte computes, for data of every length.                 *)
(***************************************************************************)
\* The byte with the binary digits x.
ByteOf(x) ==
  x[0] + 2 * x[1] + 4 * x[2] + 8 * x[3] + 16 * x[4] + 32 * x[5] + 64 * x[6] + 128 * x[7]

Digits == [0 .. 7 -> 0 .. 1]

\* The values of the bits of a byte, each a fixed power.
LEMMA Powers ==
  /\ 2^0 = 1 /\ 2^1 = 2 /\ 2^2 = 4 /\ 2^3 = 8
  /\ 2^4 = 16 /\ 2^5 = 32 /\ 2^6 = 64 /\ 2^7 = 128
OBVIOUS

LEMMA BitNumbers == \A i \in 0 .. 7 : i \in {0, 1, 2, 3, 4, 5, 6, 7}
OBVIOUS

\* Every byte has binary digits, and they are its bits.
LEMMA DigitsOfByte ==
  ASSUME NEW b \in Byte
  PROVE  \E x \in Digits : b = ByteOf(x)
<1> DEFINE x == [i \in 0 .. 7 |->
                   IF i = 0 THEN b % 2 ELSE
                   IF i = 1 THEN (b \div 2) % 2 ELSE
                   IF i = 2 THEN (b \div 4) % 2 ELSE
                   IF i = 3 THEN (b \div 8) % 2 ELSE
                   IF i = 4 THEN (b \div 16) % 2 ELSE
                   IF i = 5 THEN (b \div 32) % 2 ELSE
                   IF i = 6 THEN (b \div 64) % 2 ELSE (b \div 128) % 2]
<1>1. x \in Digits
  BY DEF Byte, Digits
<1>2. /\ x[0] = b % 2 /\ x[1] = (b \div 2) % 2 /\ x[2] = (b \div 4) % 2
      /\ x[3] = (b \div 8) % 2 /\ x[4] = (b \div 16) % 2 /\ x[5] = (b \div 32) % 2
      /\ x[6] = (b \div 64) % 2 /\ x[7] = (b \div 128) % 2
  OBVIOUS
<1> HIDE DEF x
<1>3. b \in 0 .. 255
  BY DEF Byte
<1>4. b = ByteOf(x)
  BY <1>2, <1>3 DEF ByteOf
<1> QED BY <1>1, <1>4

LEMMA BitsOfDigits ==
  ASSUME NEW x \in Digits
  PROVE  /\ ByteOf(x) \in Byte
         /\ Bits(ByteOf(x)) = {i \in 0 .. 7 : x[i] = 1}
<1>1. PICK b \in Int : b = ByteOf(x)
  BY DEF ByteOf, Digits
<1>2. \A i \in 0 .. 7 : x[i] \in 0 .. 1
  BY DEF Digits
<1>3. PICK x0 \in 0 .. 1, x1 \in 0 .. 1, x2 \in 0 .. 1, x3 \in 0 .. 1 :
        x0 = x[0] /\ x1 = x[1] /\ x2 = x[2] /\ x3 = x[3]
  BY <1>2
<1>4. PICK x4 \in 0 .. 1, x5 \in 0 .. 1, x6 \in 0 .. 1, x7 \in 0 .. 1 :
        x4 = x[4] /\ x5 = x[5] /\ x6 = x[6] /\ x7 = x[7]
  BY <1>2
<1>5. b = x0 + 2 * x1 + 4 * x2 + 8 * x3 + 16 * x4 + 32 * x5 + 64 * x6 + 128 * x7
  BY <1>1, <1>3, <1>4 DEF ByteOf
<1>6. /\ (b \div 1) % 2 = x0 /\ (b \div 2) % 2 = x1
      /\ (b \div 4) % 2 = x2 /\ (b \div 8) % 2 = x3
  BY <1>5
<1>7. /\ (b \div 16) % 2 = x4 /\ (b \div 32) % 2 = x5
      /\ (b \div 64) % 2 = x6 /\ (b \div 128) % 2 = x7
  BY <1>5
<1>8. ASSUME NEW i \in 0 .. 7 PROVE (b \div 2^i) % 2 = x[i]
  <2>0. CASE i = 0
    <3>1. (b \div 1) % 2 = x[0]
      BY <1>3, <1>6
    <3> QED BY <2>0, <3>1, Powers, Zenon
  <2>1. CASE i = 1
    <3>1. (b \div 2) % 2 = x[1]
      BY <1>3, <1>6
    <3> QED BY <2>1, <3>1, Powers, Zenon
  <2>2. CASE i = 2
    <3>1. (b \div 4) % 2 = x[2]
      BY <1>3, <1>6
    <3> QED BY <2>2, <3>1, Powers, Zenon
  <2>3. CASE i = 3
    <3>1. (b \div 8) % 2 = x[3]
      BY <1>3, <1>6
    <3> QED BY <2>3, <3>1, Powers, Zenon
  <2>4. CASE i = 4
    <3>1. (b \div 16) % 2 = x[4]
      BY <1>4, <1>7
    <3> QED BY <2>4, <3>1, Powers, Zenon
  <2>5. CASE i = 5
    <3>1. (b \div 32) % 2 = x[5]
      BY <1>4, <1>7
    <3> QED BY <2>5, <3>1, Powers, Zenon
  <2>6. CASE i = 6
    <3>1. (b \div 64) % 2 = x[6]
      BY <1>4, <1>7
    <3> QED BY <2>6, <3>1, Powers, Zenon
  <2>7. CASE i = 7
    <3>1. (b \div 128) % 2 = x[7]
      BY <1>4, <1>7
    <3> QED BY <2>7, <3>1, Powers, Zenon
  <2> QED BY <2>0, <2>1, <2>2, <2>3, <2>4, <2>5, <2>6, <2>7, BitNumbers
<1>9. b \in Byte
  BY <1>5 DEF Byte
<1> QED BY <1>1, <1>8, <1>9 DEF Bits

\* A bit that is turned over is one bit more or less.
LEMMA FlippedBits ==
  ASSUME NEW b \in Byte, NEW i \in 0 .. 7
  PROVE  Flipped(b, i) \in Byte /\ Bits(Flipped(b, i)) = Xor(Bits(b), {i})
<1>1. PICK x \in Digits : b = ByteOf(x)
  BY DigitsOfByte
<1> DEFINE y == [x EXCEPT ![i] = 1 - @]
<1>2. x \in [0 .. 7 -> 0 .. 1] /\ y \in [0 .. 7 -> 0 .. 1]
  BY DEF Digits
<1>3. \A j \in 0 .. 7 : y[j] = IF j = i THEN 1 - x[i] ELSE x[j]
  BY <1>2
<1> HIDE DEF y
<1>4. i \in Bits(b) <=> x[i] = 1
  BY <1>1, BitsOfDigits
<1>5. Flipped(b, i) = IF x[i] = 1 THEN ByteOf(x) - 2^i ELSE ByteOf(x) + 2^i
  BY <1>1, <1>4 DEF Flipped
<1>6. \A j \in 0 .. 7 : x[j] \in 0 .. 1
  BY <1>2
<1>7. Flipped(b, i) = ByteOf(y)
  <2>0. CASE i = 0
    <3>1. Flipped(b, i) = IF x[0] = 1 THEN ByteOf(x) - 1 ELSE ByteOf(x) + 1
      BY <1>5, <2>0, Powers, Zenon
    <3> QED BY <1>3, <1>6, <2>0, <3>1 DEF ByteOf
  <2>1. CASE i = 1
    <3>1. Flipped(b, i) = IF x[1] = 1 THEN ByteOf(x) - 2 ELSE ByteOf(x) + 2
      BY <1>5, <2>1, Powers, Zenon
    <3> QED BY <1>3, <1>6, <2>1, <3>1 DEF ByteOf
  <2>2. CASE i = 2
    <3>1. Flipped(b, i) = IF x[2] = 1 THEN ByteOf(x) - 4 ELSE ByteOf(x) + 4
      BY <1>5, <2>2, Powers, Zenon
    <3> QED BY <1>3, <1>6, <2>2, <3>1 DEF ByteOf
  <2>3. CASE i = 3
    <3>1. Flipped(b, i) = IF x[3] = 1 THEN ByteOf(x) - 8 ELSE ByteOf(x) + 8
      BY <1>5, <2>3, Powers, Zenon
    <3> QED BY <1>3, <1>6, <2>3, <3>1 DEF ByteOf
  <2>4. CASE i = 4
    <3>1. Flipped(b, i) = IF x[4] = 1 THEN ByteOf(x) - 16 ELSE ByteOf(x) + 16
      BY <1>5, <2>4, Powers, Zenon
    <3> QED BY <1>3, <1>6, <2>4, <3>1 DEF ByteOf
  <2>5. CASE i = 5
    <3>1. Flipped(b, i) = IF x[5] = 1 THEN ByteOf(x) - 32 ELSE ByteOf(x) + 32
      BY <1>5, <2>5, Powers, Zenon
    <3> QED BY <1>3, <1>6, <2>5, <3>1 DEF ByteOf
  <2>6. CASE i = 6
    <3>1. Flipped(b, i) = IF x[6] = 1 THEN ByteOf(x) - 64 ELSE ByteOf(x) + 64
      BY <1>5, <2>6, Powers, Zenon
    <3> QED BY <1>3, <1>6, <2>6, <3>1 DEF ByteOf
  <2>7. CASE i = 7
    <3>1. Flipped(b, i) = IF x[7] = 1 THEN ByteOf(x) - 128 ELSE ByteOf(x) + 128
      BY <1>5, <2>7, Powers, Zenon
    <3> QED BY <1>3, <1>6, <2>7, <3>1 DEF ByteOf
  <2> QED BY <2>0, <2>1, <2>2, <2>3, <2>4, <2>5, <2>6, <2>7, BitNumbers
<1>8. y \in Digits
  BY <1>2 DEF Digits
<1>9. Bits(ByteOf(y)) = {j \in 0 .. 7 : y[j] = 1} /\ Bits(b) = {j \in 0 .. 7 : x[j] = 1}
      /\ ByteOf(y) \in Byte
  BY <1>1, <1>8, BitsOfDigits
<1>10. {j \in 0 .. 7 : y[j] = 1} = Xor({j \in 0 .. 7 : x[j] = 1}, {i})
  BY <1>3, <1>6 DEF Xor
<1> QED BY <1>7, <1>9, <1>10

\* The equation that defines the check byte of every beginning of data.
Checks(v, data) ==
  v = [n \in 0 .. Len(data) |->
         IF n = 0 THEN Bits(240) ELSE CHECK_BYTE_UPDATE(v[n - 1], data[n])]

ChecksTo(m, v, data) ==
  /\ v \in [0 .. m -> SUBSET (0 .. 7)]
  /\ v[0] = Bits(240)
  /\ \A n \in 1 .. m : v[n] = CHECK_BYTE_UPDATE(v[n - 1], data[n])

LEMMA UpdateType ==
  ASSUME NEW v \in SUBSET (0 .. 7), NEW d
  PROVE  CHECK_BYTE_UPDATE(v, d) \in SUBSET (0 .. 7)
<1>1. \A i \in v : (i + 1) % 8 \in 0 .. 7
  OBVIOUS
<1> QED BY <1>1 DEF CHECK_BYTE_UPDATE, Xor, Bits

\* No two functions solve the equation, and one does.
LEMMA ChecksUnique ==
  ASSUME NEW data, Len(data) \in Nat,
         NEW v, Checks(v, data), NEW w, Checks(w, data)
  PROVE  v = w
<1> DEFINE N == Len(data)
<1>1. N \in Nat
  OBVIOUS
<1>2. /\ v = [n \in 0 .. N |->
               IF n = 0 THEN Bits(240) ELSE CHECK_BYTE_UPDATE(v[n - 1], data[n])]
      /\ w = [n \in 0 .. N |->
               IF n = 0 THEN Bits(240) ELSE CHECK_BYTE_UPDATE(w[n - 1], data[n])]
  BY Zenon DEF Checks
<1> HIDE DEF N
<1>3. v[0] = w[0] /\ \A n \in 1 .. N : v[n - 1] = w[n - 1] => v[n] = w[n]
  BY <1>1, <1>2
<1>4. \A n \in 0 .. N : v[n] = w[n]
  BY <1>1, <1>3, SameSteps
<1> QED BY <1>2, <1>4

LEMMA ChecksExist ==
  ASSUME NEW data, NEW N \in Nat
  PROVE  \E v : ChecksTo(N, v, data)
<1> DEFINE S == SUBSET (0 .. 7)
           step == [n \in 1 .. N |-> [u \in S |-> CHECK_BYTE_UPDATE(u, data[n])]]
<1>1. \A n \in 1 .. N : \A u \in S : step[n][u] = CHECK_BYTE_UPDATE(u, data[n])
  OBVIOUS
<1>2. step \in [1 .. N -> [S -> S]]
  BY UpdateType
<1>3. Bits(240) \in S
  BY DEF Bits
<1> HIDE DEF S, step
<1>4. PICK v : Steps(v, Bits(240), step, N, S)
  BY <1>2, <1>3, StepsExist
<1>5. /\ v \in [0 .. N -> S] /\ v[0] = Bits(240)
      /\ \A n \in 1 .. N : v[n - 1] \in S /\ v[n] = step[n][v[n - 1]]
  BY <1>4 DEF Steps
<1>6. \A n \in 1 .. N : v[n] = CHECK_BYTE_UPDATE(v[n - 1], data[n])
  BY <1>1, <1>5, Zenon
<1> QED BY <1>5, <1>6 DEF ChecksTo, S

\* So it is the value of CheckByte.
LEMMA CheckByteIs ==
  ASSUME NEW data, Len(data) \in Nat, NEW v, ChecksTo(Len(data), v, data)
  PROVE  CheckByte(data) = v[Len(data)]
<1>1. Checks(v, data)
  <2>1. v = [n \in 0 .. Len(data) |-> v[n]]
    BY DEF ChecksTo
  <2>2. \A n \in 0 .. Len(data) :
          v[n] = IF n = 0 THEN Bits(240) ELSE CHECK_BYTE_UPDATE(v[n - 1], data[n])
    BY DEF ChecksTo
  <2> QED BY <2>1, <2>2, Zenon DEF Checks
<1> DEFINE w == CHOOSE w : Checks(w, data)
<1>2. Checks(w, data)
  BY <1>1, Zenon
<1>3. CheckByte(data) = w[Len(data)]
  BY Zenon DEF CheckByte, Checks
<1> HIDE DEF w
<1>4. w = v
  BY <1>1, <1>2, ChecksUnique
<1> QED BY <1>3, <1>4

\* A bit in which two check bytes differ goes round with the others.
LEMMA UpdateDiffers ==
  ASSUME NEW v \in SUBSET (0 .. 7), NEW d, NEW i \in 0 .. 7
  PROVE  CHECK_BYTE_UPDATE(Xor(v, {i}), d) = Xor(CHECK_BYTE_UPDATE(v, d), {(i + 1) % 8})
<1>1. \A j, k \in 0 .. 7 : (j + 1) % 8 = (k + 1) % 8 => j = k
  OBVIOUS
<1>2. {(j + 1) % 8 : j \in Xor(v, {i})} = Xor({(j + 1) % 8 : j \in v}, {(i + 1) % 8})
  BY <1>1 DEF Xor
<1>3. \A A, B, C : Xor(Xor(A, B), C) = Xor(Xor(A, C), B)
  BY DEF Xor
<1> DEFINE Turned(u) == {(j + 1) % 8 : j \in u}
<1>4. \A u : CHECK_BYTE_UPDATE(u, d) = Xor(Turned(u), Bits(d))
  BY DEF CHECK_BYTE_UPDATE
<1>5. Turned(Xor(v, {i})) = Xor(Turned(v), {(i + 1) % 8})
  BY <1>2
<1> HIDE DEF Turned
<1> DEFINE A == Turned(v)
           B == Bits(d)
           C == {(i + 1) % 8}
<1>6. CHECK_BYTE_UPDATE(Xor(v, {i}), d) = Xor(Xor(A, C), B)
  BY <1>4, <1>5, Zenon
<1>7. CHECK_BYTE_UPDATE(v, d) = Xor(A, B)
  BY <1>4, Zenon
<1>8. Xor(Xor(A, B), C) = Xor(Xor(A, C), B)
  BY <1>3, Zenon
<1> HIDE DEF A, B, C
<1> QED BY <1>6, <1>7, <1>8, Zenon DEF C

LEMMA UpdateFlipped ==
  ASSUME NEW v, NEW d \in Byte, NEW i \in 0 .. 7
  PROVE  CHECK_BYTE_UPDATE(v, Flipped(d, i)) = Xor(CHECK_BYTE_UPDATE(v, d), {i})
<1>1. Bits(Flipped(d, i)) = Xor(Bits(d), {i})
  BY FlippedBits
<1>2. \A A, B, C : Xor(A, Xor(B, C)) = Xor(Xor(A, B), C)
  BY DEF Xor
<1> QED BY <1>1, <1>2 DEF CHECK_BYTE_UPDATE

\* Turning over one bit of the data turns over one bit of its check byte.
LEMMA CheckByteFlipped ==
  ASSUME NEW data \in Seq(Byte), NEW k \in 1 .. Len(data), NEW i \in 0 .. 7
  PROVE  \E j \in 0 .. 7 :
           CheckByte([data EXCEPT ![k] = Flipped(@, i)]) = Xor(CheckByte(data), {j})
<1> DEFINE N == Len(data)
           other == [data EXCEPT ![k] = Flipped(@, i)]
           j(n) == (i + n - k) % 8
<1>0. N \in Nat /\ k \in 1 .. N /\ k \in Int /\ N - k \in Nat
  OBVIOUS
<1>1. PICK v : ChecksTo(N, v, data)
  BY <1>0, ChecksExist
<1>2. data[k] \in Byte
  OBVIOUS
<1>3. Len(other) = N /\ other[k] = Flipped(data[k], i)
      /\ \A n \in 1 .. N : n # k => other[n] = data[n]
  OBVIOUS
<1> DEFINE w == [n \in 0 .. N |-> IF n < k THEN v[n] ELSE Xor(v[n], {j(n)})]
<1>4. \A n \in 0 .. N : v[n] \in SUBSET (0 .. 7)
  BY <1>1 DEF ChecksTo
<1>5. \A n \in 0 .. N : j(n) \in 0 .. 7
  BY <1>0
<1>6. j(k) = i
  BY <1>0
<1>7. \A n \in 0 .. N : n > k => j(n) = (j(n - 1) + 1) % 8
  BY <1>0
<1> HIDE DEF N, other, j
<1>8. w \in [0 .. N -> SUBSET (0 .. 7)]
  BY <1>4, <1>5 DEF Xor
<1>9. w[0] = Bits(240)
  BY <1>0, <1>1 DEF ChecksTo
<1>10. ASSUME NEW n \in 1 .. N PROVE w[n] = CHECK_BYTE_UPDATE(w[n - 1], other[n])
  <2>1. v[n] = CHECK_BYTE_UPDATE(v[n - 1], data[n])
    BY <1>1 DEF ChecksTo
  <2>2. n - 1 \in 0 .. N /\ n \in 0 .. N /\ n \in Nat
    BY <1>0
  <2>3. CASE n < k
    <3>1. w[n] = v[n] /\ w[n - 1] = v[n - 1] /\ other[n] = data[n]
      BY <1>0, <1>3, <2>2, <2>3
    <3> QED BY <2>1, <3>1
  <2>4. CASE n = k
    <3>1. w[n] = Xor(v[n], {i}) /\ w[n - 1] = v[n - 1] /\ other[n] = Flipped(data[n], i)
      BY <1>0, <1>3, <1>6, <2>2, <2>4
    <3>2. data[n] \in Byte
      BY <1>2, <2>4
    <3>3. CHECK_BYTE_UPDATE(v[n - 1], Flipped(data[n], i))
            = Xor(CHECK_BYTE_UPDATE(v[n - 1], data[n]), {i})
      <4>1. PICK d \in Byte : d = data[n]
        BY <3>2
      <4>2. PICK u : u = v[n - 1]
        OBVIOUS
      <4>3. CHECK_BYTE_UPDATE(u, Flipped(d, i)) = Xor(CHECK_BYTE_UPDATE(u, d), {i})
        BY UpdateFlipped, Zenon
      <4> QED BY <4>1, <4>2, <4>3, Zenon
    <3> QED BY <2>1, <3>1, <3>3, Zenon
  <2>5. CASE n > k
    <3>1. w[n] = Xor(v[n], {j(n)}) /\ w[n - 1] = Xor(v[n - 1], {j(n - 1)})
          /\ other[n] = data[n]
      BY <1>0, <1>3, <2>2, <2>5
    <3>2. v[n - 1] \in SUBSET (0 .. 7) /\ j(n - 1) \in 0 .. 7 /\ j(n) = (j(n - 1) + 1) % 8
      BY <1>4, <1>5, <1>7, <2>2, <2>5
    <3>3. CHECK_BYTE_UPDATE(Xor(v[n - 1], {j(n - 1)}), data[n])
            = Xor(CHECK_BYTE_UPDATE(v[n - 1], data[n]), {j(n)})
      <4>1. PICK u \in SUBSET (0 .. 7) : u = v[n - 1]
        BY <3>2
      <4>2. PICK m \in 0 .. 7 : m = j(n - 1)
        BY <3>2
      <4>3. PICK d : d = data[n]
        OBVIOUS
      <4>4. CHECK_BYTE_UPDATE(Xor(u, {m}), d)
              = Xor(CHECK_BYTE_UPDATE(u, d), {(m + 1) % 8})
        BY UpdateDiffers, Zenon
      <4> QED BY <3>2, <4>1, <4>2, <4>3, <4>4, Zenon
    <3> QED BY <2>1, <3>1, <3>3, Zenon
  <2> QED BY <1>0, <2>2, <2>3, <2>4, <2>5
<1>11. w[N] = Xor(v[N], {j(N)}) /\ N \in 0 .. N
  BY <1>0
<1> HIDE DEF w
<1>12. ChecksTo(N, w, other)
  BY <1>8, <1>9, <1>10 DEF ChecksTo
<1>13. CheckByte(other) = w[N]
  BY <1>0, <1>3, <1>12, CheckByteIs
<1>14. CheckByte(data) = v[N]
  BY <1>0, <1>1, CheckByteIs DEF N
<1> QED BY <1>5, <1>11, <1>13, <1>14 DEF other

\* A packet with a valid check byte, and one bit of it turned over.
LEMMA FlippedIsInvalid ==
  ASSUME NEW data \in Seq(Byte), CheckByteValid(data),
         NEW k \in 1 .. Len(data), NEW i \in 0 .. 7
  PROVE  ~ CheckByteValid([data EXCEPT ![k] = Flipped(@, i)])
<1> DEFINE other == [data EXCEPT ![k] = Flipped(@, i)]
<1>0. PICK N \in Nat : N = Len(data)
  OBVIOUS
<1>1. Len(other) = N /\ N >= 1 /\ k \in 1 .. N /\ other[k] = Flipped(data[k], i)
      /\ \A n \in 1 .. N : data[n] \in Byte /\ (n # k => other[n] = data[n])
  BY <1>0
<1>2. /\ Last(data) = data[N] /\ Last(other) = other[N]
      /\ Front(data) = SubSeq(data, 1, N - 1) /\ Front(other) = SubSeq(other, 1, N - 1)
  BY <1>0, <1>1 DEF Last, Front
<1>3. CheckByte(Front(data)) = Bits(data[N])
  BY <1>2 DEF CheckByteValid
<1>d. Bits(Flipped(data[k], i)) = Xor(Bits(data[k]), {i})
  BY <1>1, FlippedBits
<1>x. \A A, j : Xor(A, {j}) # A
  BY DEF Xor
<1>4. other = [data EXCEPT ![k] = Flipped(data[k], i)] /\ data \in [1 .. N -> Byte]
  BY <1>0, <1>1
<1>f. SubSeq(data, 1, N - 1) \in Seq(Byte) /\ Len(SubSeq(data, 1, N - 1)) = N - 1
  BY <1>0, <1>1
<1>5. CASE k = N
  <2>1. SubSeq(other, 1, N - 1) = SubSeq(data, 1, N - 1)
    BY <1>0, <1>1, <1>5
  <2>2. Bits(other[N]) = Xor(Bits(data[N]), {i})
    BY <1>1, <1>5, <1>d
  <2> QED BY <1>2, <1>3, <1>x, <2>1, <2>2, Zenon DEF CheckByteValid
<1>6. CASE k # N
  <2> DEFINE front == SubSeq(data, 1, N - 1)
  <2>1. k \in 1 .. N - 1 /\ k \in 1 .. Len(front) /\ front[k] = data[k]
    BY <1>0, <1>1, <1>6
  <2>2. SubSeq(other, 1, N - 1) = [front EXCEPT ![k] = Flipped(@, i)]
    <3>1. front = [n \in 1 .. N - 1 |-> data[n]]
      BY <1>0, <1>1
    <3>2. SubSeq(other, 1, N - 1) = [n \in 1 .. N - 1 |-> other[n]]
      BY <1>0, <1>1
    <3>3. [front EXCEPT ![k] = Flipped(@, i)]
            = [n \in 1 .. N - 1 |-> IF n = k THEN Flipped(data[k], i) ELSE data[n]]
      <4> HIDE DEF front
      <4> QED BY <2>1, <3>1
    <3>4. \A n \in 1 .. N - 1 :
            other[n] = IF n = k THEN Flipped(data[k], i) ELSE data[n]
      BY <1>1
    <3> HIDE DEF front, other
    <3> QED BY <3>2, <3>3, <3>4
  <2>3. other[N] = data[N]
    BY <1>1, <1>6
  <2> HIDE DEF front
  <2>4. front \in Seq(Byte)
    BY <1>f DEF front
  <2>5. PICK j \in 0 .. 7 :
          CheckByte([front EXCEPT ![k] = Flipped(@, i)]) = Xor(CheckByte(front), {j})
    BY <2>1, <2>4, CheckByteFlipped
  <2>6. CheckByte(Front(other)) = Xor(Bits(Last(other)), {j})
    BY <1>2, <1>3, <2>2, <2>3, <2>5, Zenon DEF front
  <2> QED BY <1>x, <2>6, Zenon DEF CheckByteValid
<1> QED BY <1>5, <1>6

LEMMA DataOfHeld ==
  ASSUME PacketInv, NEW p \in held
  PROVE  Data(p) \in Seq(Byte) /\ Len(Data(p)) = packetLength(p)
<1>1. PICK n \in Nat : n = packetLength(p)
  BY HeldNumbers
<1>2. ASSUME NEW i \in 1 .. n PROVE mem[p + i - 1] \in Byte
  <2>1. p + i - 1 \in 0 .. BufferLength - 1
    BY <1>1, HeldNumbers, Limits
  <2> QED BY <2>1 DEF PacketInv, TypeOK
<1>3. Data(p) = [i \in 1 .. n |-> mem[p + i - 1]]
  BY <1>1 DEF Data
<1> QED BY <1>1, <1>2, <1>3

\* A single bit that is turned over on the way, in whichever byte of a packet
\* that has a valid check byte, is noticed by packetReadCheckByte: for packets
\* of every length and content, nested ones as well.
THEOREM SingleErrorsShow == Spec => []CheckByteShowsErrors
<1>1. PacketInv => CheckByteShowsErrors
  <2> SUFFICES ASSUME PacketInv, NEW p \in held, CheckByteValid(Data(p)),
                      NEW k \in 1 .. packetLength(p), NEW i \in 0 .. 7
               PROVE  ~ CheckByteValid([Data(p) EXCEPT ![k] = Flipped(@, i)])
    BY Zenon DEF CheckByteShowsErrors
  <2>1. Data(p) \in Seq(Byte) /\ Len(Data(p)) = packetLength(p)
    BY DataOfHeld
  <2> QED BY <2>1, FlippedIsInvalid, Zenon
<1> QED BY <1>1, PacketInvariant, PTL
-----------------------------------------------------------------------------
(***************************************************************************)
(* What reading a number computes, for texts of every length.              *)
(***************************************************************************)
LEMMA DigitValues ==
  /\ \A ch \in Byte : DigitValue(ch) \in 0 .. 36
  /\ \A ch \in {Space, Minus, Plus} : DigitValue(ch) = 36
<1>1. ASSUME NEW ch \in Byte PROVE DigitValue(ch) \in 0 .. 36
  <2>1. PICK lower \in Int : lower = IF 5 \in Bits(ch) THEN ch ELSE ch + 32
    BY DEF Byte
  <2>2. DigitValue(ch) = CASE ch \in 48 .. 57 -> ch - 48
                           [] ch \notin 48 .. 57 /\ lower \in 97 .. 122 -> lower - 87
                           [] OTHER -> 36
    BY <2>1 DEF DigitValue
  <2> QED BY <2>2 DEF Byte
<1>2. ASSUME NEW ch \in {Space, Minus, Plus} PROVE DigitValue(ch) = 36
  <2>1. ch \in {32, 45, 43}
    BY DEF Space, Minus, Plus
  <2>2. 2^5 = 32
    OBVIOUS
  <2>3. (ch \div 32) % 2 = 1
    BY <2>1
  <2>4. 5 \in Bits(ch)
    <3>1. 5 \in 0 .. 7
      OBVIOUS
    <3> QED BY <2>2, <2>3, <3>1, Zenon DEF Bits
  <2>5. DigitValue(ch) = CASE ch \in 48 .. 57 -> ch - 48
                           [] ch \notin 48 .. 57 /\ ch \in 97 .. 122 -> ch - 87
                           [] OTHER -> 36
    BY <2>4 DEF DigitValue
  <2> QED BY <2>1, <2>5
<1> QED BY <1>1, <1>2

(***************************************************************************)
(* The polynomial of the digits, a digit at a time.                        *)
(***************************************************************************)
Weights(w, code, n) == w = [k \in 0 .. n |-> IF k = 0 THEN 1 ELSE code * w[k - 1]]

WeightsTo(w, code, n) ==
  w \in [0 .. n -> Int] /\ w[0] = 1 /\ \A k \in 1 .. n : w[k] = code * w[k - 1]

LEMMA WeightsExist ==
  ASSUME NEW code \in Int, NEW n \in Nat
  PROVE  \E w : WeightsTo(w, code, n)
<1> DEFINE step == [k \in 1 .. n |-> [x \in Int |-> code * x]]
<1>1. step \in [1 .. n -> [Int -> Int]]
  OBVIOUS
<1>2. \A k \in 1 .. n : \A x \in Int : step[k][x] = code * x
  OBVIOUS
<1> HIDE DEF step
<1>3. PICK w : Steps(w, 1, step, n, Int)
  <2>1. 1 \in Int
    OBVIOUS
  <2> QED BY <1>1, <2>1, StepsExist
<1>4. w \in [0 .. n -> Int] /\ w[0] = 1 /\ \A k \in 1 .. n : w[k] = step[k][w[k - 1]]
  BY <1>3 DEF Steps
<1>6. \A k \in 1 .. n : w[k - 1] \in Int
  BY <1>4
<1>5. \A k \in 1 .. n : w[k] = code * w[k - 1]
  BY <1>2, <1>4, <1>6, Zenon
<1> QED BY <1>4, <1>5 DEF WeightsTo

LEMMA WeightsAre ==
  ASSUME NEW code \in Int, NEW n \in Nat, NEW w, WeightsTo(w, code, n),
         NEW v, Weights(v, code, n)
  PROVE  v = w
<1>1. v = [k \in 0 .. n |-> IF k = 0 THEN 1 ELSE code * v[k - 1]]
  BY Zenon DEF Weights
<1>2. v[0] = w[0] /\ \A k \in 1 .. n : v[k - 1] = w[k - 1] => v[k] = w[k]
  BY <1>1 DEF WeightsTo
<1>3. \A k \in 0 .. n : v[k] = w[k]
  BY <1>2, SameSteps
<1>4. w = [k \in 0 .. n |-> w[k]]
  BY DEF WeightsTo
<1>5. v = [k \in 0 .. n |-> v[k]]
  BY <1>1
<1> QED BY <1>3, <1>4, <1>5

Summed(u, w, digits, n) ==
  u = [k \in 0 .. n |->
         IF k = 0 THEN 0 ELSE u[k - 1] + DigitValue(digits[k]) * w[n - k]]

SummedTo(u, w, digits, n) ==
  /\ u \in [0 .. n -> Int] /\ u[0] = 0
  /\ \A k \in 1 .. n : u[k] = u[k - 1] + DigitValue(digits[k]) * w[n - k]

LEMMA SumExists ==
  ASSUME NEW digits \in Seq(Byte), NEW n \in Nat, n = Len(digits), NEW w \in [0 .. n -> Int]
  PROVE  \E u : SummedTo(u, w, digits, n)
<1> DEFINE step == [k \in 1 .. n |-> [x \in Int |-> x + DigitValue(digits[k]) * w[n - k]]]
<1>0. \A k \in 1 .. n : DigitValue(digits[k]) \in Int /\ w[n - k] \in Int
  <2>1. \A k \in 1 .. n : digits[k] \in Byte /\ n - k \in 0 .. n
    OBVIOUS
  <2>2. \A x \in 0 .. 36 : x \in Int
    OBVIOUS
  <2> QED BY <2>1, <2>2, DigitValues
<1>a. \A k \in 1 .. n : DigitValue(digits[k]) * w[n - k] \in Int
  BY <1>0
<1>1. step \in [1 .. n -> [Int -> Int]]
  BY <1>a
<1>2. \A k \in 1 .. n : \A x \in Int : step[k][x] = x + DigitValue(digits[k]) * w[n - k]
  OBVIOUS
<1> HIDE DEF step
<1>3. PICK u : Steps(u, 0, step, n, Int)
  <2>1. 0 \in Int
    OBVIOUS
  <2> QED BY <1>1, <2>1, StepsExist
<1>4. u \in [0 .. n -> Int] /\ u[0] = 0 /\ \A k \in 1 .. n : u[k] = step[k][u[k - 1]]
  BY <1>3 DEF Steps
<1>5. \A k \in 1 .. n : u[k - 1] \in Int
  BY <1>4
<1>6. \A k \in 1 .. n : u[k] = u[k - 1] + DigitValue(digits[k]) * w[n - k]
  BY <1>2, <1>4, <1>5, Zenon
<1> QED BY <1>4, <1>6 DEF SummedTo

LEMMA SumIs ==
  ASSUME NEW n \in Nat, NEW digits, NEW w, NEW u, SummedTo(u, w, digits, n),
         NEW v, Summed(v, w, digits, n)
  PROVE  v = u
<1>1. v = [k \in 0 .. n |->
             IF k = 0 THEN 0 ELSE v[k - 1] + DigitValue(digits[k]) * w[n - k]]
  BY Zenon DEF Summed
<1>2. v[0] = u[0] /\ \A k \in 1 .. n : v[k - 1] = u[k - 1] => v[k] = u[k]
  BY <1>1 DEF SummedTo
<1>3. \A k \in 0 .. n : v[k] = u[k]
  BY <1>2, SameSteps
<1>4. u = [k \in 0 .. n |-> u[k]]
  BY DEF SummedTo
<1>5. v = [k \in 0 .. n |-> v[k]]
  BY <1>1
<1> QED BY <1>3, <1>4, <1>5

LEMMA PolynomialIs ==
  ASSUME NEW digits \in Seq(Byte), NEW code \in Int, NEW n \in Nat, n = Len(digits),
         NEW w, WeightsTo(w, code, n), NEW u, SummedTo(u, w, digits, n)
  PROVE  Polynomial(digits, code) = u[n]
<1> DEFINE ww == CHOOSE x : Weights(x, code, Len(digits))
           uu == CHOOSE x : Summed(x, ww, digits, Len(digits))
<1>1. Polynomial(digits, code) = uu[Len(digits)]
  BY Zenon DEF Polynomial, Weights, Summed
<1>2. Weights(w, code, n)
  <2>1. w = [k \in 0 .. n |-> w[k]]
    BY DEF WeightsTo
  <2>2. \A k \in 0 .. n : w[k] = IF k = 0 THEN 1 ELSE code * w[k - 1]
    BY DEF WeightsTo
  <2> QED BY <2>1, <2>2, Zenon DEF Weights
<1>3. Weights(ww, code, n)
  BY <1>2, Zenon
<1>4. ww = w
  <2> HIDE DEF ww
  <2> QED BY <1>3, WeightsAre
<1>5. Summed(u, w, digits, n)
  <2>1. u = [k \in 0 .. n |-> u[k]]
    BY DEF SummedTo
  <2>2. \A k \in 0 .. n :
          u[k] = IF k = 0 THEN 0 ELSE u[k - 1] + DigitValue(digits[k]) * w[n - k]
    BY DEF SummedTo
  <2> QED BY <2>1, <2>2, Zenon DEF Summed
<1> HIDE DEF ww
<1>6. Summed(uu, w, digits, n)
  BY <1>4, <1>5, Zenon
<1>7. uu = u
  <2> HIDE DEF uu
  <2> QED BY <1>6, SumIs
<1> QED BY <1>1, <1>7

LEMMA PolynomialType ==
  ASSUME NEW digits \in Seq(Byte), NEW code \in Int
  PROVE  Polynomial(digits, code) \in Int
<1>1. PICK n \in Nat : n = Len(digits)
  OBVIOUS
<1>2. PICK w : WeightsTo(w, code, n)
  BY WeightsExist
<1>3. w \in [0 .. n -> Int]
  BY <1>2 DEF WeightsTo
<1>4. PICK u : SummedTo(u, w, digits, n)
  BY <1>1, <1>3, SumExists
<1>5. u \in [0 .. n -> Int] /\ n \in 0 .. n
  BY <1>4 DEF SummedTo
<1> QED BY <1>1, <1>2, <1>4, <1>5, PolynomialIs

LEMMA PolynomialEmpty ==
  ASSUME NEW code \in Int
  PROVE  Polynomial(<< >>, code) = 0
<1>1. << >> \in Seq(Byte) /\ 0 \in Nat /\ 0 = Len(<< >>)
  OBVIOUS
<1>2. PICK w : WeightsTo(w, code, 0)
  BY WeightsExist
<1>3. w \in [0 .. 0 -> Int]
  BY <1>2 DEF WeightsTo
<1>4. PICK u : SummedTo(u, w, << >>, 0)
  BY <1>1, <1>3, SumExists
<1>5. u[0] = 0
  BY <1>4 DEF SummedTo
<1>6. Polynomial(<< >>, code) = u[0]
  BY <1>1, <1>2, <1>4, PolynomialIs, Zenon
<1> QED BY <1>5, <1>6

\* A digit more.
LEMMA PolynomialNext ==
  ASSUME NEW digits \in Seq(Byte), NEW ch \in Byte, NEW code \in Int
  PROVE  Polynomial(Append(digits, ch), code) = Polynomial(digits, code) * code + DigitValue(ch)
<1> DEFINE more == Append(digits, ch)
<1>1. PICK n \in Nat : n = Len(digits)
  OBVIOUS
<1>2. more \in Seq(Byte) /\ Len(more) = n + 1 /\ more[n + 1] = ch
      /\ \A k \in 1 .. n : more[k] = digits[k] /\ digits[k] \in Byte
  BY <1>1
<1> HIDE DEF more
<1>0. n + 1 \in Nat
  OBVIOUS
<1>3. PICK w : WeightsTo(w, code, n + 1)
  BY <1>0, WeightsExist
<1> DEFINE v == [k \in 0 .. n |-> w[k]]
<1>4. \A k \in 0 .. n : v[k] = w[k]
  OBVIOUS
<1>w. w \in [0 .. n + 1 -> Int] /\ w[0] = 1 /\ \A k \in 1 .. n + 1 : w[k] = code * w[k - 1]
  BY <1>3 DEF WeightsTo
<1>5. v \in [0 .. n -> Int]
  BY <1>w
<1> HIDE DEF v
<1>6. WeightsTo(v, code, n)
  BY <1>4, <1>5, <1>w DEF WeightsTo
<1>7. PICK u : SummedTo(u, w, more, n + 1)
  BY <1>0, <1>2, <1>w, SumExists
<1>8. PICK t : SummedTo(t, v, digits, n)
  BY <1>1, <1>5, SumExists
<1>9. \A k \in 1 .. n : DigitValue(digits[k]) \in Int
  <2>1. \A x \in 0 .. 36 : x \in Int
    OBVIOUS
  <2> QED BY <1>2, <2>1, DigitValues
<1>u. u \in [0 .. n + 1 -> Int] /\ u[0] = 0
      /\ \A k \in 1 .. n + 1 : u[k] = u[k - 1] + DigitValue(more[k]) * w[n + 1 - k]
  BY <1>7 DEF SummedTo
<1>t. t \in [0 .. n -> Int] /\ t[0] = 0
      /\ \A k \in 1 .. n : t[k] = t[k - 1] + DigitValue(digits[k]) * v[n - k]
  BY <1>8 DEF SummedTo
<1>10. \A k \in 0 .. n : u[k] = t[k] * code
  <2> DEFINE T == {k \in 0 .. n : u[k] = t[k] * code}
  <2>1. 0 \in T
    BY <1>u, <1>t
  <2>2. ASSUME NEW k \in 1 .. n, k - 1 \in T PROVE k \in T
    <3>1. k \in 1 .. n + 1 /\ n - k \in 0 .. n /\ n + 1 - k \in 1 .. n + 1 /\ k - 1 \in 0 .. n
          /\ n + 1 - k - 1 = n - k
      OBVIOUS
    <3>2. PICK a \in Int, d \in Int, x \in Int :
            a = t[k - 1] /\ d = DigitValue(digits[k]) /\ x = v[n - k]
      BY <1>5, <1>9, <1>t, <3>1
    <3>3. u[k - 1] = a * code
      BY <2>2, <3>2
    <3>4. w[n + 1 - k] = code * x
      <4>1. \A i \in 1 .. n + 1 : w[i] = code * w[i - 1]
        BY <1>w
      <4>2. PICK j \in 1 .. n + 1 : j = n + 1 - k
        BY <3>1
      <4>3. j - 1 = n - k /\ w[n - k] = x
        BY <1>4, <3>1, <3>2, <4>2
      <4>4. w[j] = code * w[j - 1]
        BY <4>1
      <4> QED BY <4>2, <4>3, <4>4
    <3>5. u[k] = a * code + d * (code * x)
      BY <1>2, <1>u, <3>1, <3>2, <3>3, <3>4
    <3>6. t[k] = a + d * x
      BY <1>t, <3>2
    <3>7. a * code + d * (code * x) = (a + d * x) * code
      OBVIOUS
    <3> QED BY <3>5, <3>6, <3>7
  <2> HIDE DEF T
  <2>3. 0 .. n \subseteq T
    BY <2>1, <2>2, UpTo
  <2> QED BY <2>3 DEF T
<1>11. Polynomial(more, code) = u[n + 1]
  BY <1>0, <1>2, <1>3, <1>7, PolynomialIs
<1>12. Polynomial(digits, code) = t[n]
  BY <1>1, <1>6, <1>8, PolynomialIs
<1>13. u[n + 1] = u[n] + DigitValue(ch)
  <2>1. DigitValue(ch) \in Int
    <3>1. \A x \in 0 .. 36 : x \in Int
      OBVIOUS
    <3> QED BY <3>1, DigitValues
  <2>2. n + 1 \in 1 .. n + 1 /\ n + 1 - 1 = n /\ n + 1 - (n + 1) = 0
    OBVIOUS
  <2>3. u[n + 1] = u[n] + DigitValue(more[n + 1]) * w[0]
    <3>1. \A k \in 1 .. n + 1 : u[k] = u[k - 1] + DigitValue(more[k]) * w[n + 1 - k]
      BY <1>u
    <3>2. PICK j \in 1 .. n + 1 : j = n + 1
      BY <2>2
    <3>3. j - 1 = n /\ n + 1 - j = 0
      BY <3>2
    <3>4. u[j] = u[j - 1] + DigitValue(more[j]) * w[n + 1 - j]
      BY <3>1
    <3> QED BY <3>2, <3>3, <3>4
  <2>4. u[n + 1] = u[n] + DigitValue(ch) * 1
    BY <1>2, <1>w, <2>2, <2>3
  <2>5. u[n] \in Int
    BY <1>u
  <2> QED BY <2>1, <2>4, <2>5
<1>14. u[n] = t[n] * code
  BY <1>10
<1> QED BY <1>11, <1>12, <1>13, <1>14 DEF more

\* The value so far stays that of the digits modulo m.
LEMMA RemainderDigit ==
  ASSUME NEW m \in Nat \ {0}, NEW a \in Int, NEW c \in Int, NEW d \in Int
  PROVE  ((a % m) * c + d) % m = (a * c + d) % m
<1>1. PICK q \in Int : \E r \in 0 .. m - 1 : q = a \div m /\ r = a % m /\ a = m * q + r
  BY Division
<1>2. PICK r \in 0 .. m - 1 : r = a % m /\ a = m * q + r
  BY <1>1
<1>3. PICK b \in Int : b = r * c + d
  OBVIOUS
<1>4. PICK p \in Int : \E s \in 0 .. m - 1 : p = b \div m /\ s = b % m /\ b = m * p + s
  BY Division
<1>5. PICK s \in 0 .. m - 1 : s = b % m /\ b = m * p + s
  BY <1>4
<1>6. a * c + d = m * (q * c + p) + s
  <2>1. (m * q + r) * c = m * (q * c) + r * c
    OBVIOUS
  <2>2. m * (q * c + p) = m * (q * c) + m * p
    OBVIOUS
  <2>3. PICK x \in Int, y \in Int, z \in Int : x = m * (q * c) /\ y = m * p /\ z = r * c
    OBVIOUS
  <2>4. a * c = x + z
    BY <1>2, <2>1, <2>3
  <2>5. z + d = y + s
    BY <1>3, <1>5, <2>3
  <2>6. m * (q * c + p) = x + y
    BY <2>2, <2>3
  <2>7. PICK ac \in Int, e \in Int : ac = a * c /\ e = m * (q * c + p)
    OBVIOUS
  <2>8. ac + d = e + s
    BY <2>4, <2>5, <2>6, <2>7
  <2> QED BY <2>7, <2>8
<1>7. q * c + p \in Int
  OBVIOUS
<1>8. (m * (q * c + p) + s) % m = s
  BY <1>7, Remainder
<1> QED BY <1>2, <1>3, <1>5, <1>6, <1>8
-----------------------------------------------------------------------------
(***************************************************************************)
(* Where the reading of a text is.  After n bytes it has met spaces, a     *)
(* sign or none, and digits, and is in the middle of a number, behind one, *)
(* or has failed on a byte that belongs to none.                           *)
(***************************************************************************)
ReadState ==
  [phase : {"start", "sign", "digits", "done", "failed"}, negative : BOOLEAN,
   num : Nat, used : Nat]

Begins(text, sp, sg, d, code) ==
  /\ \A k \in 1 .. sp : text[k] = Space
  /\ sg = 1 => text[sp + 1] \in {Minus, Plus}
  /\ \A k \in 1 .. d : DigitValue(text[sp + sg + k]) < code

ValueOf(text, o, d, code) == Polynomial(SubSeq(text, o + 1, o + d), code) % UIntMod

PhaseSays(s, n, text, sp, sg, d, code) ==
  \/ s.phase = "start" /\ sp = n /\ sg = 0 /\ d = 0 /\ s.used = n
  \/ s.phase = "sign" /\ sp + 1 = n /\ sg = 1 /\ d = 0 /\ s.used = n
  \/ s.phase = "digits" /\ d >= 1 /\ sp + sg + d = n /\ s.used = n
  \/ /\ s.phase = "done" /\ d >= 1 /\ sp + sg + d < n /\ s.used = sp + sg + d
     /\ DigitValue(text[sp + sg + d + 1]) >= code
  \/ /\ s.phase = "failed" /\ d = 0 /\ sp + sg < n /\ s.used = sp + sg + 1
     /\ DigitValue(text[sp + sg + 1]) >= code
     /\ sg = 0 => text[sp + 1] \notin {Space, Minus, Plus}

ReadTo(s, n, text, sp, sg, d, code) ==
  /\ sp + sg + d <= n
  /\ Begins(text, sp, sg, d, code)
  /\ s.negative <=> sg = 1 /\ text[sp + 1] = Minus
  /\ s.num = ValueOf(text, sp + sg, d, code)
  /\ PhaseSays(s, n, text, sp, sg, d, code)

HasRead(s, n, text, code) ==
  /\ s \in ReadState
  /\ \E sp \in Nat, sg \in {0, 1}, d \in Nat : ReadTo(s, n, text, sp, sg, d, code)

LEMMA Chars == Space = 32 /\ Minus = 45 /\ Plus = 43
BY DEF Space, Minus, Plus

\* The cases of ReadChar, when it makes t of s.
CharRead(s, t, ch, code) ==
  /\ t \in ReadState
  /\ \/ s.phase \in {"done", "failed"} /\ t = s
     \/ /\ s.phase = "start" /\ ch = Space
        /\ t.phase = "start" /\ t.negative = s.negative /\ t.num = s.num
        /\ t.used = s.used + 1
     \/ /\ s.phase = "start" /\ ch \in {Minus, Plus}
        /\ t.phase = "sign" /\ t.negative = (ch = Minus) /\ t.num = s.num
        /\ t.used = s.used + 1
     \/ /\ s.phase \in {"start", "sign", "digits"} /\ DigitValue(ch) < code
        /\ t.phase = "digits" /\ t.negative = s.negative
        /\ t.num = (s.num * code + DigitValue(ch)) % UIntMod
        /\ t.used = s.used + 1
     \/ /\ s.phase = "digits" /\ DigitValue(ch) >= code
        /\ t.phase = "done" /\ t.negative = s.negative /\ t.num = s.num
        /\ t.used = s.used
     \/ /\ \/ s.phase = "sign"
           \/ s.phase = "start" /\ ch \notin {Space, Minus, Plus}
        /\ DigitValue(ch) >= code
        /\ t.phase = "failed" /\ t.negative = s.negative /\ t.num = s.num
        /\ t.used = s.used + 1

LEMMA ReadStateRecord ==
  ASSUME NEW s \in ReadState
  PROVE  /\ s.phase \in {"start", "sign", "digits", "done", "failed"}
         /\ s.negative \in BOOLEAN /\ s.num \in Nat /\ s.used \in Nat
BY DEF ReadState

LEMMA ReadCharIs ==
  ASSUME NEW s \in ReadState, NEW ch \in Byte, NEW code \in 2 .. 36
  PROVE  CharRead(s, ReadChar(s, ch, code), ch, code)
<1>1. ch \in {Space, Minus, Plus} => ~ DigitValue(ch) < code
  BY DigitValues
<1>2. DigitValue(ch) \in 0 .. 36
  BY DigitValues
<1>3. Space # Minus /\ Space # Plus
  BY Chars
<1>4. ~ (DigitValue(ch) < code /\ DigitValue(ch) >= code)
  BY <1>2
<1>5. DigitValue(ch) < code \/ DigitValue(ch) >= code
  BY <1>2
<1> DEFINE read == [s EXCEPT !.used = @ + 1]
           t == ReadChar(s, ch, code)
<1>a. /\ s.phase \in {"start", "sign", "digits", "done", "failed"}
      /\ s.negative \in BOOLEAN /\ s.num \in Nat /\ s.used \in Nat
  BY ReadStateRecord
<1>b. /\ read \in ReadState /\ read.phase = s.phase /\ read.negative = s.negative
      /\ read.num = s.num /\ read.used = s.used + 1
  BY DEF ReadState
<1>t. t = ReadChar(s, ch, code)
  OBVIOUS
<1> HIDE DEF t
<1>6. CASE s.phase \in {"done", "failed"}
  <2>1. t = s
    BY <1>6, <1>t DEF ReadChar
  <2> QED BY <1>6, <1>t, <2>1 DEF CharRead
<1>7. CASE s.phase = "start" /\ ch = Space
  <2>1. t = read
    BY <1>7, <1>1, <1>3, <1>4, <1>t DEF ReadChar
  <2> HIDE DEF read
  <2> QED BY <1>7, <1>b, <1>t, <2>1 DEF CharRead
<1>8. CASE s.phase = "start" /\ ch \in {Minus, Plus}
  <2>1. t = [read EXCEPT !.phase = "sign", !.negative = (ch = Minus)]
    BY <1>8, <1>1, <1>3, <1>4, <1>t DEF ReadChar
  <2> HIDE DEF read
  <2>2. /\ t \in ReadState /\ t.phase = "sign" /\ t.negative = (ch = Minus)
        /\ t.num = read.num /\ t.used = read.used
    BY <1>b, <2>1 DEF ReadState
  <2> QED BY <1>8, <1>b, <1>t, <2>2 DEF CharRead
<1>9. CASE s.phase \in {"start", "sign", "digits"} /\ DigitValue(ch) < code
  <2>1. t = [read EXCEPT !.phase = "digits", !.num = (@ * code + DigitValue(ch)) % UIntMod]
    BY <1>9, <1>1, <1>3, <1>4, <1>t DEF ReadChar
  <2>2. PICK x \in Nat : x = (s.num * code + DigitValue(ch)) % UIntMod
    <3>1. UIntMod \in Nat \ {0}
      BY PacketAssumption
    <3>2. PICK y \in Int : y = s.num * code + DigitValue(ch)
      BY <1>a, <1>2
    <3> QED BY <3>1, <3>2
  <2> HIDE DEF read
  <2>3. t = [read EXCEPT !.phase = "digits", !.num = x]
    BY <1>b, <2>1, <2>2
  <2>4. /\ t \in ReadState /\ t.phase = "digits" /\ t.negative = read.negative
        /\ t.num = x /\ t.used = read.used
    BY <1>b, <2>3 DEF ReadState
  <2> QED BY <1>9, <1>b, <1>t, <2>2, <2>4 DEF CharRead
<1>10. CASE s.phase = "digits" /\ DigitValue(ch) >= code
  <2>1. t = AfterDigits(s)
    BY <1>10, <1>1, <1>3, <1>4, <1>t DEF ReadChar
  <2>2. /\ t \in ReadState /\ t.phase = "done" /\ t.negative = s.negative
        /\ t.num = s.num /\ t.used = s.used
    BY <2>1 DEF ReadState, AfterDigits
  <2> QED BY <1>10, <1>t, <2>2 DEF CharRead
<1>11. CASE /\ \/ s.phase = "sign"
               \/ s.phase = "start" /\ ch \notin {Space, Minus, Plus}
            /\ DigitValue(ch) >= code
  <2>1. t = [read EXCEPT !.phase = "failed"]
    BY <1>11, <1>1, <1>3, <1>4, <1>t DEF ReadChar
  <2> HIDE DEF read
  <2>2. /\ t \in ReadState /\ t.phase = "failed" /\ t.negative = read.negative
        /\ t.num = read.num /\ t.used = read.used
    BY <1>b, <2>1 DEF ReadState
  <2> QED BY <1>11, <1>b, <1>t, <2>2 DEF CharRead
<1> QED BY <1>a, <1>5, <1>6, <1>7, <1>8, <1>9, <1>10, <1>11


\* The value when there is a digit more, or none yet.
LEMMA ValueNext ==
  ASSUME NEW text \in Seq(Byte), NEW o \in Nat, NEW d \in Nat, o + d + 1 <= Len(text),
         NEW code \in Int
  PROVE  ValueOf(text, o, d + 1, code) =
           (ValueOf(text, o, d, code) * code + DigitValue(text[o + d + 1])) % UIntMod
<1> DEFINE digits == SubSeq(text, o + 1, o + d)
<1>1. PICK ch \in Byte : ch = text[o + d + 1]
  OBVIOUS
<1>2. digits \in Seq(Byte)
  OBVIOUS
<1>3. SubSeq(text, o + 1, o + (d + 1)) = Append(digits, ch)
  BY <1>1
<1> HIDE DEF digits
<1>4. PICK p \in Int : p = Polynomial(digits, code)
  BY <1>2, PolynomialType
<1>5. Polynomial(Append(digits, ch), code) = p * code + DigitValue(ch)
  BY <1>2, <1>4, PolynomialNext
<1>6. DigitValue(ch) \in Int
  <2>1. \A x \in 0 .. 36 : x \in Int
    OBVIOUS
  <2> QED BY <2>1, DigitValues
<1>7. ((p % UIntMod) * code + DigitValue(ch)) % UIntMod
        = (p * code + DigitValue(ch)) % UIntMod
  <2>1. UIntMod \in Nat \ {0}
    BY PacketAssumption
  <2> QED BY <1>6, <2>1, RemainderDigit
<1>8. ValueOf(text, o, d + 1, code) = (p * code + DigitValue(ch)) % UIntMod
  BY <1>3, <1>5, Zenon DEF ValueOf
<1>9. ValueOf(text, o, d, code) = p % UIntMod
  BY <1>4, Zenon DEF ValueOf, digits
<1> QED BY <1>1, <1>7, <1>8, <1>9, Zenon

LEMMA ValueNone ==
  ASSUME NEW text \in Seq(Byte), NEW o \in Nat, NEW code \in Int
  PROVE  ValueOf(text, o, 0, code) = 0
<1>1. SubSeq(text, o + 1, o + 0) = << >>
  OBVIOUS
<1>2. UIntMod \in Nat \ {0}
  BY PacketAssumption
<1>3. 0 % UIntMod = 0
  BY <1>2
<1> QED BY <1>1, <1>3, PolynomialEmpty DEF ValueOf

LEMMA ReadNext ==
  ASSUME NEW text \in Seq(Byte), NEW code \in 2 .. 36, NEW n \in 1 .. Len(text), NEW s,
         HasRead(s, n - 1, text, code)
  PROVE  HasRead(ReadChar(s, text[n], code), n, text, code)
<1>0. PICK sp \in Nat, sg \in {0, 1}, d \in Nat : ReadTo(s, n - 1, text, sp, sg, d, code)
  BY DEF HasRead
<1>s. s \in ReadState
  BY DEF HasRead
<1> DEFINE t == ReadChar(s, text[n], code)
<1>f. /\ s.phase \in {"start", "sign", "digits", "done", "failed"}
      /\ s.negative \in BOOLEAN /\ s.num \in Nat /\ s.used \in Nat
  BY <1>s, ReadStateRecord
<1>1. PICK ch \in Byte : ch = text[n]
  OBVIOUS
<1>2. /\ sp + sg + d <= n - 1
      /\ Begins(text, sp, sg, d, code)
      /\ s.negative <=> sg = 1 /\ text[sp + 1] = Minus
      /\ s.num = ValueOf(text, sp + sg, d, code)
      /\ PhaseSays(s, n - 1, text, sp, sg, d, code)
  BY <1>0 DEF ReadTo
<1>3. DigitValue(ch) \in 0 .. 36
  BY DigitValues
<1>m. UIntMod \in Nat \ {0} /\ code \in Int /\ n \in Nat
  BY PacketAssumption
<1>c. CharRead(s, t, ch, code)
  BY <1>1, <1>s, ReadCharIs
<1> HIDE DEF t
<1>d. t \in ReadState /\ n \in Nat /\ n >= 1 /\ (n - 1) + 1 = n
  BY <1>c, <1>m DEF CharRead
<1> USE <1>d
<1>4. CASE s.phase \in {"done", "failed"} /\ t = s
  <2>2. PhaseSays(s, n, text, sp, sg, d, code)
    BY <1>2, <1>4 DEF PhaseSays
  <2>3. ReadTo(s, n, text, sp, sg, d, code)
    BY <1>2, <2>2 DEF ReadTo
  <2> QED BY <1>4, <2>3 DEF HasRead, t
<1>5. CASE /\ s.phase = "start" /\ ch = Space
           /\ t.phase = "start" /\ t.negative = s.negative /\ t.num = s.num
           /\ t.used = s.used + 1
  <2>4. sp = n - 1 /\ sg = 0 /\ d = 0 /\ s.used = n - 1
    BY <1>2, <1>5 DEF PhaseSays
  <2>5. Begins(text, n, 0, 0, code)
    <3>1. \A k \in 1 .. n : k = n \/ k \in 1 .. sp
      BY <2>4
    <3>2. \A k \in 1 .. sp : text[k] = Space
      BY <1>2 DEF Begins
    <3>3. \A k \in 1 .. n : text[k] = Space
      BY <1>1, <1>5, <3>1, <3>2
    <3> QED BY <3>3 DEF Begins
  <2>6. t.num = ValueOf(text, n + 0, 0, code)
    <3>1. n + 0 \in Nat /\ sp + sg \in Nat
      BY <2>4
    <3>2. ValueOf(text, n + 0, 0, code) = 0 /\ ValueOf(text, sp + sg, 0, code) = 0
      BY <1>m, <3>1, ValueNone
    <3> QED BY <1>2, <1>5, <2>4, <3>2
  <2>7. PhaseSays(t, n, text, n, 0, 0, code)
    BY <1>5, <2>4 DEF PhaseSays
  <2>8. ~ t.negative
    BY <1>2, <1>5, <2>4
  <2>9. ReadTo(t, n, text, n, 0, 0, code)
    BY <2>5, <2>6, <2>7, <2>8 DEF ReadTo
  <2> QED BY <2>9 DEF HasRead, t
<1>6. CASE /\ s.phase = "start" /\ ch \in {Minus, Plus}
           /\ t.phase = "sign" /\ t.negative = (ch = Minus) /\ t.num = s.num
           /\ t.used = s.used + 1
  <2>4. sp = n - 1 /\ sg = 0 /\ d = 0 /\ s.used = n - 1 /\ sp + 1 = n
    BY <1>2, <1>6 DEF PhaseSays
  <2>5. Begins(text, sp, 1, 0, code)
    BY <1>1, <1>2, <1>6, <2>4 DEF Begins
  <2>6. t.num = ValueOf(text, sp + 1, 0, code)
    <3>1. sp + 1 \in Nat /\ sp + sg \in Nat
      BY <2>4
    <3>2. ValueOf(text, sp + 1, 0, code) = 0 /\ ValueOf(text, sp + sg, 0, code) = 0
      BY <1>m, <3>1, ValueNone
    <3> QED BY <1>2, <1>6, <2>4, <3>2
  <2>7. PhaseSays(t, n, text, sp, 1, 0, code)
    BY <1>6, <2>4 DEF PhaseSays
  <2>8. t.negative <=> text[sp + 1] = Minus
    <3>1. text[sp + 1] = ch
      BY <1>1, <2>4
    <3> QED BY <1>6, <3>1
  <2>9. ReadTo(t, n, text, sp, 1, 0, code)
    BY <2>4, <2>5, <2>6, <2>7, <2>8 DEF ReadTo
  <2> QED BY <2>9 DEF HasRead, t
<1>7. CASE /\ s.phase \in {"start", "sign", "digits"} /\ DigitValue(ch) < code
           /\ t.phase = "digits" /\ t.negative = s.negative
           /\ t.num = (s.num * code + DigitValue(ch)) % UIntMod
           /\ t.used = s.used + 1
  <2>4. sp + sg + d = n - 1 /\ s.used = n - 1
    BY <1>2, <1>7 DEF PhaseSays
  <2>b. d + 1 \in Nat /\ sp + sg \in Nat /\ (sp + sg) + d + 1 = n /\ sp + sg + (d + 1) = n
    BY <2>4
  <2>5. Begins(text, sp, sg, d + 1, code)
    <3>1. \A k \in 1 .. d + 1 : k = d + 1 \/ k \in 1 .. d
      OBVIOUS
    <3>2. \A k \in 1 .. d : DigitValue(text[sp + sg + k]) < code
      BY <1>2 DEF Begins
    <3>3. DigitValue(text[sp + sg + (d + 1)]) < code
      BY <1>1, <1>7, <2>b
    <3>4. \A k \in 1 .. d + 1 : DigitValue(text[sp + sg + k]) < code
      BY <3>1, <3>2, <3>3, Zenon
    <3> QED BY <1>2, <3>4 DEF Begins
  <2>6. t.num = ValueOf(text, sp + sg, d + 1, code)
    <3>1. (sp + sg) + d + 1 <= Len(text)
      BY <2>b
    <3>2. PICK o \in Nat : o = sp + sg
      BY <2>b
    <3>3. o + d + 1 <= Len(text)
      BY <3>1, <3>2
    <3>4. ValueOf(text, o, d + 1, code) =
            (ValueOf(text, o, d, code) * code + DigitValue(text[o + d + 1])) % UIntMod
      BY <1>m, <3>3, ValueNext
    <3>5. text[o + d + 1] = ch
      BY <1>1, <2>b, <3>2
    <3>6. s.num = ValueOf(text, o, d, code)
      BY <1>2, <3>2
    <3> QED BY <1>7, <3>2, <3>4, <3>5, <3>6
  <2>7. PhaseSays(t, n, text, sp, sg, d + 1, code)
    BY <1>7, <2>b, <2>4 DEF PhaseSays
  <2>9. ReadTo(t, n, text, sp, sg, d + 1, code)
    BY <1>2, <1>7, <2>b, <2>5, <2>6, <2>7 DEF ReadTo
  <2> QED BY <2>b, <2>9 DEF HasRead, t
<1>8. CASE /\ s.phase = "digits" /\ DigitValue(ch) >= code
           /\ t.phase = "done" /\ t.negative = s.negative /\ t.num = s.num
           /\ t.used = s.used
  <2>4. sp + sg + d = n - 1 /\ s.used = n - 1 /\ d >= 1 /\ sp + sg + d + 1 = n
    BY <1>2, <1>8 DEF PhaseSays
  <2>7. PhaseSays(t, n, text, sp, sg, d, code)
    BY <1>1, <1>8, <2>4 DEF PhaseSays
  <2>9. ReadTo(t, n, text, sp, sg, d, code)
    BY <1>2, <1>8, <2>4, <2>7 DEF ReadTo
  <2> QED BY <2>9 DEF HasRead, t
<1>9. CASE /\ \/ s.phase = "sign"
              \/ s.phase = "start" /\ ch \notin {Space, Minus, Plus}
           /\ DigitValue(ch) >= code
           /\ t.phase = "failed" /\ t.negative = s.negative /\ t.num = s.num
           /\ t.used = s.used + 1
  <2>4. sp + sg = n - 1 /\ s.used = n - 1 /\ d = 0 /\ sp + sg + 1 = n
        /\ (sg = 0 => ch \notin {Space, Minus, Plus} /\ sp + 1 = n)
    BY <1>2, <1>9 DEF PhaseSays
  <2>7. PhaseSays(t, n, text, sp, sg, d, code)
    BY <1>1, <1>9, <2>4 DEF PhaseSays
  <2>9. ReadTo(t, n, text, sp, sg, d, code)
    BY <1>2, <1>9, <2>4, <2>7 DEF ReadTo
  <2> QED BY <2>9 DEF HasRead, t
<1> QED BY <1>c, <1>4, <1>5, <1>6, <1>7, <1>8, <1>9 DEF CharRead


\* The equation that defines what is read of every beginning of text.
Afters(a, text, code) ==
  a = [n \in 0 .. Len(text) |->
         IF n = 0 THEN Started ELSE ReadChar(a[n - 1], text[n], code)]

LEMMA ReadTextIs ==
  ASSUME NEW text \in Seq(Byte), NEW code \in 2 .. 36
  PROVE  \E s : /\ HasRead(s, Len(text), text, code)
                /\ ReadText(text, code) =
                     [ok |-> s.phase \in {"digits", "done"}, used |-> s.used,
                      value |-> IF s.negative THEN (UIntMod - s.num) % UIntMod ELSE s.num]
<1>0. PICK N \in Nat : N = Len(text)
  OBVIOUS
<1> DEFINE step == [n \in 1 .. N |-> [s \in ReadState |-> ReadChar(s, text[n], code)]]
<1>1. \A n \in 1 .. N : text[n] \in Byte
  BY <1>0
<1>2. ASSUME NEW s \in ReadState, NEW ch \in Byte PROVE ReadChar(s, ch, code) \in ReadState
  BY ReadCharIs DEF CharRead
<1>3. step \in [1 .. N -> [ReadState -> ReadState]]
  BY <1>1, <1>2
<1>4. \A n \in 1 .. N : \A s \in ReadState : step[n][s] = ReadChar(s, text[n], code)
  OBVIOUS
<1>5. Started \in ReadState
  BY DEF Started, ReadState
<1> HIDE DEF step
<1>6. PICK a : Steps(a, Started, step, N, ReadState)
  BY <1>3, <1>5, StepsExist
<1>7. a \in [0 .. N -> ReadState] /\ a[0] = Started
  BY <1>6 DEF Steps
<1>8. \A n \in 1 .. N : a[n - 1] \in ReadState /\ a[n] = step[n][a[n - 1]]
  BY <1>6, <1>7 DEF Steps
<1>9. \A n \in 1 .. N : a[n] = ReadChar(a[n - 1], text[n], code)
  BY <1>4, <1>8, Zenon
<1>10. HasRead(a[N], N, text, code)
  <2> DEFINE T == {n \in 0 .. N : HasRead(a[n], n, text, code)}
  <2>1. HasRead(a[0], 0, text, code)
    <3>1. /\ Started.phase = "start" /\ Started.negative = FALSE /\ Started.num = 0
          /\ Started.used = 0
      BY DEF Started
    <3>2. ValueOf(text, 0 + 0, 0, code) = 0
      <4>1. 0 + 0 \in Nat /\ code \in Int
        OBVIOUS
      <4> QED BY <4>1, ValueNone
    <3>3. PhaseSays(Started, 0, text, 0, 0, 0, code)
      BY <3>1 DEF PhaseSays
    <3>4. Begins(text, 0, 0, 0, code)
      BY DEF Begins
    <3>5. ReadTo(Started, 0, text, 0, 0, 0, code)
      BY <3>1, <3>2, <3>3, <3>4 DEF ReadTo
    <3> QED BY <1>5, <1>7, <3>5 DEF HasRead
  <2>2. ASSUME NEW n \in 1 .. N, n - 1 \in T PROVE n \in T
    <3>1. HasRead(a[n - 1], n - 1, text, code)
      BY <2>2
    <3>2. HasRead(ReadChar(a[n - 1], text[n], code), n, text, code)
      BY <1>0, <3>1, ReadNext
    <3>3. HasRead(a[n], n, text, code) /\ n \in 0 .. N
      BY <1>9, <3>2
    <3> QED BY <3>3
  <2>3. 0 \in T
    BY <2>1
  <2> HIDE DEF T
  <2>4. 0 .. N \subseteq T
    BY <2>2, <2>3, UpTo
  <2> QED BY <2>4 DEF T
<1>11. Afters(a, text, code)
  <2>1. a = [n \in 0 .. N |-> a[n]]
    BY <1>7
  <2>2. \A n \in 0 .. N :
          a[n] = IF n = 0 THEN Started ELSE ReadChar(a[n - 1], text[n], code)
    BY <1>7, <1>9
  <2> QED BY <1>0, <2>1, <2>2, Zenon DEF Afters
<1> DEFINE b == CHOOSE x : Afters(x, text, code)
<1>12. Afters(b, text, code)
  BY <1>11, Zenon
<1>13. ReadText(text, code) =
         [ok |-> b[Len(text)].phase \in {"digits", "done"}, used |-> b[Len(text)].used,
          value |-> IF b[Len(text)].negative THEN (UIntMod - b[Len(text)].num) % UIntMod
                    ELSE b[Len(text)].num]
  BY Zenon DEF ReadText, Afters
<1> HIDE DEF b
<1>14. b[N] = a[N]
  <2>1. b = [n \in 0 .. N |-> IF n = 0 THEN Started ELSE ReadChar(b[n - 1], text[n], code)]
    BY <1>0, <1>12, Zenon DEF Afters
  <2>2. b[0] = a[0] /\ \A n \in 1 .. N : b[n - 1] = a[n - 1] => b[n] = a[n]
    BY <1>7, <1>9, <2>1
  <2>3. \A n \in 0 .. N : b[n] = a[n]
    BY <2>2, SameSteps
  <2> QED BY <2>3
<1> QED BY <1>0, <1>10, <1>13, <1>14, Zenon

LEMMA DigitOrNot ==
  ASSUME NEW text \in Seq(Byte), NEW code \in 2 .. 36, NEW i \in 1 .. Len(text)
  PROVE  /\ ~ (DigitValue(text[i]) < code /\ DigitValue(text[i]) >= code)
         /\ DigitValue(text[i]) < code => text[i] \notin {Space, Minus, Plus}
<1>1. PICK ch \in Byte : ch = text[i]
  OBVIOUS
<1>2. DigitValue(ch) \in 0 .. 36
  BY DigitValues
<1>3. ch \in {Space, Minus, Plus} => DigitValue(ch) = 36
  BY DigitValues
<1>4. PICK x \in 0 .. 36 : x = DigitValue(ch)
  BY <1>2
<1>5. ~ (x < code /\ x >= code) /\ ~ 36 < code
  OBVIOUS
<1>6. ~ (DigitValue(ch) < code /\ DigitValue(ch) >= code)
  BY <1>4, <1>5
<1>7. DigitValue(ch) < code => ch \notin {Space, Minus, Plus}
  BY <1>3, <1>5, Zenon
<1> QED BY <1>1, <1>6, <1>7, Zenon

\* A text begins with one number at most.
AtMostOneNumeral(text, code) ==
  \A a \in Nat, b \in {0, 1}, c \in Nat :
    c >= 1 /\ Numeral(text, a, b, c, code) =>
      \A sp \in Nat, sg \in {0, 1}, d \in Nat :
        d >= 1 /\ Numeral(text, sp, sg, d, code) => a = sp /\ b = sg /\ c = d

LEMMA OneNumeral ==
  ASSUME NEW text \in Seq(Byte), NEW code \in 2 .. 36
  PROVE  AtMostOneNumeral(text, code)
<1> SUFFICES ASSUME NEW a \in Nat, NEW b \in {0, 1}, NEW c \in Nat, c >= 1,
                    NEW sp \in Nat, NEW sg \in {0, 1}, NEW d \in Nat, d >= 1,
                    Numeral(text, a, b, c, code), Numeral(text, sp, sg, d, code)
             PROVE  a = sp /\ b = sg /\ c = d
  BY DEF AtMostOneNumeral
<1>1. PICK N \in Nat : N = Len(text)
  OBVIOUS
<1>v. \A i \in 1 .. N : ~ (DigitValue(text[i]) < code /\ DigitValue(text[i]) >= code)
  BY <1>1, DigitOrNot
<1>2. \A i \in 1 .. N : DigitValue(text[i]) < code => text[i] \notin {Space, Minus, Plus}
  BY <1>1, DigitOrNot
<1>s. Space \notin {Minus, Plus}
  BY Chars
<1>3. /\ a + b + c <= N
      /\ \A k \in 1 .. a : text[k] = Space
      /\ b = 1 => text[a + 1] \in {Minus, Plus}
      /\ \A k \in 1 .. c : DigitValue(text[a + b + k]) < code
      /\ a + b + c = N \/ DigitValue(text[a + b + c + 1]) >= code
  BY <1>1 DEF Numeral
<1>4. /\ sp + sg + d <= N
      /\ \A k \in 1 .. sp : text[k] = Space
      /\ sg = 1 => text[sp + 1] \in {Minus, Plus}
      /\ \A k \in 1 .. d : DigitValue(text[sp + sg + k]) < code
      /\ sp + sg + d = N \/ DigitValue(text[sp + sg + d + 1]) >= code
  BY <1>1 DEF Numeral
<1>5. text[a + 1] # Space
  <2>1. CASE b = 1
    BY <1>s, <1>3, <2>1
  <2>2. CASE b = 0
    <3>1. DigitValue(text[a + b + 1]) < code /\ a + b + 1 = a + 1 /\ a + 1 \in 1 .. N
      BY <1>3, <2>2
    <3> QED BY <1>2, <3>1
  <2> QED BY <2>1, <2>2
<1>6. text[sp + 1] # Space
  <2>1. CASE sg = 1
    BY <1>s, <1>4, <2>1
  <2>2. CASE sg = 0
    <3>1. DigitValue(text[sp + sg + 1]) < code /\ sp + sg + 1 = sp + 1 /\ sp + 1 \in 1 .. N
      BY <1>4, <2>2
    <3> QED BY <1>2, <3>1
  <2> QED BY <2>1, <2>2
<1>7. a = sp
  BY <1>3, <1>4, <1>5, <1>6
<1>8. b = sg
  <2>1. ASSUME b = 0, sg = 1 PROVE FALSE
    <3>1. DigitValue(text[a + b + 1]) < code /\ a + b + 1 = a + 1 /\ a + 1 \in 1 .. N
      BY <1>3, <2>1
    <3> QED BY <1>2, <1>4, <1>7, <2>1, <3>1
  <2>2. ASSUME b = 1, sg = 0 PROVE FALSE
    <3>1. DigitValue(text[sp + sg + 1]) < code /\ sp + sg + 1 = sp + 1 /\ sp + 1 \in 1 .. N
      BY <1>4, <2>2
    <3> QED BY <1>2, <1>3, <1>7, <2>2, <3>1
  <2> QED BY <2>1, <2>2
<1>9. PICK o \in Nat : o = a + b
  OBVIOUS
<1>10. /\ o + c <= N /\ o + d <= N
       /\ \A k \in 1 .. c : DigitValue(text[o + k]) < code
       /\ \A k \in 1 .. d : DigitValue(text[o + k]) < code
       /\ o + c = N \/ DigitValue(text[o + c + 1]) >= code
       /\ o + d = N \/ DigitValue(text[o + d + 1]) >= code
  BY <1>3, <1>4, <1>7, <1>8, <1>9
<1>11. ASSUME c < d PROVE FALSE
  <2>1. c + 1 \in 1 .. d /\ o + (c + 1) \in 1 .. N /\ o + c # N
    BY <1>10, <1>11
  <2>2. PICK i \in 1 .. N : i = o + (c + 1) /\ i = o + c + 1
    BY <2>1
  <2>3. DigitValue(text[i]) < code
    BY <1>10, <2>1, <2>2
  <2>4. DigitValue(text[i]) >= code
    BY <1>10, <2>1, <2>2
  <2> QED BY <1>v, <2>3, <2>4
<1>12. ASSUME d < c PROVE FALSE
  <2>1. d + 1 \in 1 .. c /\ o + (d + 1) \in 1 .. N /\ o + d # N
    BY <1>10, <1>12
  <2>2. PICK i \in 1 .. N : i = o + (d + 1) /\ i = o + d + 1
    BY <2>1
  <2>3. DigitValue(text[i]) < code
    BY <1>10, <2>1, <2>2
  <2>4. DigitValue(text[i]) >= code
    BY <1>10, <2>1, <2>2
  <2> QED BY <1>v, <2>3, <2>4
<1> QED BY <1>7, <1>8, <1>11, <1>12

\* A text has no number where reading it has stopped, or where it has none yet.
LEMMA NoNumeral ==
  ASSUME NEW text \in Seq(Byte), NEW code \in 2 .. 36,
         NEW a \in Nat, NEW b \in {0, 1}, NEW c \in Nat, c >= 1,
         NEW sp \in Nat, NEW sg \in {0, 1}, sp + sg <= Len(text),
         Begins(text, sp, sg, 0, code), Numeral(text, a, b, c, code),
         sp + sg < Len(text) =>
           /\ DigitValue(text[sp + sg + 1]) >= code
           /\ sg = 0 => text[sp + 1] \notin {Space, Minus, Plus}
  PROVE  FALSE
<1>1. PICK N \in Nat : N = Len(text)
  OBVIOUS
<1>v. \A i \in 1 .. N : ~ (DigitValue(text[i]) < code /\ DigitValue(text[i]) >= code)
  BY <1>1, DigitOrNot
<1>2. \A i \in 1 .. N : DigitValue(text[i]) < code => text[i] \notin {Space, Minus, Plus}
  BY <1>1, DigitOrNot
<1>s. Space \notin {Minus, Plus}
  BY Chars
<1>3. /\ a + b + c <= N
      /\ \A k \in 1 .. a : text[k] = Space
      /\ b = 1 => text[a + 1] \in {Minus, Plus}
      /\ \A k \in 1 .. c : DigitValue(text[a + b + k]) < code
  BY <1>1 DEF Numeral
<1>4. /\ sp + sg <= N
      /\ \A k \in 1 .. sp : text[k] = Space
      /\ sg = 1 => text[sp + 1] \in {Minus, Plus}
      /\ sp + sg < N => /\ DigitValue(text[sp + sg + 1]) >= code
                        /\ sg = 0 => text[sp + 1] \notin {Space, Minus, Plus}
  BY <1>1 DEF Begins
<1>5. text[a + 1] # Space /\ (b = 0 => DigitValue(text[a + 1]) < code)
  <2>1. CASE b = 1
    BY <1>s, <1>3, <2>1
  <2>2. CASE b = 0
    <3>1. DigitValue(text[a + b + 1]) < code /\ a + b + 1 = a + 1 /\ a + 1 \in 1 .. N
      BY <1>3, <2>2
    <3> QED BY <1>2, <3>1
  <2> QED BY <2>1, <2>2
<1>6. ~ a < sp
  BY <1>4, <1>5
<1>7. ~ sp < a
  <2>1. ASSUME sp < a PROVE FALSE
    <3>1. text[sp + 1] = Space /\ sp + 1 <= N
      BY <1>3, <2>1
    <3>2. CASE sg = 1
      BY <1>s, <1>4, <3>1, <3>2
    <3>3. CASE sg = 0
      BY <1>4, <3>1, <3>3
    <3> QED BY <3>2, <3>3
  <2> QED BY <2>1
<1>8. a = sp
  BY <1>6, <1>7
<1>9. CASE sg = 1
  <2>1. b = 1
    <3>1. ASSUME b = 0 PROVE FALSE
      <4>1. a + 1 \in 1 .. N
        BY <1>3
      <4> QED BY <1>2, <1>4, <1>5, <1>8, <1>9, <3>1, <4>1
    <3> QED BY <3>1
  <2>2. PICK i \in 1 .. N : i = a + b + 1 /\ i = sp + sg + 1 /\ sp + sg < N
    BY <1>3, <1>8, <1>9, <2>1
  <2>3. DigitValue(text[i]) < code
    <3>1. 1 \in 1 .. c
      OBVIOUS
    <3> QED BY <1>3, <2>2, <3>1
  <2>4. DigitValue(text[i]) >= code
    BY <1>4, <2>2
  <2> QED BY <1>v, <2>3, <2>4
<1>10. CASE sg = 0
  <2>1. PICK i \in 1 .. N : i = sp + 1 /\ i = a + 1 /\ i = sp + sg + 1 /\ sp + sg < N
    BY <1>3, <1>8, <1>10
  <2>2. DigitValue(text[i]) >= code /\ text[i] \notin {Space, Minus, Plus}
    BY <1>4, <1>10, <2>1
  <2>3. b = 0
    BY <1>3, <2>1, <2>2
  <2>4. DigitValue(text[i]) < code
    BY <1>5, <2>1, <2>3
  <2> QED BY <1>v, <2>2, <2>4
<1> QED BY <1>9, <1>10


\* The bytes that reading stops at show what it has read: a number, which no other
\* number of the text can be longer or shorter than, or nothing that begins one.
LEMMA ReadTextReads ==
  ASSUME NEW text \in Seq(Byte), NEW code \in 2 .. 36
  PROVE  ReadsNumber(ReadText(text, code), text, code)
<1>1. PICK s : /\ HasRead(s, Len(text), text, code)
               /\ ReadText(text, code) =
                    [ok |-> s.phase \in {"digits", "done"}, used |-> s.used,
                     value |-> IF s.negative THEN (UIntMod - s.num) % UIntMod ELSE s.num]
  BY ReadTextIs
<1>0. PICK M \in Nat : M = Len(text)
  OBVIOUS
<1>2. PICK sp \in Nat, sg \in {0, 1}, d \in Nat : ReadTo(s, M, text, sp, sg, d, code)
  BY <1>0, <1>1 DEF HasRead
<1>3. /\ sp + sg + d <= M
      /\ Begins(text, sp, sg, d, code)
      /\ s.negative <=> sg = 1 /\ text[sp + 1] = Minus
      /\ s.num = ValueOf(text, sp + sg, d, code)
      /\ PhaseSays(s, M, text, sp, sg, d, code)
  BY <1>2 DEF ReadTo
<1> DEFINE N == 0 .. Len(text)
           numerals == {n \in N \X {0, 1} \X (N \ {0}) :
                          Numeral(text, n[1], n[2], n[3], code)}
           read == ReadText(text, code)
<1>r. /\ read.ok = (s.phase \in {"digits", "done"}) /\ read.used = s.used
      /\ read.value = IF s.negative THEN (UIntMod - s.num) % UIntMod ELSE s.num
  BY <1>1
<1>n. \A n \in numerals :
        /\ n[1] \in Nat /\ n[2] \in {0, 1} /\ n[3] \in Nat /\ n[3] >= 1
        /\ Numeral(text, n[1], n[2], n[3], code)
  <2>1. \A i \in N : i \in Nat /\ (i # 0 => i >= 1)
    OBVIOUS
  <2> HIDE DEF N
  <2> QED BY <2>1
<1> HIDE DEF read
<1>4. CASE s.phase \in {"digits", "done"}
  <2>1. d >= 1 /\ s.used = sp + sg + d /\ Numeral(text, sp, sg, d, code)
    <3>1. CASE s.phase = "digits"
      <4>1. d >= 1 /\ sp + sg + d = M /\ s.used = M
        BY <1>3, <3>1 DEF PhaseSays
      <4> QED BY <1>0, <1>3, <4>1 DEF Numeral, Begins
    <3>2. CASE s.phase = "done"
      <4>1. d >= 1 /\ s.used = sp + sg + d /\ DigitValue(text[sp + sg + d + 1]) >= code
        BY <1>3, <3>2 DEF PhaseSays
      <4> QED BY <1>0, <1>3, <4>1 DEF Numeral, Begins
    <3> QED BY <1>4, <3>1, <3>2
  <2>2. <<sp, sg, d>> \in numerals
    <3>1. sp \in N /\ d \in N \ {0}
      BY <1>0, <1>3, <2>1
    <3> HIDE DEF N
    <3> QED BY <2>1, <3>1
  <2>3. ASSUME NEW n \in numerals
        PROVE  LET digits == SubSeq(text, n[1] + n[2] + 1, n[1] + n[2] + n[3])
                   value == Polynomial(digits, code) % UIntMod
                   minus == n[2] = 1 /\ text[n[1] + 1] = Minus
               IN  /\ read.used = n[1] + n[2] + n[3]
                   /\ read.value = IF minus THEN (UIntMod - value) % UIntMod ELSE value
    <3>1. PICK a \in Nat, b \in {0, 1}, c \in Nat :
            a = n[1] /\ b = n[2] /\ c = n[3] /\ c >= 1 /\ Numeral(text, a, b, c, code)
      BY <1>n
    <3>2. a = sp /\ b = sg /\ c = d
      <4> HIDE DEF numerals, N
      <4>1. c >= 1 /\ d >= 1
        BY <2>1, <3>1
      <4>2. Numeral(text, a, b, c, code)
        BY <3>1
      <4>3. Numeral(text, sp, sg, d, code)
        BY <2>1
      <4>4. AtMostOneNumeral(text, code)
        BY OneNumeral
      <4> QED BY <4>1, <4>2, <4>3, <4>4 DEF AtMostOneNumeral
    <3>3. s.num = Polynomial(SubSeq(text, n[1] + n[2] + 1, n[1] + n[2] + n[3]), code) % UIntMod
      BY <1>3, <3>1, <3>2 DEF ValueOf
    <3>4. s.negative <=> n[2] = 1 /\ text[n[1] + 1] = Minus
      BY <1>3, <3>1, <3>2
    <3>5. read.used = n[1] + n[2] + n[3]
      BY <1>r, <2>1, <3>1, <3>2
    <3> HIDE DEF numerals
    <3>6. s.negative \in BOOLEAN
      BY <1>1, ReadStateRecord DEF HasRead
    <3> QED BY <1>r, <3>3, <3>4, <3>5, <3>6, Zenon
  <2>4. read.ok /\ numerals # {}
    BY <1>4, <1>r, <2>2
  <2> HIDE DEF numerals
  <2> QED BY <2>3, <2>4, Zenon DEF ReadsNumber, numerals, N, read
<1>5. CASE s.phase \notin {"digits", "done"}
  <2>1. /\ d = 0 /\ sp + sg <= M
        /\ sp + sg < M => /\ DigitValue(text[sp + sg + 1]) >= code
                          /\ sg = 0 => text[sp + 1] \notin {Space, Minus, Plus}
        /\ s.used <= M /\ s.used <= sp + sg + 1 /\ s.used \in Nat
    <3>1. s.phase \in {"start", "sign", "failed"} /\ s.used \in Nat
      BY <1>1, <1>5, ReadStateRecord DEF HasRead
    <3> QED BY <1>3, <1>5, <3>1 DEF PhaseSays
  <2>2. numerals = {}
    <3> SUFFICES ASSUME NEW n \in numerals PROVE FALSE
      OBVIOUS
    <3>1. PICK a \in Nat, b \in {0, 1}, c \in Nat :
            c >= 1 /\ Numeral(text, a, b, c, code)
      BY <1>n
    <3>2. Begins(text, sp, sg, 0, code)
      BY <1>3, <2>1
    <3>3. sp + sg <= Len(text)
      BY <1>0, <2>1
    <3>4. sp + sg < Len(text) =>
            /\ DigitValue(text[sp + sg + 1]) >= code
            /\ sg = 0 => text[sp + 1] \notin {Space, Minus, Plus}
      BY <1>0, <2>1
    <3> HIDE DEF numerals, N
    <3> QED BY <3>1, <3>2, <3>3, <3>4, NoNumeral, Zenon
  <2>3. \A k \in 1 .. read.used - 1 : text[k] \in {Space, Minus, Plus}
    <3> SUFFICES ASSUME NEW k \in 1 .. s.used - 1 PROVE text[k] \in {Space, Minus, Plus}
      BY <1>r
    <3>1. k \in 1 .. sp \/ (sg = 1 /\ k = sp + 1)
      BY <2>1
    <3> QED BY <1>3, <3>1 DEF Begins
  <2>4. \A k \in 1 .. read.used - 2 : text[k] = Space
    <3> SUFFICES ASSUME NEW k \in 1 .. s.used - 2 PROVE text[k] = Space
      BY <1>r
    <3>1. k \in 1 .. sp
      BY <2>1
    <3> QED BY <1>3, <3>1 DEF Begins
  <2>5. ~ read.ok /\ read.used <= Len(text)
    BY <1>0, <1>5, <1>r, <2>1
  <2> HIDE DEF numerals
  <2> QED BY <2>2, <2>3, <2>4, <2>5, Zenon DEF ReadsNumber, numerals, N, read
<1> QED BY <1>4, <1>5

\* A limit that does not overflow leaves the bytes up to it.
LEMMA OfferedIs ==
  ASSUME NEW data \in Seq(Byte), NEW c \in Nat, c <= Len(data), NEW e \in Nat,
         c + e <= Len(data)
  PROVE  SubSeq(SubSeq(data, c + 1, Len(data)), 1, e) = SubSeq(data, c + 1, c + e)
<1>1. PICK L \in Nat : L = Len(data)
  OBVIOUS
<1> DEFINE u == SubSeq(data, c + 1, L)
<1>2. u \in Seq(Byte) /\ Len(u) = L - c /\ \A i \in 1 .. L - c : u[i] = data[c + i]
  BY <1>1
<1> HIDE DEF u
<1>3. SubSeq(u, 1, e) = [i \in 1 .. e |-> u[i]]
  BY <1>1, <1>2
<1>4. SubSeq(data, c + 1, c + e) = [i \in 1 .. e |-> data[c + i]]
  BY <1>1
<1>5. \A i \in 1 .. e : u[i] = data[c + i]
  BY <1>1, <1>2
<1>6. SubSeq(u, 1, e) = SubSeq(data, c + 1, c + e)
  BY <1>3, <1>4, <1>5
<1> QED BY <1>1, <1>6 DEF u


\* A limit that added to the cursor does not overflow is a number of bytes.
LEMMA Delivered ==
  ASSUME NEW data \in Seq(Byte), NEW c \in Nat, c <= Len(data), NEW maxLen \in Nat,
         c + maxLen < UIntMod
  PROVE  /\ SubSeq(data, c + 1,
                   IF (c + maxLen) % UIntMod < Len(data) THEN (c + maxLen) % UIntMod
                   ELSE Len(data)) \in Seq(Byte)
         /\ SubSeq(data, c + 1,
                   IF (c + maxLen) % UIntMod < Len(data) THEN (c + maxLen) % UIntMod
                   ELSE Len(data))
              = SubSeq(SubSeq(data, c + 1, Len(data)), 1,
                       IF maxLen < Len(data) - c THEN maxLen ELSE Len(data) - c)
<1>1. PICK l \in Nat : l = Len(data)
  OBVIOUS
<1>2. PICK e \in Nat : e = (IF maxLen < l - c THEN maxLen ELSE l - c) /\ c + e <= l
  <2>1. (IF maxLen < l - c THEN maxLen ELSE l - c) \in Nat
    BY <1>1
  <2>2. c + (IF maxLen < l - c THEN maxLen ELSE l - c) <= l
    BY <1>1
  <2> QED BY <2>1, <2>2
<1>3. (IF (c + maxLen) % UIntMod < l THEN (c + maxLen) % UIntMod ELSE l) = c + e
  <2>1. (c + maxLen) % UIntMod = c + maxLen
    BY PacketAssumption
  <2>2. (IF c + maxLen < l THEN c + maxLen ELSE l) = c + e
    BY <1>1, <1>2
  <2> QED BY <2>1, <2>2
<1>4. SubSeq(SubSeq(data, c + 1, Len(data)), 1, e) = SubSeq(data, c + 1, c + e)
  BY <1>1, <1>2, OfferedIs
<1>5. SubSeq(data, c + 1, c + e) \in Seq(Byte)
  BY <1>1, <1>2
<1> QED BY <1>1, <1>2, <1>3, <1>4, <1>5, Zenon

\* What packetRead delivers is what the documentation says it reads from.
LEMMA OfferedText ==
  ASSUME PacketInv, NEW p \in held, NEW maxLen \in Nat,
         packetCursor(p) + maxLen < UIntMod
  PROVE  /\ Offered(p, maxLen) \in Seq(Byte)
         /\ Offered(p, maxLen) =
              SubSeq(Unread(p), 1, IF maxLen < packetReadLength(p) THEN maxLen
                                   ELSE packetReadLength(p))
<1>1. Data(p) \in Seq(Byte) /\ Len(Data(p)) = packetLength(p)
  BY DataOfHeld, Zenon
<1>2. PICK data \in Seq(Byte) : data = Data(p) /\ Len(data) = packetLength(p)
  BY <1>1, Zenon
<1>3. PICK c \in 0 .. 255 : c = packetCursor(p)
  BY HeldNumbers, Zenon
<1>4. c <= Len(data) /\ c + maxLen < UIntMod
  BY <1>2, <1>3, HeldNumbers, Zenon
<1>5. \A k \in 0 .. 255 : k \in Nat
  OBVIOUS
<1>6. c \in Nat
  BY <1>5, Zenon
<1>7. /\ SubSeq(data, c + 1,
               IF (c + maxLen) % UIntMod < Len(data) THEN (c + maxLen) % UIntMod
               ELSE Len(data)) \in Seq(Byte)
      /\ SubSeq(data, c + 1,
               IF (c + maxLen) % UIntMod < Len(data) THEN (c + maxLen) % UIntMod
               ELSE Len(data))
           = SubSeq(SubSeq(data, c + 1, Len(data)), 1,
                    IF maxLen < Len(data) - c THEN maxLen ELSE Len(data) - c)
  BY <1>4, <1>6, Delivered, Zenon
<1> QED BY <1>2, <1>3, <1>7, Zenon DEF Offered, Unread, packetReadLength

\* Reading a text number succeeds exactly on the longest number in the bytes
\* that it may read, whatever they are, computes its value, and stops after it;
\* if there is none, it passes spaces, a sign and at most one character more.
THEOREM NumbersRead == Spec => []NumbersReadRight
<1>1. PacketInv => NumbersReadRight
  <2> SUFFICES ASSUME PacketInv, NEW p \in held, NEW code \in Codes,
                      NEW maxLen \in MaxLens,
                      code >= 2, packetCursor(p) + maxLen < UIntMod
               PROVE  ReadsNumber(NumberRead(Offered(p, maxLen), code),
                                   SubSeq(Unread(p), 1,
                                          IF maxLen < packetReadLength(p) THEN maxLen
                                          ELSE packetReadLength(p)), code)
    BY Zenon DEF NumbersReadRight
  <2>1. code \in 2 .. 36 /\ code \notin BELONG .. BYTE
    BY PacketAssumption DEF BELONG, BYTE
  <2>2. maxLen \in Nat
    BY Bounds
  <2>3. PICK text \in Seq(Byte) :
          /\ text = Offered(p, maxLen)
          /\ text = SubSeq(Unread(p), 1, IF maxLen < packetReadLength(p) THEN maxLen
                                         ELSE packetReadLength(p))
    BY <2>2, OfferedText, Zenon
  <2>4. NumberRead(text, code) = ReadText(text, code)
    BY <2>1, Zenon DEF NumberRead
  <2>5. ReadsNumber(ReadText(text, code), text, code)
    BY <2>1, ReadTextReads, Zenon
  <2> QED BY <2>3, <2>4, <2>5, Zenon
<1> QED BY <1>1, PacketInvariant, PTL
=============================================================================
