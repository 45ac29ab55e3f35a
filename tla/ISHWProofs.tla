----------------------------- MODULE ISHWProofs -----------------------------
(***************************************************************************)
(* Proofs about ISHW and DeviceRegistry, for every number of buffers, of   *)
(* frames, of slots and of drivers.                                        *)
(***************************************************************************)
EXTENDS ISHW, ModArith

(***************************************************************************)
(* The registry.                                                           *)
(***************************************************************************)
\* What the registry keeps; only OwnersAlone is a property.
RegistryInv ==
  /\ owner \subseteq Drivers /\ m_sDeviceRegistry \subseteq Slots
  /\ m_slot \in [Drivers -> Slots \cup {NO_DEVICE}]
  /\ OwnersAlone

LEMMA SlotNumbers ==
  /\ \A i \in Slots : i < MAX_SLOTS
  /\ NO_DEVICE \notin Slots /\ ~ NO_DEVICE < MAX_SLOTS
BY RegistryAssumption DEF Slots, NO_DEVICE

\* A scan finds a slot that is not registered, or none.
LEMMA ScanResult ==
  ASSUME NEW a
  PROVE  scanDevice(a) \in (Slots \ m_sDeviceRegistry) \cup {NO_DEVICE}
<1> DEFINE matches == {i \in Slots : Matches(i, a)}
           last == {i \in matches :
                      Cardinality({j \in matches : j <= i}) = a.instance}
<1>1. last \subseteq Slots \ m_sDeviceRegistry
  BY DEF Matches
<1>2. scanDevice(a) = IF last = {} THEN NO_DEVICE ELSE CHOOSE i \in last : TRUE
  BY DEF scanDevice
<1> HIDE DEF last
<1>3. last # {} => (CHOOSE i \in last : TRUE) \in last
  BY Zenon
<1> QED BY <1>1, <1>2, <1>3, Zenon

LEMMA DeviceBeginRegistry ==
  ASSUME RegistryInv, NEW d \in Drivers, deviceBegin(d)
  PROVE  RegistryInv'
<1>1. /\ owner' = owner \ {d} /\ m_sDeviceRegistry' = m_sDeviceRegistry
      /\ m_slot' = [m_slot EXCEPT ![d] = scanDevice(Asked[d])]
  BY DEF deviceBegin
<1>2. m_slot' \in [Drivers -> Slots \cup {NO_DEVICE}]
  BY <1>1, ScanResult DEF RegistryInv
<1>3. \A e \in owner' : e \in owner /\ m_slot'[e] = m_slot[e]
  BY <1>1 DEF RegistryInv
<1> QED BY <1>1, <1>2, <1>3 DEF RegistryInv, OwnersAlone

LEMMA RegisterDeviceRegistry ==
  ASSUME RegistryInv, NEW d \in Drivers, registerDevice(d)
  PROVE  RegistryInv'
<1>1. /\ m_slot[d] < MAX_SLOTS /\ m_slot[d] \notin m_sDeviceRegistry
      /\ m_sDeviceRegistry' = m_sDeviceRegistry \cup {m_slot[d]}
      /\ owner' = owner \cup {d} /\ m_slot' = m_slot
  BY DEF registerDevice
<1>2. \A e \in owner : m_slot[e] # m_slot[d]
  BY <1>1 DEF RegistryInv, OwnersAlone
<1>3. \A e, f \in owner' : m_slot'[e] = m_slot'[f] => e = f
  BY <1>1, <1>2 DEF RegistryInv, OwnersAlone
<1>4. \A e \in owner' : m_slot'[e] \in m_sDeviceRegistry'
  BY <1>1 DEF RegistryInv, OwnersAlone
<1>5. m_slot[d] \in Slots
  <2>1. m_slot[d] \in Slots \cup {NO_DEVICE}
    BY Zenon DEF RegistryInv
  <2>2. m_slot[d] # NO_DEVICE
    BY <1>1, SlotNumbers, Zenon
  <2> QED BY <2>1, <2>2, Zenon
<1> QED BY <1>1, <1>3, <1>4, <1>5 DEF RegistryInv, OwnersAlone

\* What changes a slot is a scan.
LEMMA ScannedUnregistered ==
  ASSUME RegistryInv, [Next]_vars, NEW d \in Drivers, m_slot'[d] # m_slot[d]
  PROVE  m_slot'[d] \notin m_sDeviceRegistry
<1>1. ASSUME NEW e \in Drivers, deviceBegin(e)
      PROVE  m_slot'[d] \notin m_sDeviceRegistry
  <2>1. m_slot' = [m_slot EXCEPT ![e] = scanDevice(Asked[e])]
    BY <1>1 DEF deviceBegin
  <2>2. m_slot'[d] = scanDevice(Asked[e])
    BY <2>1 DEF RegistryInv
  <2>3. NO_DEVICE \notin m_sDeviceRegistry
    BY SlotNumbers, Zenon DEF RegistryInv
  <2> QED BY <2>2, <2>3, ScanResult
<1>2. m_slot' # m_slot
  OBVIOUS
<1>3. ~ UNCHANGED m_slot => \E e \in Drivers : deviceBegin(e)
  <2>1. \A e \in Drivers : OtherDriver(e) => deviceBegin(e) \/ UNCHANGED m_slot
    BY Zenon DEF OtherDriver, registerDevice
  <2>2. begin => deviceBegin(Driver) /\ Driver \in Drivers
    BY ISHWAssumption DEF begin
  <2>3. FrameReceived \/ Handler \/ Loop => UNCHANGED m_slot
    BY DEF FrameReceived, Handler, ReadRXBuffer, ackInterrupt, Loop, Check, NextBuffer,
           Overrun, Transmit, registryVars
  <2>4. UNCHANGED vars => UNCHANGED m_slot
    BY DEF vars, registryVars
  <2> QED BY <2>1, <2>2, <2>3, <2>4, Zenon DEF Next
<1> QED BY <1>1, <1>2, <1>3

LEMMA RegistryUnchanged ==
  ASSUME RegistryInv, UNCHANGED registryVars
  PROVE  RegistryInv'
BY DEF RegistryInv, OwnersAlone, registryVars

-----------------------------------------------------------------------------
(***************************************************************************)
(* The ring.                                                               *)
(***************************************************************************)
RingTypes ==
  /\ frames \in Nat /\ noticed \in Nat /\ noticed <= frames
  /\ taken \in Nat /\ start \in Nat /\ lead \in {0, 1}
  /\ ~ Running => frames = 0 /\ taken = 0 /\ ~ irq /\ handler = "idle"
  /\ irq => frames # 0

\* The indices are those of the last buffer to take and of the last one taken.
RingInv ==
  /\ Running =>
       /\ rxhwbuf = (Total - 1) % Buffers
       /\ rxcbuf = (taken - 1) % Buffers
       /\ taken <= Total
       /\ ~ lapped => Total - taken < Buffers
  /\ pc = "next" => taken < Total
  /\ pc \in {"next", "overrun", "transmit"} => start <= Total

NoticedInv == ~ missed /\ (handler = "ack" \/ ~ irq) => noticed = frames

ISHWInv == RegistryInv /\ RingTypes /\ RingInv /\ NoticedInv /\ BehindReported

LEMMA BuffersPositive == Buffers \in Nat \ {0} /\ Buffers # 1
BY ISHWAssumption

LEMMA TotalPositive == ASSUME RingTypes PROVE Total \in Nat \ {0}
BY DEF RingTypes, Total

\* How far the indices are apart is what there is to take, up to whole rings.
LEMMA DistanceTotal ==
  ASSUME RingTypes, RingInv, Running
  PROVE  /\ Distance = (Total - taken) % Buffers
         /\ Distance \in Nat /\ Distance <= Total - taken
         /\ (Total - taken - Distance) % Buffers = 0
         /\ ~ lapped => Distance = Total - taken
         /\ rxhwbuf # rxcbuf => taken < Total
         /\ rxhwbuf = rxcbuf => Distance = 0
<1>1. PICK b \in Nat \ {0}, n \in Nat, k \in Nat, x \in Nat :
        b = Buffers /\ n = Total /\ k = taken /\ k <= n /\ x = n - k
  BY BuffersPositive, TotalPositive DEF RingTypes, RingInv
<1>2. rxhwbuf = (n - 1) % b /\ rxcbuf = (k - 1) % b
  BY <1>1 DEF RingInv
<1>3. Distance = x % b
  <2>1. n - 1 \in Int /\ k - 1 \in Int /\ (n - 1) - (k - 1) = x
    BY <1>1
  <2>2. (((n - 1) % b) - ((k - 1) % b)) % b = ((n - 1) - (k - 1)) % b
    BY <2>1, RemainderDifference
  <2> QED BY <1>1, <1>2, <2>1, <2>2 DEF Distance
<1>4. PICK q \in Int : \E r \in 0 .. b - 1 : q = x \div b /\ r = x % b /\ x = b * q + r
  BY Division
<1>5. PICK r \in 0 .. b - 1 : r = x % b /\ x = b * q + r
  BY <1>4
<1>6. r \in Nat /\ r <= x
  <2>1. ~ q <= -1
    <3> SUFFICES ASSUME q <= -1 PROVE FALSE
      OBVIOUS
    <3>1. b * q <= - b
      OBVIOUS
    <3> QED BY <1>5, <3>1
  <2>2. 0 <= b * q
    BY <2>1
  <2> QED BY <1>5, <2>2
<1>7. (x - r) % b = 0
  <2>1. 0 \in 0 .. b - 1 /\ x - r = b * q + 0
    BY <1>5
  <2> QED BY <2>1, Remainder
<1>8. ~ lapped => r = x
  <2>1. ~ lapped => x < b
    BY <1>1 DEF RingInv
  <2>2. x < b => x % b = x
    OBVIOUS
  <2> QED BY <1>5, <2>1, <2>2
<1>9. rxhwbuf # rxcbuf => k < n
  <2>1. k = n => rxhwbuf = rxcbuf
    BY <1>2
  <2> QED BY <1>1, <2>1
<1>10. rxhwbuf = rxcbuf => r = 0
  <2>1. (n - 1) % b \in Int
    BY <1>1, Quotient
  <2>2. rxhwbuf = rxcbuf => (((n - 1) % b) - ((k - 1) % b)) = 0
    BY <1>2, <2>1
  <2>3. 0 % b = 0
    OBVIOUS
  <2>4. rxhwbuf = rxcbuf => Distance = 0
    BY <1>1, <1>2, <2>2, <2>3 DEF Distance
  <2> QED BY <1>3, <1>5, <2>4
<1> QED BY <1>1, <1>3, <1>5, <1>6, <1>7, <1>8, <1>9, <1>10

LEMMA InitISHW == Init => ISHWInv
<1> SUFFICES ASSUME Init PROVE ISHWInv
  OBVIOUS
<1>1. RegistryInv
  BY DEF Init, RegistryInit, RegistryInv, OwnersAlone, NO_DEVICE
<1>2. RingTypes
  BY DEF Init, RingTypes
<1>3. RingInv /\ NoticedInv /\ BehindReported
  BY DEF Init, RingInv, NoticedInv, BehindReported, Running
<1> QED BY <1>1, <1>2, <1>3 DEF ISHWInv

LEMMA OtherDriverISHW ==
  ASSUME ISHWInv, NEW d \in Drivers, OtherDriver(d)
  PROVE  ISHWInv'
<1>1. RegistryInv'
  BY DeviceBeginRegistry, RegisterDeviceRegistry DEF ISHWInv, OtherDriver
<1>2. RingTypes' /\ RingInv' /\ NoticedInv' /\ BehindReported'
  BY DEF ISHWInv, OtherDriver, ring, device, RingTypes, RingInv, NoticedInv,
         BehindReported, Running, Total
<1> QED BY <1>1, <1>2 DEF ISHWInv

\* The indices as begin() sets them: the first buffer is there to be taken.
LEMMA BeginISHW ==
  ASSUME ISHWInv, begin
  PROVE  ISHWInv'
<1>1. /\ pc = "begin" /\ pc' \in {"aborted", "check"} /\ deviceBegin(Driver)
      /\ rxhwbuf' = 0 /\ rxcbuf' = Buffers - 1
      /\ UNCHANGED <<told, taken, start, frames, noticed, lead, irq, missed, lapped, handler>>
  BY DEF begin, device
<1>2. RegistryInv'
  BY <1>1, DeviceBeginRegistry, ISHWAssumption DEF ISHWInv
<1>3. /\ frames = 0 /\ noticed = 0 /\ taken = 0 /\ ~ irq /\ handler = "idle"
  BY <1>1 DEF ISHWInv, RingTypes, Running
<1>4. RingTypes'
  BY <1>1, <1>3 DEF ISHWInv, RingTypes, Running
<1>5. RingInv'
  <2>1. Total' = 1
    BY <1>1, <1>3 DEF ISHWInv, RingTypes, Total
  <2>2. (1 - 1) % Buffers = 0 /\ (0 - 1) % Buffers = Buffers - 1 /\ 1 - 0 < Buffers
    <3>1. PICK b \in Nat \ {0} : b = Buffers /\ b # 1
      BY BuffersPositive
    <3>2. 1 - 0 < b
      BY <3>1
    <3>3. (1 - 1) % b = 0
      OBVIOUS
    <3>4. (0 - 1) % b = b - 1
      <4>1. 0 - 1 \in Int /\ - b <= 0 - 1 /\ 0 - 1 < b + b /\ 0 - 1 < 0 /\ 0 - 1 + b = b - 1
        OBVIOUS
      <4> QED BY <4>1, RemainderNear
    <3> QED BY <3>1, <3>2, <3>3, <3>4
  <2> QED BY <1>1, <1>3, <2>1, <2>2 DEF RingInv
<1>6. NoticedInv' /\ BehindReported'
  BY <1>1, <1>3 DEF NoticedInv, BehindReported
<1> QED BY <1>2, <1>4, <1>5, <1>6 DEF ISHWInv

LEMMA FrameReceivedISHW ==
  ASSUME ISHWInv, FrameReceived
  PROVE  ISHWInv'
<1>1. RegistryInv'
  BY RegistryUnchanged DEF ISHWInv, FrameReceived
<1>2. RingTypes'
  BY DEF ISHWInv, FrameReceived, ring, RingTypes, Running
<1>3. RingInv' /\ BehindReported'
  BY DEF ISHWInv, FrameReceived, ring, RingInv, BehindReported, Running, Total
<1>4. NoticedInv'
  BY DEF ISHWInv, RingTypes, FrameReceived, NoticedInv
<1> QED BY <1>1, <1>2, <1>3, <1>4 DEF ISHWInv

\* More is noticed, and the index is that of the last frame.
LEMMA ReadRXBufferISHW ==
  ASSUME ISHWInv, ReadRXBuffer
  PROVE  ISHWInv'
<1>1. RegistryInv'
  BY RegistryUnchanged DEF ISHWInv, ReadRXBuffer
<1>2. RingTypes'
  BY DEF ISHWInv, ReadRXBuffer, RingTypes, Running
<1>3. /\ Total' = frames + lead /\ Total <= Total' /\ Total' \in Nat /\ Total \in Nat
      /\ rxhwbuf' = (Total' - 1) % Buffers
  <2>1. Total' = frames + lead
    BY DEF ISHWInv, RingTypes, ReadRXBuffer, Total
  <2>2. Total <= frames + lead /\ frames + lead \in Nat /\ Total \in Nat
    BY DEF ISHWInv, RingTypes, ReadRXBuffer, Total
  <2>3. PICK n \in Nat : n = frames + lead
    BY <2>2
  <2>4. rxhwbuf' = (n - 1) % Buffers
    <3>1. rxhwbuf' = (frames + lead - 1) % Buffers
      BY DEF ReadRXBuffer
    <3>2. frames + lead - 1 = n - 1
      BY <2>3 DEF ISHWInv, RingTypes
    <3> QED BY <3>1, <3>2, Zenon
  <2>5. Total' = n /\ Total <= n
    BY <2>1, <2>2, <2>3
  <2> QED BY <2>1, <2>2, <2>4, <2>5
<1>4. RingInv'
  <2>1. taken \in Nat /\ start \in Nat /\ Running /\ Buffers \in Nat
    BY BuffersPositive DEF ISHWInv, RingTypes, ReadRXBuffer
  <2>2. /\ taken' = taken /\ rxcbuf' = rxcbuf /\ start' = start /\ pc' = pc
        /\ ~ lapped' => ~ (frames + lead) - taken >= Buffers /\ ~ lapped
    <3>1. taken' = taken /\ rxcbuf' = rxcbuf /\ start' = start /\ pc' = pc
      BY DEF ReadRXBuffer
    <3>2. ~ lapped' => ~ frames + lead - taken >= Buffers /\ ~ lapped
      BY Zenon DEF ReadRXBuffer
    <3>3. frames + lead - taken = (frames + lead) - taken
      BY DEF ISHWInv, RingTypes
    <3> QED BY <3>1, <3>2, <3>3, Zenon
  <2>3. /\ rxcbuf = (taken - 1) % Buffers /\ taken <= Total
        /\ pc = "next" => taken < Total
        /\ pc \in {"next", "overrun", "transmit"} => start <= Total
    BY <2>1 DEF ISHWInv, RingInv
  <2>4. /\ taken <= Total' /\ (taken < Total => taken < Total')
        /\ (start <= Total => start <= Total')
    BY <1>3, <2>1, <2>3
  <2>5. ~ lapped' => Total' - taken < Buffers
    <3>1. frames + lead \in Int
      BY <1>3
    <3>2. ~ (frames + lead) - taken >= Buffers => (frames + lead) - taken < Buffers
      BY <2>1, <3>1
    <3>3. ~ lapped' => ~ (frames + lead) - taken >= Buffers
      BY <2>2, Zenon
    <3> QED BY <1>3, <3>2, <3>3, Zenon
  <2> QED BY <1>3, <2>2, <2>3, <2>4, <2>5 DEF RingInv
<1>5. NoticedInv'
  BY DEF ReadRXBuffer, NoticedInv
<1>6. BehindReported'
  <2>1. pc' = pc /\ told' = told /\ taken' = taken /\ start' = start
    BY DEF ReadRXBuffer
  <2>2. taken < Total => taken < Total'
    BY <1>3 DEF ISHWInv, RingTypes
  <2>3. start .. Total \subseteq start .. Total'
    BY <1>3 DEF ISHWInv, RingTypes
  <2>4. BehindReported
    BY DEF ISHWInv
  <2> QED BY <2>1, <2>2, <2>3, <2>4, Zenon DEF BehindReported
<1> QED BY <1>1, <1>2, <1>4, <1>5, <1>6 DEF ISHWInv

LEMMA AckInterruptISHW ==
  ASSUME ISHWInv, ackInterrupt
  PROVE  ISHWInv'
<1>1. RegistryInv'
  BY RegistryUnchanged DEF ISHWInv, ackInterrupt
<1>2. RingTypes' /\ RingInv' /\ BehindReported'
  BY DEF ISHWInv, ackInterrupt, ring, RingTypes, RingInv, BehindReported, Running, Total
<1>3. NoticedInv'
  BY DEF ISHWInv, ackInterrupt, NoticedInv
<1> QED BY <1>1, <1>2, <1>3 DEF ISHWInv

-----------------------------------------------------------------------------
LEMMA CheckISHW ==
  ASSUME ISHWInv, Check
  PROVE  ISHWInv'
<1>1. /\ pc = "check" /\ pc' = "next" /\ rxhwbuf # rxcbuf /\ start' = Total
      /\ told' = FALSE /\ UNCHANGED <<registryVars, rxhwbuf, rxcbuf, taken>>
      /\ UNCHANGED <<frames, noticed, lead, irq, missed, lapped, handler>>
  BY DEF Check, device
<1>2. RegistryInv'
  BY <1>1, RegistryUnchanged DEF ISHWInv
<1>3. Running /\ Running'
  BY <1>1 DEF Running
<1>4. Total' = Total /\ Total \in Nat
  BY <1>1, TotalPositive DEF Total, ISHWInv
<1>5. taken < Total
  BY <1>1, <1>3, DistanceTotal DEF ISHWInv
<1>6. RingTypes'
  BY <1>1, <1>3, <1>4 DEF ISHWInv, RingTypes
<1>7. RingInv'
  BY <1>1, <1>3, <1>4, <1>5 DEF ISHWInv, RingInv
<1>8. NoticedInv' /\ BehindReported'
  BY <1>1 DEF ISHWInv, NoticedInv, BehindReported
<1> QED BY <1>2, <1>6, <1>7, <1>8 DEF ISHWInv

LEMMA NextBufferISHW ==
  ASSUME ISHWInv, NextBuffer
  PROVE  ISHWInv'
<1>1. /\ pc = "next" /\ pc' = "overrun" /\ rxcbuf' = (rxcbuf + 1) % Buffers
      /\ taken' = taken + 1 /\ UNCHANGED <<registryVars, rxhwbuf, told, start>>
      /\ UNCHANGED <<frames, noticed, lead, irq, missed, lapped, handler>>
  BY DEF NextBuffer, device
<1>2. RegistryInv'
  BY <1>1, RegistryUnchanged DEF ISHWInv
<1>3. Running /\ Running'
  BY <1>1 DEF Running
<1>4. Total' = Total /\ Total \in Nat
  BY <1>1, TotalPositive DEF Total, ISHWInv
<1>5. taken \in Nat /\ taken < Total /\ start <= Total
  BY <1>1 DEF ISHWInv, RingTypes, RingInv
<1>6. rxcbuf' = (taken' - 1) % Buffers
  <2>1. rxcbuf = (taken - 1) % Buffers
    BY <1>3 DEF ISHWInv, RingInv
  <2>2. taken - 1 \in Int /\ (taken - 1) + 1 = taken' - 1
    BY <1>1, <1>5
  <2>3. (((taken - 1) % Buffers) + 1) % Buffers = ((taken - 1) + 1) % Buffers
    BY <2>2, BuffersPositive, RemainderNext
  <2> QED BY <1>1, <2>1, <2>2, <2>3
<1>7. RingTypes'
  BY <1>1, <1>3, <1>5 DEF ISHWInv, RingTypes
<1>8. RingInv'
  <2>1. taken' <= Total
    BY <1>1, <1>4, <1>5
  <2>2. ~ lapped => Total - taken' < Buffers
    <3>1. ~ lapped => Total - taken < Buffers
      BY <1>3 DEF ISHWInv, RingInv
    <3> QED BY <1>1, <1>4, <1>5, <3>1, BuffersPositive
  <2>3. rxhwbuf = (Total - 1) % Buffers
    BY <1>3 DEF ISHWInv, RingInv
  <2> QED BY <1>1, <1>4, <1>5, <1>6, <2>1, <2>2, <2>3 DEF RingInv
<1>9. NoticedInv' /\ BehindReported'
  BY <1>1 DEF ISHWInv, NoticedInv, BehindReported
<1> QED BY <1>2, <1>7, <1>8, <1>9 DEF ISHWInv

\* If the indices are equal, what there is to take is none or whole rings.
LEMMA OverrunISHW ==
  ASSUME ISHWInv, Overrun
  PROVE  ISHWInv'
<1>1. /\ pc = "overrun" /\ pc' = "transmit" /\ told' = (rxhwbuf # rxcbuf)
      /\ UNCHANGED <<registryVars, rxhwbuf, rxcbuf, taken, start>>
      /\ UNCHANGED <<frames, noticed, lead, irq, missed, lapped, handler>>
  BY DEF Overrun, device
<1>2. RegistryInv'
  BY <1>1, RegistryUnchanged DEF ISHWInv
<1>3. Running /\ Running'
  BY <1>1 DEF Running
<1>4. Total' = Total /\ Total \in Nat
  BY <1>1, TotalPositive DEF Total, ISHWInv
<1>5. RingTypes'
  BY <1>1, <1>3 DEF ISHWInv, RingTypes
<1>6. RingInv'
  BY <1>1, <1>3, <1>4 DEF ISHWInv, RingInv
<1>7. BehindReported'
  <2>1. rxhwbuf # rxcbuf => taken < Total
    BY <1>3, DistanceTotal DEF ISHWInv
  <2>2. rxhwbuf = rxcbuf => (Total - taken) % Buffers = 0
    BY <1>3, DistanceTotal DEF ISHWInv
  <2>3. start <= Total /\ start \in Nat
    BY <1>1 DEF ISHWInv, RingInv, RingTypes
  <2>4. Total \in start .. Total
    BY <1>4, <2>3
  <2> QED BY <1>1, <1>4, <2>1, <2>2, <2>4, Zenon DEF BehindReported
<1>8. NoticedInv'
  BY <1>1 DEF ISHWInv, NoticedInv
<1> QED BY <1>2, <1>5, <1>6, <1>7, <1>8 DEF ISHWInv

LEMMA TransmitISHW ==
  ASSUME ISHWInv, Transmit
  PROVE  ISHWInv'
<1>1. RegistryInv'
  BY RegistryUnchanged DEF ISHWInv, Transmit
<1>2. RingTypes' /\ RingInv' /\ NoticedInv' /\ BehindReported'
  BY DEF ISHWInv, Transmit, ring, device, RingTypes, RingInv, NoticedInv,
         BehindReported, Running, Total
<1> QED BY <1>1, <1>2 DEF ISHWInv

LEMMA NextISHW == ISHWInv /\ [Next]_vars => ISHWInv'
<1> SUFFICES ASSUME ISHWInv, [Next]_vars PROVE ISHWInv'
  OBVIOUS
<1>1. CASE \E d \in Drivers : OtherDriver(d)
  BY <1>1, OtherDriverISHW
<1>2. CASE begin
  BY <1>2, BeginISHW
<1>3. CASE FrameReceived
  BY <1>3, FrameReceivedISHW
<1>4. CASE Handler
  BY <1>4, ReadRXBufferISHW, AckInterruptISHW DEF Handler
<1>5. CASE Loop
  BY <1>5, CheckISHW, NextBufferISHW, OverrunISHW, TransmitISHW DEF Loop
<1>6. CASE UNCHANGED vars
  <2>1. RegistryInv'
    BY <1>6, RegistryUnchanged DEF ISHWInv, vars
  <2>2. RingTypes' /\ RingInv' /\ NoticedInv' /\ BehindReported'
    BY <1>6 DEF ISHWInv, vars, ring, device, RingTypes, RingInv, NoticedInv,
                BehindReported, Running, Total
  <2> QED BY <2>1, <2>2 DEF ISHWInv
<1> QED BY <1>1, <1>2, <1>3, <1>4, <1>5, <1>6 DEF Next

THEOREM ISHWInvariant == Spec => []ISHWInv
BY InitISHW, NextISHW, PTL DEF Spec

\* The variables of the sketch and of the registry keep their types.
THEOREM TypeCorrect == Spec => []TypeOK
<1> USE DEF TypeOK
<1>1. Init => TypeOK
  <2> SUFFICES ASSUME Init PROVE TypeOK
    OBVIOUS
  <2>1. m_slot \in [Drivers -> Slots \cup {NO_DEVICE}]
    BY DEF Init, RegistryInit, NO_DEVICE
  <2>2. 0 \in 0 .. Buffers - 1 /\ 0 \in 0 .. MaxFrames /\ 0 \in 0 .. MaxFrames + 1
    BY ISHWAssumption
  <2> QED BY <2>1, <2>2 DEF Init, RegistryInit
<1>2. ISHWInv /\ TypeOK /\ [Next]_vars => TypeOK'
  <2> SUFFICES ASSUME ISHWInv, TypeOK, [Next]_vars PROVE TypeOK'
    OBVIOUS
  <2>1. MaxFrames \in Nat /\ \A a \in Int : a % Buffers \in 0 .. Buffers - 1
    BY ISHWAssumption, Quotient
  <2>2. ASSUME NEW d \in Drivers, deviceBegin(d)
        PROVE  /\ m_slot' \in [Drivers -> Slots \cup {NO_DEVICE}]
               /\ begun' \subseteq Drivers /\ owner' \subseteq Drivers
               /\ UNCHANGED <<id, m_sDeviceRegistry>>
    BY <2>2, ScanResult DEF deviceBegin
  <2>3. CASE begin
    <3>1. 0 \in 0 .. Buffers - 1 /\ Buffers - 1 \in 0 .. Buffers - 1
      BY ISHWAssumption
    <3> QED BY <2>2, <2>3, <3>1, ISHWAssumption DEF begin, device
  <2>4. ASSUME NEW d \in Drivers, OtherDriver(d)
        PROVE  TypeOK'
    <3>1. CASE deviceBegin(d)
      BY <2>2, <2>4, <3>1 DEF OtherDriver, ring, device
    <3>2. CASE registerDevice(d)
      <4>1. m_slot[d] \in Slots
        <5>1. m_slot[d] \in Slots \cup {NO_DEVICE} /\ m_slot[d] < MAX_SLOTS
          BY <3>2 DEF registerDevice
        <5> QED BY <5>1, SlotNumbers, Zenon
      <4> QED BY <2>4, <3>2, <4>1 DEF OtherDriver, registerDevice, ring, device
    <3> QED BY <2>4, <3>1, <3>2 DEF OtherDriver
  <2>5. CASE FrameReceived
    BY <2>1, <2>5 DEF FrameReceived, registryVars, ring
  <2>6. CASE Handler
    <3>1. ReadRXBuffer => rxhwbuf' \in 0 .. Buffers - 1
      BY <2>1 DEF ReadRXBuffer
    <3>2. CASE ReadRXBuffer
      BY <3>1, <3>2 DEF ReadRXBuffer, registryVars
    <3>3. CASE ackInterrupt
      BY <3>3 DEF ackInterrupt, registryVars, ring
    <3> QED BY <2>6, <3>2, <3>3 DEF Handler
  <2>7. CASE Check
    <3>1. Total \in 0 .. MaxFrames + 1
      BY <2>1 DEF Total
    <3> QED BY <2>7, <3>1 DEF Check, registryVars, device
  <2>8. CASE NextBuffer
    <3>1. rxcbuf' \in 0 .. Buffers - 1
      BY <2>1, <2>8 DEF NextBuffer
    <3>2. taken + 1 \in 0 .. MaxFrames + 1
      <4>1. taken < Total /\ Total <= MaxFrames + 1 /\ Total \in Nat
        BY <2>1, <2>8 DEF ISHWInv, RingInv, NextBuffer, Total
      <4> QED BY <2>1, <4>1
    <3> QED BY <2>8, <3>1, <3>2 DEF NextBuffer, registryVars, device
  <2>9. CASE Overrun \/ Transmit
    BY <2>9 DEF Overrun, Transmit, registryVars, ring, device
  <2>10. CASE UNCHANGED vars
    BY <2>10 DEF vars, registryVars, ring, device
  <2> QED BY <2>3, <2>4, <2>5, <2>6, <2>7, <2>8, <2>9, <2>10 DEF Next, Loop
<1> QED BY <1>1, <1>2, ISHWInvariant, PTL DEF Spec

\* What check() has taken and the distance of the two indices make up the
\* frames noticed, until the reader is behind by the whole ring.
THEOREM Ring == Spec => []RingExact
<1>1. ISHWInv => RingExact
  <2> SUFFICES ASSUME ISHWInv, Running
               PROVE  /\ taken + Distance <= Total
                      /\ (Total - taken - Distance) % Buffers = 0
                      /\ taken + Distance = Total \/ lapped
    BY DEF RingExact
  <2>1. /\ Distance \in Nat /\ Distance <= Total - taken
        /\ (Total - taken - Distance) % Buffers = 0
        /\ ~ lapped => Distance = Total - taken
    BY DistanceTotal DEF ISHWInv
  <2>2. Total \in Nat /\ taken \in Nat
    BY TotalPositive DEF ISHWInv, RingTypes
  <2> QED BY <2>1, <2>2
<1> QED BY <1>1, ISHWInvariant, PTL

\* "O" is printed only if a frame is waiting, lapped or not, and if it is not
\* printed, then at some time since check() began the frames that were waiting
\* were none or whole rings.
THEOREM Reported == Spec => []BehindReported
<1>1. ISHWInv => BehindReported
  BY DEF ISHWInv
<1> QED BY <1>1, ISHWInvariant, PTL

\* Only a frame between the two steps of the handler is left unnoticed.
THEOREM Noticed == Spec => []LastFrameNoticed
<1>1. ISHWInv => LastFrameNoticed
  BY DEF ISHWInv, NoticedInv, LastFrameNoticed, Background
<1> QED BY <1>1, ISHWInvariant, PTL

\* The take that answers a frame is never made before the frame is noticed.
THEOREM AnswersFollow == Spec => []NeverAhead
<1>1. ISHWInv => NeverAhead
  <2> SUFFICES ASSUME ISHWInv, NEW n \in 1 .. MaxFrames, Running, n + lead > 1,
                      taken >= n + lead
               PROVE  noticed >= n
    BY DEF NeverAhead, Answered
  <2>1. /\ taken <= Total /\ taken \in Nat /\ noticed \in Nat /\ lead \in {0, 1}
    BY DEF ISHWInv, RingInv, RingTypes
  <2> QED BY <2>1, ISHWAssumption DEF Total
<1> QED BY <1>1, ISHWInvariant, PTL

\* However many drivers got a slot, one of them at most registers it, and
\* no scan hands out a slot that is registered.
THEOREM Apart == Spec => OwnersApart
<1>1. ISHWInv => OwnersAlone
  BY DEF ISHWInv, RegistryInv
<1>2. ISHWInv /\ [Next]_vars => [ScanFindsFree]_registryVars
  BY ScannedUnregistered DEF ISHWInv, ScanFindsFree
<1> QED BY <1>1, <1>2, ISHWInvariant, PTL DEF Spec, OwnersApart
=============================================================================
