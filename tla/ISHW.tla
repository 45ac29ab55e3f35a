-------------------------------- MODULE ISHW --------------------------------
(***************************************************************************)
(* ishw.pde: a sketch that receives frames from another tile into a ring   *)
(* of buffers.  The device fills the buffers in turn and interrupts; the   *)
(* handler stores the index that it reads from the device, and loop()      *)
(* takes one buffer per check() and transmits in answer to it.             *)
(*                                                                         *)
(* The device is external.  Whether its index is that of the buffer it has *)
(* filled or of the one it fills next is not said anywhere (both are       *)
(* modelled, by lead), and it counts from 0 when the sketch starts, as     *)
(* after a power-up: begin() has a TODO for a reset.  It goes on while the *)
(* handler runs.  The handler is taken before the next instruction of the  *)
(* background and has two steps, since a frame may arrive between them.    *)
(***************************************************************************)
EXTENDS DeviceRegistry

CONSTANTS
  Buffers,    \* the number of receive buffers, 8
  Driver,     \* ISHW among the drivers
  MaxFrames   \* bound: frames in a behaviour

ASSUME ISHWAssumption ==
  Buffers \in Nat \ {0, 1} /\ Driver \in Drivers /\ MaxFrames \in Nat

VARIABLES
  pc,        \* where the background is: in begin(), or at an access of check()
  handler,   \* where the handler is
  irq,       \* the interrupt of the device is pending
  rxhwbuf, rxcbuf,
  told,      \* this check() has printed "O"
  frames,    \* history: frames that arrived,
  noticed,   \* of them up to the last one whose index the handler read,
  lead,      \* 0 or 1: what the index says,
  taken,     \* buffers that check() has taken,
  start,     \* how many it had to take in all when it began,
  missed,    \* a frame came between the two steps of the last handler,
  lapped     \* and whether the reader was ever behind by the whole ring

ring == <<rxhwbuf, rxcbuf, told, taken, start>>
device == <<frames, noticed, lead, irq, missed, lapped, handler>>
vars == <<registryVars, ring, device, pc>>

Total == IF noticed + lead = 0 THEN 1 ELSE noticed + lead
Distance == (rxhwbuf - rxcbuf) % Buffers

Init ==
  /\ RegistryInit
  /\ pc = "begin" /\ handler = "idle" /\ irq = FALSE
  /\ rxhwbuf = 0 /\ rxcbuf = 0 /\ told = FALSE
  /\ frames = 0 /\ noticed = 0 /\ lead \in {0, 1}
  /\ taken = 0 /\ start = 0 /\ missed = FALSE /\ lapped = FALSE

-----------------------------------------------------------------------------
\* Other drivers of the sketch find their devices before setup() does.
OtherDriver(d) ==
  /\ pc = "begin"
  /\ (d # Driver /\ deviceBegin(d)) \/ registerDevice(d)
  /\ UNCHANGED <<ring, device, pc>>

\* begin(), and the buffers and the configuration given to the device.
begin ==
  /\ pc = "begin"
  /\ deviceBegin(Driver)
  /\ pc' = IF m_slot'[Driver] = NO_DEVICE THEN "aborted" ELSE "check"
  /\ rxhwbuf' = 0 /\ rxcbuf' = Buffers - 1
  /\ UNCHANGED <<told, taken, start, device>>

Running == pc \notin {"begin", "aborted"}
Background == Running /\ ~ irq /\ handler = "idle"

\* The device has filled the next buffer.
FrameReceived ==
  /\ Running /\ frames < MaxFrames
  /\ frames' = frames + 1
  /\ irq' = TRUE
  /\ missed' = (missed \/ handler = "ack")
  /\ UNCHANGED <<registryVars, ring, noticed, lead, lapped, handler, pc>>

\* Mutant: the handler counts interrupts.
ReadRXBufferCounts ==
  /\ Running /\ irq /\ handler = "idle"
  /\ rxhwbuf' = (rxhwbuf + 1) % Buffers
  /\ noticed' = noticed + 1
  /\ missed' = FALSE
  /\ lapped' = (lapped \/ noticed' + lead - taken >= Buffers)
  /\ handler' = "ack"
  /\ UNCHANGED <<registryVars, rxcbuf, told, taken, start, frames, lead, irq, pc>>

ReadRXBuffer ==
  /\ Running /\ irq /\ handler = "idle"
  /\ rxhwbuf' = (frames + lead - 1) % Buffers
  /\ noticed' = frames
  /\ missed' = FALSE
  /\ lapped' = (lapped \/ frames + lead - taken >= Buffers)
  /\ handler' = "ack"
  /\ UNCHANGED <<registryVars, rxcbuf, told, taken, start, frames, lead, irq, pc>>

ackInterrupt ==
  /\ handler = "ack"
  /\ irq' = FALSE
  /\ handler' = "idle"
  /\ UNCHANGED <<registryVars, ring, frames, noticed, lead, missed, lapped, pc>>

-----------------------------------------------------------------------------
\* check(): if the indices differ, the next buffer is taken.
Check ==
  /\ Background /\ pc = "check" /\ rxhwbuf # rxcbuf
  /\ pc' = "next"
  /\ start' = Total /\ told' = FALSE
  /\ UNCHANGED <<registryVars, rxhwbuf, rxcbuf, taken, device>>

\* Mutant: the index of the reader is not wrapped at the last buffer.
NextBufferUnwrapped ==
  /\ Background /\ pc = "next"
  /\ rxcbuf' = IF rxcbuf = Buffers THEN 0 ELSE rxcbuf + 1
  /\ taken' = taken + 1
  /\ pc' = "overrun"
  /\ UNCHANGED <<registryVars, rxhwbuf, told, start, device>>

\* Mutant: the reader goes on to the buffer the device has come to.
NextBufferJumps ==
  /\ Background /\ pc = "next"
  /\ rxcbuf' = rxhwbuf
  /\ taken' = taken + 1
  /\ pc' = "overrun"
  /\ UNCHANGED <<registryVars, rxhwbuf, told, start, device>>

NextBuffer ==
  /\ Background /\ pc = "next"
  /\ rxcbuf' = (rxcbuf + 1) % Buffers
  /\ taken' = taken + 1
  /\ pc' = "overrun"
  /\ UNCHANGED <<registryVars, rxhwbuf, told, start, device>>

\* Mutant: the index of the device is not read a second time.
OverrunUnread ==
  /\ Background /\ pc = "overrun"
  /\ told' = FALSE
  /\ pc' = "transmit"
  /\ UNCHANGED <<registryVars, rxhwbuf, rxcbuf, taken, start, device>>

\* The index of the device is read a second time.
Overrun ==
  /\ Background /\ pc = "overrun"
  /\ told' = (rxhwbuf # rxcbuf)
  /\ pc' = "transmit"
  /\ UNCHANGED <<registryVars, rxhwbuf, rxcbuf, taken, start, device>>

\* Mutant: after an overrun the sketch stops.
TransmitNoOverrun ==
  /\ Background /\ pc = "transmit" /\ ~ told
  /\ pc' = "check"
  /\ UNCHANGED <<registryVars, ring, device>>

Transmit ==
  /\ Background /\ pc = "transmit"
  /\ pc' = "check"
  /\ UNCHANGED <<registryVars, ring, device>>

Handler == ReadRXBuffer \/ ackInterrupt
Loop == Check \/ NextBuffer \/ Overrun \/ Transmit

Next ==
  \/ \E d \in Drivers : OtherDriver(d)
  \/ begin
  \/ FrameReceived
  \/ Handler
  \/ Loop

Spec == Init /\ [][Next]_vars

\* loop() is called for ever, and an interrupt is taken while it is pending.
FairSpec == Spec /\ WF_vars(Handler) /\ WF_vars(Loop)

-----------------------------------------------------------------------------
\* The type invariant: the slots are those of drivers, the indices are those of
\* buffers, and no more is counted than came, and one.
TypeOK ==
  /\ id \in Boards /\ m_sDeviceRegistry \subseteq Slots
  /\ m_slot \in [Drivers -> Slots \cup {NO_DEVICE}]
  /\ begun \subseteq Drivers /\ owner \subseteq Drivers
  /\ pc \in {"begin", "aborted", "check", "next", "overrun", "transmit"}
  /\ handler \in {"idle", "ack"}
  /\ {rxhwbuf, rxcbuf} \subseteq 0 .. Buffers - 1
  /\ {irq, told, missed, lapped} \subseteq BOOLEAN /\ lead \in {0, 1}
  /\ {frames, noticed} \subseteq 0 .. MaxFrames
  /\ {taken, start} \subseteq 0 .. MaxFrames + 1

\* The two indices count the frames: what check() has taken and the distance
\* of the indices make up the frames noticed, so none is taken twice or passed
\* over, until the reader is behind by all the buffers.  From then on a whole
\* number of rings is missing, and no frame is taken that did not arrive.  The
\* first buffer is taken before the device has filled any.
RingExact ==
  Running =>
    /\ taken + Distance <= Total
    /\ (Total - taken - Distance) % Buffers = 0
    /\ taken + Distance = Total \/ lapped

\* What "O" tells, although the index is read twice with interrupts between.
\* ishw.pde:77 calls the branch "Buffer overrun.", but "O" does not mean that a
\* frame was overwritten: it is printed only if some frame is waiting, and a
\* reader that is behind by whole rings, and has lost all of them, is not told.
\* If "O" is not printed, then at some time since check() began the frames that
\* were waiting were none or whole rings.
BehindReported ==
  pc = "transmit" =>
    IF told THEN taken < Total
    ELSE \E k \in start .. Total : (k - taken) % Buffers = 0

\* Interrupts that run into each other lose nothing: at rest, the stored index
\* is that of the last frame, unless a frame came between the handler's
\* reading the index and its acknowledging the interrupt.  That one stays
\* unnoticed until the next frame.
LastFrameNoticed ==
  Background /\ ~ missed => noticed = frames

\* The n-th frame is answered by the take number n + lead, of the buffer that the
\* index pointed to.  (The first take is no answer: begin() sets the indices
\* apart, and buffer 0 is taken whether or not a frame has come.  If the index is
\* that of the filled buffer, the first frame is then not answered.)
Answered(n) == taken >= n + lead

\* The take that answers a frame is never made before the frame is noticed.
NeverAhead ==
  \A n \in 1 .. MaxFrames : Running /\ n + lead > 1 /\ Answered(n) => noticed >= n

\* Every frame that is noticed is answered by a take made after that, unless the
\* reader is lapped; but for the first frame if only the first take is its own.
NoticedAnswered ==
  /\ []NeverAhead
  /\ \A n \in 1 .. MaxFrames :
       (Running /\ n + lead > 1 /\ noticed >= n) ~> (Answered(n) \/ lapped)
=============================================================================
