# Verification of the ISHW tile software

This directory models the concurrent and stateful parts of the ISHW repository in
TLA+, checks the models with TLC and proves their main invariants with TLAPS.
Paths below are relative to the repository. Short names used for them:

- *workload01*: `components/tiles/zpuino/test-sketches/workload01/`
- *core*: `components/tiles/zpuino/core/zpu20/cores/zpuino/`
- *os*: `components/os/`

To repeat everything: `tlc -config <run>.cfg <module>` for each run in
`PROJECT.json`, and `tlapm` on each `*Proofs.tla` and on `ModArith.tla`.

## 1. Inventory

A *tile* is a small processor (a ZPU soft core) with up to eight faces, each
connected to a neighbour. The repository holds the start of its software: sketches
that exercise the tile (a communication workload, a test of the interconnect
hardware), the run-time core they are compiled with, and a few parts of the MFM
operating layer. Most of the other 1400 files are cross compilers, C++ headers,
board definitions and hardware images.

| Component | State | Operations | Hard parts | Correct when |
|---|---|---|---|---|
| Packet queues (*workload01* `Packets.*`) | 100 buffers with a trailer (length, next); `_freeList`; per queue `first`, `last`, four counters | `insert`, `remove`, `newPacketBuffer`, `deletePacketBuffer`, `initPackets` | the link is in the buffer, so queues share it; callers must not insert twice; counters wrap | every buffer in one place; FIFO; counters balance |
| Event generator (`EventGen.cpp`, `workload01.ino`) | `wordCount`, `fm`, bad counts, the 16 face queues | `eventProcessing` (check arrivals, wait, start an event, ship it), `supplyOutbound`, `handleInbound`, `loop` | no test for an exhausted free list; event start tests only outbound queues; wrap of faces and word counts | never a null buffer; events start quiet and never stop; what is sent arrives |
| Face queues (`FaceQueue.*`) | `inbound`, `outbound` | `insertOutboundBG`, `removeInboundBG`, `insertInboundIL`, `removeOutboundIL` | shared by background and interrupts | a pair of FIFO channels, nothing lost |
| Timers (*core* `Timer.*`) and interrupt table (`zpuino.cpp`) | `m_timerlock`, `m_intrTimer`, `m_cb`; `itable`, `INTRMASK`, `INTRCTL`; `TCTL` | `periodic`, `singleShot`, `cancel`, two handlers, attach, detach, dispatch | interrupts between any two accesses; one variable for two timers; `timer(-1)` | the function asked for is called, once or until it returns false or is cancelled, and never after |
| Interconnect sketch (`test-sketches/ishw.pde`) | `rxhwbuf` (written by the interrupt), `rxcbuf` | `begin`, `handleInterrupt`, `check` | an index modulo 8 read twice; a frame between the handler's two register accesses; lapping | every frame noticed is answered by a take of its own until the reader is lapped; being behind is reported |
| Clock (*core* `delay.*`, `myMillis`, `Stream::timedRead`) | cycle counter; last and total milliseconds; start of a wait | `delayCycles`, `millis`, `myMillis`, `timedRead` | the counter wraps, milliseconds wrap at another number, reads are spaced out by interrupts | waits are neither short nor a round too long; the total keeps up |
| Device registry (`DeviceRegistry.*`, `BaseDevice.*`) | registered slots; slot of each driver | `registerDevice`, `scanDevice`, `deviceBegin` | wildcards, instance counting, scan and registration apart | a registered slot has one owner; no scan hands it out again; the named instance is found |
| MFM packets (*os* `MFMPacket.*`) | header in memory before the data: source, flags, cursor, length | byte, number, block and nested reads, check byte, `packetReread`, `makePacket` | headers taken from data, cursors inside other packets' data, cursor after a failed read, 32-bit sums | no read stops the tile; packets in one another do not disturb one another; numbers are found and passed right |
| MFM time macros (*os* `MFMMacros.*`) | none | `IS_EARLIER` and family | the roll-over, half the range apart | the order of the true times within half the range |
| Strings, USB, random, boards, tool chains | | | | third-party, formatting or I/O: not modelled |

How they interact: `loop()` calls `eventProcessing()` and then, for every face,
`supplyOutbound()`, a stub that takes an outbound packet and lets it arrive on the
same face through `handleInbound()`. Both are meant to be attached to interrupts
of a device later (comment in `workload01.ino`), and `FaceQueue` has methods for
both levels. All queues pass the same buffers around. Timers are called from a
sketch in the background and call it back from their interrupt; the two share the
members of `Timers_class`, the interrupt table and the mask register. Drivers find
their devices through the registry when they begin. The clock is read by everything
that waits. The MFM packets are not connected to the rest yet: no code in the tree
receives them.

The hazards that follow from this are in `PROJECT.json`, each at its line.

## 2. Modules

| Module | What it is |
|---|---|
| `PacketQueue` | `insert` and `remove` as operators on one queue record and the shared links; `Holds(q, nx, s)`: the list is the sequence `s`; `ListOf`: the buffers found by following links |
| `Workload` | the sketch: start-up, one step per face or packet of `eventProcessing` and `loop` |
| `WorkloadInv` | the inductive invariant |
| `EventTraffic` | abstract specification of `Workload`: FIFO channels, a pool count, events |
| `FaceInterrupts` | one face, background access by access, interrupt handler between |
| `FaceChannel` | abstract specification of a face: two FIFO channels |
| `Timers` | timers, callbacks and the interrupt table, background access by access |
| `AlarmClock` | abstract specification of one use of a timer |
| `MFMPacket` | a packet in a buffer, its inner packets, and every read |
| `DeviceRegistry` | slots, drivers, scan and registration |
| `ISHW` | the interconnect sketch; extends `DeviceRegistry`, through which it begins |
| `WrapTime` | the time comparisons of `MFMMacros.h`, for any modulus |
| `Clock` | delays, milliseconds, time-outs and timer periods, on one wrapping counter; extends `WrapTime` |
| `MC*` | the above for TLC: refinement mappings, boards, packets |
| `ModArith` | lemmas about remainders by a divisor that is not a fixed number, the least element of a set of numbers, and functions defined by a first value and a step, with proofs |
| `PacketQueueProofs` | lemmas about lists: what `insert`, `remove` and following links do |
| `WorkloadProofs`, `FaceInterruptsProofs`, `TimersProofs`, `ClockProofs`, `ISHWProofs`, `MFMPacketProofs` | theorems and proofs about the module they are named after |

### Workload and the code

`pc` is where `setup()` or `loop()` is. `InitPacket` is one round of `initPackets`.
In `"inbound"`, `NoInbound` and `ProcessInbound` are one round of the loop of
`EventGen.cpp:63-80`. In `"outbound"`, `Blocked` is the return at line 88 and
`StartEvent` the choice of a face at 149-156. In `"ship"`, `ShipPacket` is one round
of the loop at 161-171. In `"supply"`, `NothingToSupply` and `SupplyOutbound` are
one round of the loop in `loop()`. A `PacketQueue` is the record `queue[q]`, with
`q` the free list, `In(f)` or `Out(f)`; `nx` and `length` are the buffers' trailers.

The data words of a buffer are abstracted to `filled`: how many leading words
hold the pattern that the generator writes and the receiver checks. Word 0 of the
pattern is zero, as is static memory, so it starts at 1. `ShipPacket` follows the
code in giving a packet the words that are left *after* it (finding 1).
`random(FACE_COUNT)` is any face. The event counter, the report every 25000 events
and the millisecond counter change nothing else and are left out.

### FaceInterrupts and the code

The statements of `insert` and `remove` are split at each memory access of
`first`, `last` and `trailer.next`. `supplyOutbound` as an interrupt handler runs
to its end and is one step, possible whenever `enabled` (INTRCTL) is set.
`Guarded` says whether arrivals are taken with `removeInboundBG`, as `FaceQueue.h`
intends, or with `inbound.remove()`, as `EventGen.cpp:64` does. The other faces, the
data and the statistics do not matter here; the free list is used by the
background alone and is a set.

### Timers and the code

Every background access to `m_timerlock`, `m_intrTimer`, `m_cb`, `itable` and
`INTRMASK` is a step, a read-modify-write two. An interrupt that is due is taken
before the next step, and the handlers run with interrupts off: `GoesOn` and `Ends`
are `timerInterruptHandler` with a callback that returns true or false, `Expires` is
`timerInterruptHandlerSS`. The code uses `timer(m_intrTimer)` with -1:
`m_timers[-1]` has the place and the size of the `BaseDevice` that `Timers_class`
begins with, whose base register is that of timer 0, and whose slot and instance
read as a line number are out of range. `Registers(None) = 0` models that layout.
What the hardware does (`Compare`) is taken from how the code uses it.

### MFMPacket and the code

`mem` is the buffer that `makePacket` fills; a packet is the address of its data, as
in the code, with the header in the four bytes before. `held` are the addresses that
a handler has: the packet itself and what `packetReadPacket` returned. Any handler is
modelled: it calls the functions of `MFMPacket.h` in any order on any of them. One
rule is imposed on it, which the code cannot express: who goes back in a packet with
`packetReread` gives up the packets that lie in it. Reads through `packetReadByte`
move the cursor byte by byte; here they move it once, to the same place
(`SetCursor`), since nothing else runs. A byte is a number; where its bits matter, the
set of them. Text numbers are read by `ReadChar`, one by one, of the bytes that
`packetReadByte` would deliver (`Offered`).

### ISHW, DeviceRegistry and the code

`check()` is split at its accesses to `rxhwbuf` (`Check`, `Overrun`), the handler at
its two register accesses (`ReadRXBuffer`, `ackInterrupt`), between which
`FrameReceived` can come. The device is known only by its use: `lead` covers both
readings of its index register, the buffer it filled last or the one it fills next.
`frames`, `noticed` and `taken` count what the indices only count modulo the ring.
Drivers call `deviceBegin`; that one may then call `registerDevice` is what the class
is for, though no driver in the tree does.

### Clock and the code

A loop that polls the counter is a step per read, in which any number of cycles from 1
to `MaxGap` pass: what the loop takes, and interrupts. `elapsed` and `turns` are the
true time that the program cannot see. `myMillis` may be called at any moment that
is less than a turn, but a millisecond, after the last call; the source relies on it.
`setPeriodMilliseconds` is one step, as it reads no clock; it is here for its
arithmetic with the same clock constants. The registers that it then writes are part
of `Timers`.

## 3. Runs, bounds and what they show

| Run | Instance | Shows |
|---|---|---|
| `workload` | 4 faces, 4 buffers, edge 2 and corner 4 words in packets of 3, statistics modulo 3 | `OneOwner`: lists proper, every buffer once. `NoBadData`. `StatsBalance`, across wraps. `InvOfLists`: the inductive invariant. `NeverNullBuffer`, `EventStartsQuiet`, `ShortQueues`. `ImplementsTraffic`: refinement of `EventTraffic`. `EventsGoOn`, `BuffersComeBack`: liveness |
| `workload_shipped` | packets of 62, windows of 74 and 111 words, as in the source | violated: finding 1 |
| `face_interrupts` | 4 buffers, up to 2 packets per event, guarded | `ListsAtInterrupts`, `ImplementsChannel` (refinement of `FaceChannel`), `ArrivalsFreed` |
| `face_unguarded` | the same, unguarded | violated: finding 2 |
| `timers` | two timers, two callbacks, uses that do not overlap | `Quiet`, `AttachedLocked`, `ImplementsAlarmClock`, `KeepsRinging`, `CallsReturn` |
| `timers_overlap` | the same, uses that overlap | violated: finding 3 |
| `timers_single` | uses that do not overlap | violated: finding 4 |
| `mfm_packet` | packets of up to 24 bytes: all texts of up to 4 of 6 characters, two packets side by side or in one another with right and wrong headers, checked packets | `HeldValid`, `HeldApart`, `OnlyInnerCursorsChange`: nested reads are safe. `NumbersReadRight`: bases 2, 8, 16, with limits. `CheckByteShowsErrors` |
| `packet_cursor` | the same packets | violated: finding 6 |
| `ishw` | ring of 4, 6 frames, 4 drivers on 3 boards of 3 slots | `RingExact`, `BehindReported`, `LastFrameNoticed`, `NoticedAnswered`, `OwnersApart` |
| `device_scan` | a driver of the default instance, and one of any product | violated: finding 5 |
| `clock` | counter modulo 64, millisecond of 5 cycles, reads up to 5 cycles apart, every start | `DelayNeverEarly`, `DelayInTime`, `TimeoutEarlyOnlyAtRollOver`, `TimedReadReturns`, `MillisDrift`, `PeriodRight`, `OrderWithinHalf` |

Why the bounds are enough. The ring of faces needs an even number of at least 4, so
that a corner has two different edges beside it, and the last corner's faces wrap to
the first. A
face's share is one packet or two in the source (74 and 111 words in packets of
62); the runs have both, and always just as many buffers as one event on a corner
can take, so that an early or a lost free shows at once; the source has 100 where 6
are needed. With more faces only liveness would be new: the safety properties and the
refinement are proved for any number. Only the modulus of the statistics is small, so that they wrap within
a few events. Two packets queued and two in flight on one face meet every case of
`insert` and `remove` (empty, one element, several). Two callbacks tell a stale one
from the right one, and the two timers are all there are. In `mfm_packet` the buffer has room for an inner packet in an inner
packet and for one beside another, with and without data; the texts have a space,
both signs, and digits that are and are not digits in each base; `UIntMod` is small so
that a limit can wrap. In `ishw` 6 frames lap a ring of 4 with and without the frame
that `lead` adds; the boards have the device once, twice and not at all. In `clock` a
turn of the counter is no whole number of milliseconds, as in the source (2^32 cycles,
96000 in a millisecond), every start is tried, and `Mod` only scales the rest:
`MaxGap` is small against it, as an interrupt is against 44.7 s, but more than the 4
cycles of the last, partial millisecond of a turn (23296 cycles, 0.24 ms, in the
source). So a read can miss it: a time-out of 12 that starts at 0 then never ends if the
reads are at 55, 59 and 0 in every turn. `TimedReadReturns` leaves out the time-outs that
end so near the roll-over (`FitsTurn`), and only those.

Three runs have `CHECK_DEADLOCK FALSE`. In `face_interrupts` the free list can run out
with interrupts, and the model stops (`NoBuffer`) where the sketch would write through
a null pointer; in the sketch as it is, without interrupts, this cannot happen, which
`NoNullBuffer` proves. In `ishw` (and `device_scan`) the sketch stops when it has no
device, and the model when the frames are used up. In `clock` a behaviour is one
call, which ends.

### Fairness

`Workload`: weak fairness of `Next`; the runtime calls `loop()` for ever and nothing
in it waits. `FaceInterrupts`: weak fairness of the background, strong fairness of
the handler, as a device with nothing to send keeps its request up while the
background closes interrupts out for a few instructions at a time. `Timers`: the
hardware counts, a due interrupt is taken, and the background goes on between
interrupts (strong fairness), because a period is 1 ms or more and a handler
shorter. What the sketch calls, and when, is not fair. `ISHW`: a pending interrupt
is taken and `loop()` is called for ever (weak fairness of each; a frame for ever
between would need an unbounded device). `Clock`: the processor goes on in the loop of
`timedRead`; that a byte comes is not fair.

## 4. What is proved

| Module | Theorems, and the property of a run that each states |
|---|---|
| `WorkloadProofs` | `TypeCorrect`: `TypeOK`; `Invariance`: `Inv`; `NoNullBuffer`: `NeverNullBuffer`; `QuietStart`: `EventStartsQuiet`; `FaceLimits`: `ShortQueues`; `DataIntact`: `NoBadData`; `InvarianceOfLists`: `InvOfLists`; `BuffersHaveOneOwner`: `OneOwner`; `StatisticsBalance`: `StatsBalance`; `TrafficImplemented`: `ImplementsTraffic` |
| `FaceInterruptsProofs` | `TypeCorrect`: `TypeOK`; if `Guarded`, `NoPacketLost`: `ListsAtInterrupts`; `ChannelImplemented`: `ImplementsChannel` |
| `TimersProofs` | `TypeCorrect`: `TypeOK`; if not `Overlap`, `NothingForgotten`: `Quiet`; `AttachedAreLocked`: `AttachedLocked`; `GotTimerIsFree`; `AlarmClockImplemented`: `ImplementsAlarmClock` |
| `ISHWProofs` | `ISHWInvariant`; `TypeCorrect`: `TypeOK`; `Ring`: `RingExact`; `Reported`: `BehindReported`; `Noticed`: `LastFrameNoticed`; `AnswersFollow`: the safety part of `NoticedAnswered`; `Apart`: `OwnersApart` |
| `MFMPacketProofs` | `PacketInvariant`; `PacketTypes`: `TypeOK`; `Valid`: `HeldValid`; `PacketsApart`: `HeldApart`; `OnlyCursors`: `OnlyInnerCursorsChange`; `SingleErrorsShow`: `CheckByteShowsErrors`; `NumbersRead`: `NumbersReadRight` |
| `ClockProofs` | `ClockInvariant`; `NeverEarly`: `DelayNeverEarly`; `InTime`: `DelayInTime`; `TimeoutEarly`: `TimeoutEarlyOnlyAtRollOver`; `Drift`: `MillisDrift`; `OrderHolds`: `OrderWithinHalf`; `Period`: `PeriodRight` |

All are about `Spec`, so they hold without any fairness. `Guarded` and `Overlap` are
constants of the models: the theorems that assume them hold for the value that the
passing run has, and findings 2 and 3 show what goes wrong with the other. With these
every safety property that a passing run checks is a theorem.

The library's induction theorems take an operator as a parameter, which the provers
cannot instantiate. Where a proof needs what a recursive function computes (`Cells` and
`ListOf` along the links, `TotalOf` over a list, `CheckByte` and `ReadText` over the
bytes, `Polynomial` over the digits), it says that the least number at which the claim
fails is none (`Least` in `ModArith`, from the well-founded order of the naturals), or
that the set of those at which it holds is all of them (`UpTo`, which follows from it):
first that the function's equation has one solution (`SameSteps`), then that it has one at
all (`StepsExist`), and the rest is about that solution.

### workload01

`WorkloadProofs` proves, for every number of faces of 3 or more, every finite set of
buffers and all packet and window sizes that `WorkloadAssumption` allows. `WorkloadAssumption` says that a face's share is at most two packets, that a length
fits its byte, and that the buffers are enough for one event on a corner; it holds
of the source's constants.

The argument. None of the properties is inductive: whether `insert` keeps the lists
sound depends on the buffer not being in any of them, and whether a buffer is free
depends on where all the others are. `Inv` says that sequences of buffers exist, one
for each queue, that the linked lists hold (`Holds`), in which every buffer that
`initPackets` has freed is exactly once (`Owned`), and whose lengths are those that
the current statement of `loop()` allows (`InLoop`): while inbound packets are
processed the faces before `face` have none; while an event is shipped the free list
has at least as many buffers as packets are due (`Due`) and the faces still to be
shipped to have nothing outbound; while the stub supplies, each face gets at most one
packet. `PacketQueueProofs` shows what `insert` and `remove` do to a list that holds
a sequence, and that they leave every list without the buffer alone; `WorkloadProofs`
has a lemma for moving a buffer from one sequence to another, one lemma per action
for `Inv`, and counts buffers only once, where the first event starts, to see that
all of them are on the free list. The properties then follow from `Inv`.
`InvOfLists` is `Inv` with the sequences that following the links gives, which TLC
evaluates in the run `workload`. A list that holds a sequence is followed to just
that sequence (`ListOf` in `PacketQueueProofs`), so `InvOfLists` and `OneOwner` follow from
`Inv`; for the number in `OneOwner` the places in the sequences and the freed buffers are
in one-to-one correspondence.

`StatsBalance` is not a matter of `Inv`: `Balanced` says of a queue and its sequence that the
counters agree with the length and the sum, modulo `LongMod`. It is inductive together with
`Inv`. A call of `insert` or `remove` moves both sides by the same amount (`AgreeIn`,
`AgreeOut`) as long as no length of a queued buffer changes, which is so because every
buffer is in one sequence.

`TrafficImplemented` takes the lengths along the sequences for the channels of `EventTraffic`,
the length of the free list for its pool, and what the rest of the ship loop will ship
(`DueOf`) for its open event. Each action is a step of `EventTraffic` or a stutter: the
ship loop takes one piece off the front of what is due, `Blocked` and the ends of loops
change nothing that `EventTraffic` has, and `NeverNullBuffer` is what lets it ship.

### Face queues

For every finite set of buffers and number of packets per event. `InvOf(i, o)` says for
each statement of `insert` and `remove` how the queues stand to two sequences, `i` of the
inbound and `o` of the outbound packets, that following the links from `first` gives: where
`last` may still be null, or the buffer before; that `pb` is the first of `i`, alone or not,
where that has been tested; that it is in no list before it is linked. Each buffer is in one of
the sequences, free or in `pb` at every statement, and where interrupts are open both
queues are proper lists. That a handler finds them so is what `Guarded` buys: `remove` never
has one between its statements (`Closed`). `NoPacketLost` follows, and
`ChannelImplemented` with the sequences as channels: the one access that links a buffer into
the list, or takes it out, is the step of `FaceChannel`, and the others stutter.

### Timers

For every set of callbacks, and uses that do not overlap. The properties need to know, for
each statement of a call, which of the lock, the function, the mask and `m_intrTimer` are
already those of the new use or no more those of the old (`Attaching`, `Detaching`), and that
what is attached is on the timer that the last call got (`LastOnly`). `Quiet` and the
refinement are about the uses that get timer 0: timer 1 is given away only after a single
shot has kept timer 0 (finding 4), and `m_intrTimer` = -1 stops timer 0. `TimerZero` says when
it runs, that its interrupt then reaches the function asked for, and that none is left
pending when it stops. `GotTimerIsFree` is finding 3 turned round. In
`AlarmClockImplemented` a function is asked for from the moment that the call has found a
timer, is in force from the start of the timer to its stop, and the handlers' steps are its
calls. `AlarmClock` keeps with a function whether it was asked for once or periodically,
and with a call what it returned: a call of a single shot ends the use, and so does the
first call of a periodic one that returns false. For this the proof needs that the
handler attached is that of the kind asked for, a part of `TimerZero`.

### The interconnect sketch and the registry

For every number of buffers from 2 on, every number of frames, every set of boards and
drivers (`ISHWAssumption`, `RegistryAssumption`). The model stores indices, and
`RingExact` compares their distance with counts of frames; it is not inductive, since a
distance does not say where the indices are. `RingInv` does: `rxhwbuf` is
`(Total - 1) % Buffers`, `rxcbuf` is `(taken - 1) % Buffers`, and until the reader is
lapped less than a ring is left to take. So the distance is the remainder of
`Total - taken` (`RemainderDifference` in `ModArith`), from which `RingExact` and, for
the second reading of the index, `BehindReported` follow: equal indices mean that what is
left to take is nothing or whole rings, and as more frames are only noticed, they mean it
of some count between that at the start of `check()` and now. `AnswersFollow` needs only
that no more is taken than is there. That in the statement
`"next"` something is left to take is a part of the invariant, for interrupts in
between only add to it. `RegistryInv` says that the slots of owners are registered and differ.
A driver that begins again after it has registered forgets a slot that stays registered,
so not every registered slot has an owner. That a scan finds no registered slot
(`ScanResult`) makes the second half of `OwnersApart` (`ScannedUnregistered`).

### Packets

For packets of any content, buffers of any length and handlers that read in any order.
`TypeOK`, `HeldValid` and `HeldApart` are inductive together and not one by one: that a
cursor moves within its packet and leaves all other headers alone depends on packets
lying apart or in what is already read (`CursorMoved`), and that they stay so depends on
cursors going forward, or on packets being given up when one goes back (`CursorKeeps`).
A new inner packet lies in what was just read of one packet, hence apart from all that
were held (`ReadPacketKeeps`). `OnlyInnerCursorsChange` then holds for every step. Of
the formats only one thing is used here: that what they read is between nothing and all
that is unread.

`SingleErrorsShow`: from the check bytes of the beginnings of the data, those of the damaged
data are written down, the same up to the damage and with one other bit from there on,
which goes round with the rest (`CheckByteFlipped`); that they satisfy the equation of
`CheckByte` is a calculation, and its solution is unique.

`NumbersRead` is for every base from 2 to 36, texts of every length and every
modulus of the value. `HasRead` says what the state of `ReadChar` shows of the bytes it has
met: spaces, perhaps a sign and some digits, in this order, their value, and in which
of its phases the text goes on or has stopped. It holds at the start and after one byte
more (`ReadNext`, one case for each phase and kind of byte). The value is that of
`Polynomial`, a sum of digits times powers of the base, while the code multiplies by the
base and adds a digit; that both agree modulo the word is `PolynomialNext` and
`ValueNext`. At the end of the text, what was met is a number or begins none: a text
has one number at most (`OneNumeral`), and none where reading has failed (`NoNumeral`).

### Clock

For every even `Mod`, every length of the millisecond, spacing of reads up to a quarter
of a turn, table of prescalers that does not decrease, and any number of roll-overs up
to what `totMillis` can count (`ClockAssumption`). `OVERFLOW_MILLIS` is taken as what it
is in the source, a turn in milliseconds, rounded up. `DelayInv` relates the counter to
the end of the delay and the true time in each loop; `ReadInv` says that until the
counter rolls over the start of a wait is what `millis()` was at that moment;
`MillisInv` writes the total as a whole `OVERFLOW_MILLIS` for each roll-over and the
difference of the milliseconds that the counter shows, so that the drift is the
rounding, once for each roll-over. `PeriodRight` holds of the one step that it is about:
below a word of cycles nothing in the comparator wraps but a period of zero, and a
coarser prescaler never takes more cycles (`CyclesFewer`).

## 5. Only model-checked, and not modelled

- Liveness is checked by TLC and not proved, the prover has no rules for it under
  fairness: `EventsGoOn`, `BuffersComeBack`, `ArrivalsFreed`, `KeepsRinging`,
  `CallsReturn`, the second half of `NoticedAnswered`, `TimedReadReturns`.
- Not modelled: `findUntil` and the number parsers of the Arduino `Stream`, USB,
  strings and printing (third-party, formatting); the PPS pin table, `packetEqual` and
  `packetPrefix` (they change nothing); PWM and the branch of `setPeriodMilliseconds` for
  timers without a prescaler (no such timer is in the tree); register definitions. By
  lines, almost all of the tree is vendored compilers, C++ headers and board files,
  which no model of the tile can cover; of the code that runs on the tile and was
  written for it, every part with state is modelled.
- In `Timers`, callbacks make no calls of `Timers` themselves, and a
  read-modify-write of the control register is one step: the first compare comes a
  whole period after the start.
- The interrupt pseudocode in `workload01.ino` names methods of hardware classes that
  do not exist; only its use of `supplyOutbound` is modelled.

## 6. Findings

1. `workload_shipped`: the ship loop gives a packet the number of words left after
   it in place of its own, so an event on an edge ships 12 words of 74.
2. `face_unguarded`: the background takes arrivals without closing interrupts out,
   although `FaceQueue` has a method that does. Harmless until interrupts are
   attached, which the sketch announces and does not do yet.
3. `timers_overlap`: two uses of `Timers` at once share `m_intrTimer`. The handler of the
   first meets the second before its `m_cb` is set, takes that for a callback that has
   returned false, and releases the timer of the second.
4. `timers_single`: a single shot never gives its timer back.
5. `device_scan`: the wildcards that the comment of `scanDevice` documents do not work:
   `PRODUCT_ANY` is compared with the vendor, and `FIRST_INSTANCE`, the default of
   `BaseDevice`, is counted down from -1 or 255 and finds nothing.
6. `packet_cursor`: a read of a number that fails on a character leaves the cursor behind
   it, where `MFMPacket.cpp:284-289` has it point at the character. (Lines 545-548, of
   the function that does the reading, leave it open. `NumbersReadRight` asks no more
   than those of a read that fails.)

Not a finding, as the words name a branch and promise nothing of it: `ishw.pde:77`
comments the printing of "O" as "Buffer overrun.". It is printed when a frame is waiting
after one was taken, whether or not any buffer was overwritten, and it is not printed when
the reader is behind by whole rings, which it cannot tell from not being behind.
`BehindReported` says so much, lapped or not, and `RingExact` that frames are lost only by
being lapped.

## 7. Plan

The repository's own code with state is modelled, and the safety properties and
refinements that the passing runs check are proved. Liveness stays with TLC.

If the tree gains the interconnect driver that the pseudocode of `workload01.ino`
announces, its transmit interrupt belongs in `FaceInterrupts`, with the free list as a
queue.
