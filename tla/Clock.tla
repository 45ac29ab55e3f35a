-------------------------------- MODULE Clock --------------------------------
(***************************************************************************)
(* Programs that measure time with the cycle counter of the processor:     *)
(* delayCycles and millis (delay.cpp), myMillis of workload01, timedRead   *)
(* of Stream.cpp and setPeriodMilliseconds of Timer.cpp.                   *)
(*                                                                         *)
(* A behaviour is one call of delayCycles, timedRead or                    *)
(* setPeriodMilliseconds, or any number of calls of myMillis, begun at any *)
(* value of the counter.  In a loop that polls the counter up to MaxGap    *)
(* cycles lie between two reads, interrupts included.                      *)
(***************************************************************************)
EXTENDS WrapTime, Sequences

CONSTANTS
  clocksPerMilisecond,
  OVERFLOW_MILLIS,
  MaxGap,      \* cycles from one read of a polling loop to the next, at most
  Timeouts,    \* the values of _timeout, in milliseconds
  Dividers,    \* timerPrescalerDividers
  Sizes,       \* widths of timers
  MaxTurns     \* bound: roll-overs that myMillis sees, before totMillis has one

\* OVERFLOW_MILLIS is a turn of the counter, rounded up: 44740 for 2^32 / 96000.
ASSUME ClockAssumption ==
  /\ clocksPerMilisecond \in 1 .. Mod - 1
  /\ OVERFLOW_MILLIS = (Mod + clocksPerMilisecond - 1) \div clocksPerMilisecond
  /\ MaxGap \in 1 .. Mod \div 4
  /\ Timeouts \subseteq 1 .. Mod - 1
  /\ Sizes \subseteq Nat
  /\ Dividers \in Seq(1 .. clocksPerMilisecond) /\ Len(Dividers) \in 1 .. Mod - 1
  /\ \A i, j \in 1 .. Len(Dividers) : i <= j => Dividers[i] <= Dividers[j]
  /\ MaxTurns \in Nat /\ (MaxTurns + 2) * OVERFLOW_MILLIS < Mod

VARIABLES
  tsc,      \* TIMERTSC
  pc,       \* what the program is doing
  arg,      \* what it was asked for: cycles or milliseconds
  mark,     \* next, _startMillis, lastMillis, or the timer's comparator
  tot,      \* totMillis, or the index of the timer's prescaler
  size,     \* of the timer, in bits
  elapsed,  \* history: the cycles since the call, or the first call,
  turns     \* and how often the counter has rolled over since

vars == <<tsc, pc, arg, mark, tot, size, elapsed, turns>>

millis(t) == t \div clocksPerMilisecond

\* What a polling loop can no longer tell apart.
Forever == (MaxTurns + 1) * Mod

Init ==
  /\ tsc \in 0 .. Mod - 1
  /\ pc = "start"
  /\ arg = 0 /\ mark = 0 /\ tot = 0 /\ size = 0
  /\ elapsed = 0 /\ turns = 0

Passes(cycles) ==
  /\ tsc' = (tsc + cycles) % Mod
  /\ elapsed' = IF elapsed + cycles < Forever THEN elapsed + cycles ELSE Forever
  /\ turns' = IF tsc + cycles >= Mod /\ turns <= MaxTurns THEN turns + 1 ELSE turns

-----------------------------------------------------------------------------
\* delayCycles.  The comment assumes less than 2^30 cycles; 2^31 will do.
\* Mutant: the roll-over of the counter is not waited for.
DelayCyclesStraight(cycles) ==
  /\ pc = "start"
  /\ arg' = cycles
  /\ mark' = (tsc + cycles) % Mod
  /\ pc' = "wait"
  /\ UNCHANGED <<tsc, tot, size, elapsed, turns>>

\* Mutant: no delay is taken for a delay of a whole turn.
DelayCyclesWhole(cycles) ==
  /\ pc = "start"
  /\ arg' = cycles
  /\ mark' = (tsc + cycles) % Mod
  /\ pc' = IF mark' <= tsc THEN "roll over" ELSE "wait"
  /\ UNCHANGED <<tsc, tot, size, elapsed, turns>>

delayCycles(cycles) ==
  /\ pc = "start"
  /\ arg' = cycles
  /\ mark' = (tsc + cycles) % Mod
  /\ pc' = IF mark' < tsc THEN "roll over" ELSE "wait"
  /\ UNCHANGED <<tsc, tot, size, elapsed, turns>>

\* The top bit of the counter is polled until it is clear.
RollOver ==
  /\ pc = "roll over"
  /\ \E d \in 1 .. MaxGap : Passes(d)
  /\ pc' = IF tsc' >= Half THEN "roll over" ELSE "wait"
  /\ UNCHANGED <<arg, mark, tot, size>>

Wait ==
  /\ pc = "wait"
  /\ \E d \in 1 .. MaxGap : Passes(d)
  /\ pc' = IF tsc' < mark THEN "wait" ELSE "delayed"
  /\ UNCHANGED <<arg, mark, tot, size>>

-----------------------------------------------------------------------------
\* timedRead.  A byte may be there whenever the stream is read.
timedRead(timeout) ==
  /\ pc = "start"
  /\ arg' = timeout
  /\ mark' = millis(tsc)
  /\ pc' = "read"
  /\ UNCHANGED <<tsc, tot, size, elapsed, turns>>

ByteRead ==
  /\ pc = "read"
  /\ pc' = "byte"
  /\ UNCHANGED <<tsc, arg, mark, tot, size, elapsed, turns>>

\* Mutant: the time is compared with the time to stop at.
NothingReadUntil ==
  /\ pc = "read"
  /\ \E d \in 1 .. MaxGap : Passes(d)
  /\ pc' = IF millis(tsc') < mark + arg THEN "read" ELSE "timeout"
  /\ UNCHANGED <<arg, mark, tot, size>>

\* Mutant: the started millisecond counts in full.
NothingReadShort ==
  /\ pc = "read"
  /\ \E d \in 1 .. MaxGap : Passes(d)
  /\ pc' = IF ((millis(tsc') - mark) % Mod) + 1 < arg THEN "read" ELSE "timeout"
  /\ UNCHANGED <<arg, mark, tot, size>>

NothingRead ==
  /\ pc = "read"
  /\ \E d \in 1 .. MaxGap : Passes(d)
  /\ pc' = IF (millis(tsc') - mark) % Mod < arg THEN "read" ELSE "timeout"
  /\ UNCHANGED <<arg, mark, tot, size>>

-----------------------------------------------------------------------------
\* The first call of myMillis.
FirstMillis ==
  /\ pc = "start"
  /\ mark' = millis(tsc) /\ tot' = 0
  /\ pc' = "millis"
  /\ UNCHANGED <<tsc, arg, size, elapsed, turns>>

\* Mutant: the roll-over is left to the subtraction.
AddMillisPlain(cur) == (tot + ((cur - mark) % Mod)) % Mod

\* totMillis: the subtraction may underflow.
AddMillis(cur) ==
  (tot + (IF cur < mark THEN OVERFLOW_MILLIS ELSE 0) + ((cur - mark) % Mod)) % Mod

\* Every further call comes within a turn of the counter, but one millisecond.
myMillis ==
  /\ pc = "millis" /\ turns < MaxTurns
  /\ \E d \in 1 .. Mod - clocksPerMilisecond : Passes(d)
  /\ tot' = AddMillis(millis(tsc'))
  /\ mark' = millis(tsc')
  /\ UNCHANGED <<pc, arg, size>>

-----------------------------------------------------------------------------
\* Mutant: the counter needs one cycle more to come round.
CompareLong(ms, i) == ((clocksPerMilisecond \div Dividers[i]) * ms) % Mod

\* The comparator for a period with the i-th prescaler.
Compare(ms, i) == ((clocksPerMilisecond \div Dividers[i]) * ms - 1) % Mod

\* Timers have prescalers; the branch for one that has none is not modelled.
\* The comparator stays 0 when no prescaler makes the period fit.
setPeriodMilliseconds(ms, bits) ==
  LET maxvalue == IF 2 ^ bits >= Mod THEN Mod - 1 ELSE 2 ^ bits - 1
      fits == {i \in 1 .. Len(Dividers) : Compare(ms, i) < maxvalue}
      pres == IF fits = {} THEN Len(Dividers)
              ELSE CHOOSE i \in fits : \A j \in fits : i <= j
      cmp == IF fits = {} THEN 0 ELSE Compare(ms, pres)
  IN  /\ pc = "start"
      /\ arg' = ms /\ size' = bits
      /\ \/ cmp = 0 /\ pc' = "no period" /\ UNCHANGED <<tot, mark>>
         \/ cmp # 0 /\ pc' = "period" /\ tot' = pres /\ mark' = cmp
      /\ UNCHANGED <<tsc, elapsed, turns>>

-----------------------------------------------------------------------------
Next ==
  \/ \E cycles \in 0 .. Half : delayCycles(cycles)
  \/ RollOver
  \/ Wait
  \/ \E timeout \in Timeouts : timedRead(timeout)
  \/ ByteRead
  \/ NothingRead
  \/ FirstMillis
  \/ myMillis
  \/ \E ms \in 0 .. Mod - 1, bits \in Sizes : setPeriodMilliseconds(ms, bits)

Spec == Init /\ [][Next]_vars

\* The processor goes on executing the loop of timedRead.
FairSpec == Spec /\ WF_vars(NothingRead)

-----------------------------------------------------------------------------
TypeOK ==
  /\ {tsc, arg, mark, tot} \subseteq 0 .. Mod - 1
  /\ pc \in {"start", "roll over", "wait", "delayed", "read", "byte", "timeout",
             "millis", "period", "no period"}
  /\ size \in Sizes \cup {0}
  /\ elapsed \in 0 .. Forever /\ turns \in 0 .. MaxTurns + 1

\* A delay is never shorter than what was asked for, wherever the counter
\* stands when it begins.
DelayNeverEarly == pc = "delayed" => elapsed >= arg

\* A delay ends, at most two reads of the loop too late, if its end is not so
\* close to the roll-over of the counter that a read may miss it.  Then the
\* loop goes on for a whole turn, 44.7 s, and may miss the end again.
DelayInTime ==
  pc \in {"roll over", "wait", "delayed"} /\ mark + MaxGap < Mod =>
    elapsed < arg + 2 * MaxGap

\* timedRead gives up before its timeout, less the millisecond it began in,
\* only when the counter rolls over meanwhile: then the difference of two
\* values of millis() is huge.
TimeoutEarlyOnlyAtRollOver ==
  pc = "timeout" => elapsed > (arg - 1) * clocksPerMilisecond \/ turns > 0

\* It reads with a timeout that, with the longest time between two reads, fits
\* into a turn of the counter.
FitsTurn == pc = "read" /\ arg * clocksPerMilisecond + MaxGap <= Mod

\* timedRead returns, wherever the counter stands when it begins, if its timeout
\* fits into a turn of the counter with room for the time between two reads.
\* Otherwise its reads may step over the part of the turn in which the time is
\* seen to be over, turn after turn, and it may read for ever: so with reads five
\* cycles apart and a timeout of 12 in the run, where that part has four cycles.
TimedReadReturns == FitsTurn ~> pc # "read"

\* What myMillis has counted is never a millisecond behind the true time, and
\* ahead of it by less than one millisecond, and one for each roll-over.
MillisDrift ==
  pc = "millis" =>
    /\ tot * clocksPerMilisecond > elapsed - clocksPerMilisecond
    /\ tot * clocksPerMilisecond < elapsed + (turns + 1) * clocksPerMilisecond

\* While the cycles of the period fit into an unsigned int, the timer is set
\* to the period, up to what the division by the prescaler cuts off, with the
\* finest prescaler that does.  Refused are no time at all, a time that no
\* prescaler can do, and a period of one cycle, whose comparator would be 0, the
\* value that stands for none.
PeriodRight ==
  arg * clocksPerMilisecond < Mod =>
    LET Period(i) == arg * (clocksPerMilisecond \div Dividers[i])
        Fits(i) == Period(i) < Mod /\ Period(i) < 2 ^ size
    IN  /\ pc = "period" =>
             /\ mark + 1 = Period(tot) /\ Fits(tot)
             /\ \A i \in 1 .. tot - 1 : ~ Fits(i)
        /\ pc = "no period" =>
             arg = 0 \/ \A i \in 1 .. Len(Dividers) : ~ Fits(i) \/ Period(i) = 1

\* The comparisons of MFMMacros.h, of times from the current one on.
OrderWithinHalf == OrderFrom(tsc)
=============================================================================
