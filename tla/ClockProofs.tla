---------------------------- MODULE ClockProofs ----------------------------
(***************************************************************************)
(* Proofs about Clock, for every width of the counter, length of the       *)
(* millisecond and spacing of reads that ClockAssumption allows.           *)
(***************************************************************************)
EXTENDS Clock, ModArith

Times == 0 .. Mod - 1

LEMMA Widths ==
  /\ Mod \in Nat \ {0} /\ Half \in Nat \ {0} /\ Mod = Half + Half
  /\ MaxGap \in Nat \ {0} /\ 2 * MaxGap <= Half
  /\ MaxTurns \in Nat
<1>1. Mod \in Nat \ {0} /\ Mod % 2 = 0
  BY ModAssumption
<1>2. Half \in Nat \ {0} /\ Mod = Half + Half
  BY <1>1 DEF Half
<1>3. MaxGap \in 1 .. Mod \div 4
  BY ClockAssumption
<1> QED BY <1>1, <1>2, <1>3, ClockAssumption

LEMMA ForeverLong == Forever \in Nat /\ Mod <= Forever
<1>1. PICK n \in Nat, m \in Nat : n = MaxTurns /\ m = Mod
  BY Widths
<1>2. (n + 1) * m = n * m + m /\ n * m \in Nat
  BY <1>1
<1> QED BY <1>1, <1>2 DEF Forever

-----------------------------------------------------------------------------
(***************************************************************************)
(* The comparisons of times.                                               *)
(***************************************************************************)
\* The difference of two times near a third is the true one, or a turn more.
LEMMA NearDifference ==
  ASSUME NEW t \in Times, NEW x \in 0 .. Half - 1, NEW y \in 0 .. Half - 1
  PROVE  (((t + x) % Mod) - ((t + y) % Mod)) % Mod
           = IF x < y THEN x - y + Mod ELSE x - y
<1>1. Mod \in Nat \ {0} /\ t + x \in Int /\ t + y \in Int
  BY Widths DEF Times
<1>2. (((t + x) % Mod) - ((t + y) % Mod)) % Mod = ((t + x) - (t + y)) % Mod
  BY <1>1, RemainderDifference
<1>3. PICK d \in Int : d = x - y
  BY Widths
<1>4. (t + x) - (t + y) = d
  BY <1>3, Widths DEF Times
<1>5. - Mod <= d /\ d < Mod
  BY <1>3, Widths
<1>6. d % Mod = IF d < 0 THEN d + Mod ELSE d
  <2>1. PICK m \in Nat \ {0} : m = Mod
    BY <1>1
  <2>2. - m <= d /\ d < m /\ d < m + m
    BY <2>1, <1>5
  <2>3. d % m = IF d < 0 THEN d + m ELSE IF d < m THEN d ELSE d - m
    BY <2>2, RemainderNear
  <2> QED BY <2>1, <2>2, <2>3
<1> QED BY <1>2, <1>3, <1>4, <1>6, Widths

\* Among times within less than half a turn from any time on, IS_EARLIER and
\* its family of MFMMacros.h give the order of the true times.
THEOREM Order == ASSUME NEW t \in Times PROVE OrderFrom(t)
<1> SUFFICES ASSUME NEW x \in 0 .. Half - 1, NEW y \in 0 .. Half - 1
             PROVE  LET a == (t + x) % Mod
                        b == (t + y) % Mod
                    IN  /\ IS_EARLIER(a, b) <=> x < y
                        /\ IS_LATER(a, b) <=> x > y
                        /\ IS_EARLIER_OR_EQUAL(a, b) <=> x <= y
                        /\ IS_LATER_OR_EQUAL(a, b) <=> x >= y
  BY DEF OrderFrom
<1>1. PICK d \in Int, e \in Int :
        /\ d = (((t + x) % Mod) - ((t + y) % Mod)) % Mod
        /\ e = (((t + y) % Mod) - ((t + x) % Mod)) % Mod
        /\ d = IF x < y THEN x - y + Mod ELSE x - y
        /\ e = IF y < x THEN y - x + Mod ELSE y - x
  BY NearDifference, Widths
<1>2. /\ d > Half <=> x < y
      /\ e > Half <=> x > y
      /\ e < Half <=> x <= y
      /\ d < Half <=> x >= y
  BY <1>1, Widths
<1> QED
  BY <1>1, <1>2 DEF IS_EARLIER, IS_LATER, IS_EARLIER_OR_EQUAL, IS_LATER_OR_EQUAL

-----------------------------------------------------------------------------
(***************************************************************************)
(* Milliseconds.                                                           *)
(***************************************************************************)
LEMMA Milliseconds ==
  ASSUME NEW t \in Times
  PROVE  /\ millis(t) \in Times
         /\ clocksPerMilisecond * millis(t) \in Nat
         /\ clocksPerMilisecond * millis(t) <= t
         /\ t < clocksPerMilisecond * millis(t) + clocksPerMilisecond
<1>1. PICK c \in Nat \ {0}, q \in Int, r \in Int :
        /\ c = clocksPerMilisecond /\ q = t \div c
        /\ t = c * q + r /\ r \in 0 .. c - 1
  <2>1. PICK c \in Nat \ {0} : c = clocksPerMilisecond
    BY ClockAssumption
  <2>2. t \in Int
    BY DEF Times
  <2>3. t % c \in 0 .. c - 1 /\ t \div c \in Int /\ t = c * (t \div c) + (t % c)
    BY <2>2, Quotient
  <2>4. PICK q \in Int : q = t \div c
    BY <2>3
  <2>5. PICK r \in Int : r = t % c /\ r \in 0 .. c - 1
    BY <2>3
  <2> QED BY <2>1, <2>3, <2>4, <2>5
<1>2. q \in Nat /\ c * q \in Nat
  <2>1. t \in Nat
    BY Widths DEF Times
  <2>2. ~ q <= -1
    <3> SUFFICES ASSUME q <= -1 PROVE FALSE
      OBVIOUS
    <3>1. c * q <= - c
      OBVIOUS
    <3> QED BY <1>1, <2>1, <3>1
  <2> QED BY <2>2
<1>3. q <= t
  <2>1. q <= c * q
    BY <1>2
  <2> QED BY <1>1, <1>2, <2>1 DEF Times
<1>4. millis(t) = q
  BY <1>1 DEF millis
<1> QED BY <1>1, <1>2, <1>3, <1>4, Widths DEF Times

LEMMA LaterMilliseconds ==
  ASSUME NEW s \in Times, NEW t \in Times
  PROVE  /\ s <= t => millis(s) <= millis(t)
         /\ s + clocksPerMilisecond <= t => millis(s) < millis(t)
<1>1. PICK c \in Nat \ {0}, p \in Nat, q \in Nat :
        c = clocksPerMilisecond /\ p = millis(s) /\ q = millis(t)
  <2>1. millis(s) \in Nat /\ millis(t) \in Nat
    BY Milliseconds, Widths DEF Times
  <2>2. clocksPerMilisecond \in Nat \ {0}
    BY ClockAssumption
  <2> QED BY <2>1, <2>2
<1>2. c * p <= s /\ s < c * p + c /\ c * q <= t /\ t < c * q + c
  BY <1>1, Milliseconds
<1>3. ASSUME s <= t PROVE p <= q
  <2> SUFFICES ASSUME q + 1 <= p PROVE FALSE
    OBVIOUS
  <2>1. c * (q + 1) <= c * p
    OBVIOUS
  <2>2. c * (q + 1) = c * q + c
    OBVIOUS
  <2> QED BY <1>2, <1>3, <2>1, <2>2 DEF Times
<1>4. ASSUME s + c <= t PROVE p < q
  <2> SUFFICES ASSUME q <= p PROVE FALSE
    OBVIOUS
  <2>1. c * q <= c * p
    OBVIOUS
  <2> QED BY <1>2, <1>4, <2>1 DEF Times
<1> QED BY <1>1, <1>3, <1>4

-----------------------------------------------------------------------------
(***************************************************************************)
(* The inductive invariant.                                                *)
(***************************************************************************)
ClockTypes ==
  /\ tsc \in Times /\ arg \in Times /\ mark \in Times /\ tot \in Times
  /\ pc \in {"start", "roll over", "wait", "delayed", "read", "byte", "timeout",
             "millis", "period", "no period"}
  /\ elapsed \in 0 .. Forever /\ turns \in 0 .. MaxTurns + 1
  /\ pc = "start" => elapsed = 0 /\ turns = 0

\* While the end of a delay is ahead, the counter is as far from it as there
\* are cycles to go; in the first loop, before it rolls over.  It is passed by
\* a read at most, if that read does not miss the end.
DelayInv ==
  /\ pc \in {"roll over", "wait"} => arg <= Half
  /\ pc = "roll over" => Half <= tsc /\ tsc = mark + Mod - arg + elapsed
  /\ pc = "wait" =>
       \/ /\ elapsed < arg + MaxGap
          /\ tsc = mark + elapsed - arg
          /\ elapsed <= arg \/ tsc < MaxGap
       \/ arg <= elapsed /\ Mod <= mark + MaxGap
  /\ pc = "delayed" =>
       arg <= elapsed /\ (elapsed < arg + 2 * MaxGap \/ Mod <= mark + MaxGap)

\* Until the counter rolls over, _startMillis is what millis() was then.
ReadInv ==
  turns = 0 =>
    /\ pc \in {"read", "timeout"} => elapsed <= tsc /\ mark = millis(tsc - elapsed)
    /\ pc = "timeout" => (arg - 1) * clocksPerMilisecond < elapsed

\* What myMillis has counted: a whole OVERFLOW_MILLIS for each roll-over.
MillisInv ==
  pc = "millis" =>
    /\ turns <= MaxTurns /\ mark = millis(tsc)
    /\ \E first \in Times :
         /\ elapsed = turns * Mod + tsc - first
         /\ tot = turns * OVERFLOW_MILLIS + mark - millis(first)

ClockInv == ClockTypes /\ DelayInv /\ ReadInv /\ MillisInv /\ PeriodRight

LEMMA ClockNumbers ==
  ASSUME ClockTypes
  PROVE  /\ tsc \in Nat /\ tsc < Mod /\ arg \in Nat /\ arg < Mod
         /\ mark \in Nat /\ mark < Mod /\ tot \in Nat /\ tot < Mod
         /\ elapsed \in Nat /\ elapsed <= Forever
         /\ turns \in Nat /\ turns <= MaxTurns + 1
<1>1. tsc \in Times /\ arg \in Times /\ mark \in Times /\ tot \in Times
  BY DEF ClockTypes
<1>2. \A t \in Times : t \in Nat /\ t < Mod
  BY Widths DEF Times
<1>3. elapsed \in 0 .. Forever /\ turns \in 0 .. MaxTurns + 1
  BY DEF ClockTypes
<1>4. elapsed \in Nat /\ elapsed <= Forever
  BY <1>3, ForeverLong
<1>5. turns \in Nat /\ turns <= MaxTurns + 1
  BY <1>3, Widths
<1> QED BY <1>1, <1>2, <1>4, <1>5

\* What happens when cycles pass.
LEMMA Passing ==
  ASSUME ClockTypes, NEW d \in 1 .. Mod, Passes(d)
  PROVE  /\ tsc' \in Times /\ elapsed' \in 0 .. Forever /\ turns' \in 0 .. MaxTurns + 1
         /\ tsc + d < Mod => tsc' = tsc + d /\ turns' = turns
         /\ Mod <= tsc + d => tsc' = tsc + d - Mod
         /\ Mod <= tsc + d => turns' # 0 /\ (turns <= MaxTurns => turns' = turns + 1)
         /\ elapsed <= elapsed' /\ (elapsed + d <= Forever => elapsed' = elapsed + d)
         /\ elapsed' = elapsed + d \/ elapsed' = Forever
<1>1. PICK m \in Nat \ {0}, t \in Nat, f \in Nat, n \in Nat :
        m = Mod /\ t = tsc /\ f = Forever /\ n = MaxTurns /\ t < m
  BY ClockNumbers, ForeverLong, Widths
<1>2. PICK e \in Nat, k \in Nat : e = elapsed /\ e <= f /\ k = turns /\ k <= n + 1
  BY <1>1, ClockNumbers
<1>3. (t + d) % m = IF t + d < m THEN t + d ELSE t + d - m
  <2>1. d \in Nat \ {0} /\ d <= m
    BY <1>1
  <2> QED BY <1>1, <2>1, RemainderSum
<1>4. tsc' = IF t + d < m THEN t + d ELSE t + d - m
  BY <1>1, <1>3 DEF Passes
<1>5. tsc' \in Times
  BY <1>1, <1>4 DEF Times
<1>6. /\ elapsed' \in 0 .. f
      /\ e <= elapsed' /\ (e + d <= f => elapsed' = e + d)
      /\ elapsed' = e + d \/ elapsed' = f
  <2>1. elapsed' = IF e + d < f THEN e + d ELSE f
    BY <1>1, <1>2 DEF Passes
  <2> QED BY <1>1, <1>2, <2>1
<1>7. /\ turns' \in 0 .. n + 1
      /\ t + d < m => turns' = k
      /\ m <= t + d => turns' # 0 /\ (k <= n => turns' = k + 1)
  <2>1. turns' = IF t + d >= m /\ k <= n THEN k + 1 ELSE k
    BY <1>1, <1>2 DEF Passes
  <2> QED BY <1>1, <1>2, <2>1
<1> QED BY <1>1, <1>2, <1>4, <1>5, <1>6, <1>7

LEMMA InitClock == Init => ClockInv
<1> SUFFICES ASSUME Init PROVE ClockInv
  OBVIOUS
<1>1. ClockTypes
  BY Widths, ForeverLong DEF Init, ClockTypes, Times
<1>2. DelayInv /\ ReadInv /\ MillisInv /\ PeriodRight
  BY DEF Init, DelayInv, ReadInv, MillisInv, PeriodRight
<1> QED BY <1>1, <1>2 DEF ClockInv

\* The parts of the invariant that do not speak of where the program is.
LEMMA Elsewhere ==
  /\ pc' \notin {"roll over", "wait", "delayed"} => DelayInv'
  /\ pc' \notin {"read", "timeout"} => ReadInv'
  /\ pc' # "millis" => MillisInv'
  /\ pc' \notin {"period", "no period"} => PeriodRight'
<1>1. pc' \notin {"roll over", "wait", "delayed"} => DelayInv'
  BY DEF DelayInv
<1>2. pc' \notin {"read", "timeout"} => ReadInv'
  BY DEF ReadInv
<1>3. pc' # "millis" => MillisInv'
  BY DEF MillisInv
<1>4. pc' \notin {"period", "no period"} => PeriodRight'
  BY DEF PeriodRight
<1> QED BY <1>1, <1>2, <1>3, <1>4

LEMMA DelayCyclesClock ==
  ASSUME ClockInv, NEW cycles \in 0 .. Half, delayCycles(cycles)
  PROVE  ClockInv'
<1>0. /\ Mod \in Nat \ {0} /\ Half \in Nat \ {0} /\ Mod = Half + Half
      /\ MaxGap \in Nat \ {0} /\ tsc \in Nat /\ tsc < Mod
      /\ cycles \in Nat /\ cycles <= Half
  <2>1. cycles \in Nat /\ cycles <= Half
    BY Widths
  <2> QED BY <2>1, ClockNumbers, Widths DEF ClockInv
<1>1. PICK m \in Nat \ {0}, h \in Nat \ {0}, g \in Nat \ {0}, t \in Nat, c \in Nat :
        /\ m = Mod /\ h = Half /\ m = h + h /\ g = MaxGap
        /\ t = tsc /\ t < m /\ c = cycles /\ c <= h
  BY <1>0
<1>n. m = h + h /\ t < m /\ c <= h
  BY <1>1
<1>2. elapsed = 0 /\ turns = 0
  BY DEF ClockInv, ClockTypes, delayCycles
<1>3. mark' = IF t + c < m THEN t + c ELSE t + c - m
  <2>1. c <= m
    BY <1>n
  <2>2. mark' = (t + c) % m
    BY <1>1 DEF delayCycles
  <2>3. (t + c) % m = IF t + c < m THEN t + c ELSE t + c - m
    BY <1>n, <2>1, RemainderSum
  <2> QED BY <2>2, <2>3
<1>4. PICK k \in Nat : k = mark' /\ k < m /\ (k = t + c \/ (k = t + c - m /\ m <= t + c))
  <2>1. CASE t + c < m
    BY <1>3, <2>1
  <2>2. CASE m <= t + c
    <3>1. mark' = t + c - m
      BY <1>3, <2>2
    <3>2. t + c - m \in Nat /\ t + c - m < m
      BY <1>n, <2>2
    <3> QED BY <3>1, <3>2, <2>2
  <2> QED BY <2>1, <2>2
<1>k. k < m /\ (k = t + c \/ (k = t + c - m /\ m <= t + c)) /\ (~ k < t => t <= k)
  BY <1>4
<1>5. \/ pc' = "roll over" /\ k < t
      \/ pc' = "wait" /\ t <= k
  <2>1. pc' = IF k < t THEN "roll over" ELSE "wait"
    BY <1>1, <1>4, Zenon DEF delayCycles
  <2> QED BY <1>k, <2>1, Zenon
<1>6. tsc' = t /\ arg' = c /\ elapsed' = 0 /\ turns' = 0 /\ tot' = tot
  BY <1>1, <1>2 DEF delayCycles
<1>7. ClockTypes'
  <2>1. tsc' \in Times /\ arg' \in Times /\ mark' \in Times
    BY <1>1, <1>4, <1>6 DEF Times
  <2>2. tot' \in Times
    BY <1>6 DEF ClockInv, ClockTypes
  <2>3. elapsed' \in 0 .. Forever /\ turns' \in 0 .. MaxTurns + 1
    BY <1>6, ForeverLong, Widths
  <2> QED BY <1>5, <1>6, <2>1, <2>2, <2>3 DEF ClockTypes
<1>8. DelayInv'
  <2>1. k < t => h <= t /\ t = k + m - c + 0
    BY <1>n, <1>k
  <2>2. t <= k => 0 < c + g /\ t = k + 0 - c /\ 0 <= c
    BY <1>n, <1>k
  <2>3. arg' <= Half
    BY <1>1, <1>6
  <2>4. pc' = "roll over" => Half <= tsc' /\ tsc' = mark' + Mod - arg' + elapsed'
    BY <1>1, <1>4, <1>5, <1>6, <2>1, Zenon
  <2>5. pc' = "wait" => /\ elapsed' < arg' + MaxGap
                        /\ tsc' = mark' + elapsed' - arg'
                        /\ elapsed' <= arg'
    BY <1>1, <1>4, <1>5, <1>6, <2>2, Zenon
  <2>6. pc' # "delayed"
    BY <1>5
  <2> QED BY <2>3, <2>4, <2>5, <2>6 DEF DelayInv
<1> QED BY <1>5, <1>7, <1>8, Elsewhere DEF ClockInv

LEMMA RollOverClock ==
  ASSUME ClockInv, RollOver
  PROVE  ClockInv'
<1>1. PICK d \in 1 .. MaxGap : Passes(d)
  BY DEF RollOver
<1>2. PICK m \in Nat \ {0}, h \in Nat \ {0}, g \in Nat \ {0}, t \in Nat, a \in Nat,
           k \in Nat, e \in Nat, f \in Nat :
        /\ m = Mod /\ h = Half /\ m = h + h /\ g = MaxGap /\ 2 * g <= h
        /\ t = tsc /\ t < m /\ a = arg /\ k = mark /\ k < m
        /\ e = elapsed /\ f = Forever /\ m <= f
  BY ClockNumbers, Widths, ForeverLong DEF ClockInv
<1>3. h <= t /\ t = k + m - a + e /\ a <= h
  BY <1>2 DEF ClockInv, DelayInv, RollOver
<1>4. d \in Nat \ {0} /\ d <= g /\ d \in 1 .. Mod
  BY <1>1, <1>2
<1>5. /\ tsc' \in Times /\ elapsed' \in 0 .. Forever /\ turns' \in 0 .. MaxTurns + 1
      /\ t + d < m => tsc' = t + d
      /\ m <= t + d => tsc' = t + d - m
      /\ e + d <= f => elapsed' = e + d
  BY <1>1, <1>2, <1>4, Passing DEF ClockInv
<1>6. elapsed' = e + d
  BY <1>2, <1>3, <1>4, <1>5
<1>7. pc' = IF tsc' >= h THEN "roll over" ELSE "wait"
  BY <1>2 DEF RollOver
<1>8. arg' = a /\ mark' = k /\ tot' = tot
  BY <1>2 DEF RollOver
<1>9. ClockTypes'
  <2>1. arg' \in Times /\ mark' \in Times /\ tot' \in Times
    BY <1>2, <1>8 DEF ClockInv, ClockTypes
  <2> QED BY <1>5, <1>7, <2>1 DEF ClockTypes
<1>10. DelayInv'
  <2>0. PICK u \in Nat : u = tsc' /\ (u = t + d \/ (u = t + d - m /\ m <= t + d)) /\ u < m
    <3>1. tsc' \in Nat /\ tsc' < m
      BY <1>2, <1>5 DEF Times
    <3> QED BY <1>2, <1>4, <1>5, <3>1
  <2>1. \/ pc' = "roll over" /\ h <= u
        \/ pc' = "wait" /\ u < h
    <3>1. pc' = IF u >= h THEN "roll over" ELSE "wait"
      BY <1>7, <2>0, Zenon
    <3>2. (u >= h => h <= u) /\ (~ u >= h => u < h)
      OBVIOUS
    <3> QED BY <3>1, <3>2, Zenon
  <2>a. h <= u => u = k + m - a + (e + d)
    BY <1>2, <1>3, <1>4, <2>0
  <2>b. u < h => u = k + (e + d) - a /\ u < g /\ e + d < a + g
    BY <1>2, <1>3, <1>4, <2>0
  <2>2. pc' = "roll over" => h <= u /\ u = k + m - a + (e + d)
    BY <2>1, <2>a
  <2>3. pc' = "wait" => u = k + (e + d) - a /\ u < g /\ e + d < a + g
    BY <2>1, <2>b
  <2>4. pc' = "roll over" => Half <= tsc' /\ tsc' = mark' + Mod - arg' + elapsed'
    BY <1>2, <1>6, <1>8, <2>0, <2>2
  <2>5. pc' = "wait" => /\ elapsed' < arg' + MaxGap
                        /\ tsc' = mark' + elapsed' - arg'
                        /\ tsc' < MaxGap
    BY <1>2, <1>6, <1>8, <2>0, <2>3
  <2>6. arg' <= Half /\ pc' # "delayed"
    BY <1>2, <1>3, <1>7, <1>8
  <2> QED BY <2>4, <2>5, <2>6 DEF DelayInv
<1> QED BY <1>7, <1>9, <1>10, Elsewhere DEF ClockInv

LEMMA WaitClock ==
  ASSUME ClockInv, Wait
  PROVE  ClockInv'
<1>1. PICK d \in 1 .. MaxGap : Passes(d)
  BY DEF Wait
<1>0. /\ Mod \in Nat \ {0} /\ Half \in Nat \ {0} /\ Mod = Half + Half
      /\ MaxGap \in Nat \ {0} /\ 2 * MaxGap <= Half
      /\ tsc \in Nat /\ tsc < Mod /\ arg \in Nat /\ mark \in Nat /\ mark < Mod
      /\ elapsed \in Nat /\ elapsed <= Forever /\ Forever \in Nat /\ Mod <= Forever
  BY ClockNumbers, Widths, ForeverLong DEF ClockInv
<1>2. PICK m \in Nat \ {0}, h \in Nat \ {0}, g \in Nat \ {0}, t \in Nat, a \in Nat,
           k \in Nat, e \in Nat, f \in Nat :
        /\ m = Mod /\ h = Half /\ m = h + h /\ g = MaxGap /\ 2 * g <= h
        /\ t = tsc /\ t < m /\ a = arg /\ k = mark /\ k < m
        /\ e = elapsed /\ f = Forever /\ m <= f
  BY <1>0
<1>n. m = h + h /\ 2 * g <= h /\ t < m /\ k < m /\ m <= f
  BY <1>2
<1>3. /\ a <= h
      /\ \/ e < a + g /\ t = k + e - a /\ (e <= a \/ t < g)
         \/ a <= e /\ m <= k + g
  <2>1. pc = "wait"
    BY DEF Wait
  <2>2. /\ arg <= Half
        /\ \/ /\ elapsed < arg + MaxGap
              /\ tsc = mark + elapsed - arg
              /\ elapsed <= arg \/ tsc < MaxGap
           \/ arg <= elapsed /\ Mod <= mark + MaxGap
    BY <2>1, Zenon DEF ClockInv, DelayInv
  <2> QED BY <1>2, <2>2, Zenon
<1>4. d \in Nat \ {0} /\ d <= g /\ d \in 1 .. Mod
  BY <1>1, <1>2
<1>d. d \in Nat \ {0} /\ d <= g
  BY <1>4
<1>5. /\ tsc' \in Times /\ elapsed' \in 0 .. Forever /\ turns' \in 0 .. MaxTurns + 1
      /\ t + d < m => tsc' = t + d
      /\ m <= t + d => tsc' = t + d - m
      /\ e <= elapsed' /\ (e + d <= f => elapsed' = e + d)
  BY <1>1, <1>2, <1>4, Passing DEF ClockInv
<1>6. PICK u \in Nat, x \in Nat : u = tsc' /\ x = elapsed'
  <2>1. tsc' \in Nat /\ elapsed' \in Nat
    BY <1>2, <1>5, Widths DEF Times
  <2> QED BY <2>1
<1>p. /\ t + d < m => u = t + d
      /\ e <= x /\ (e + d <= f => x = e + d)
  BY <1>5, <1>6, Zenon
<1>7. \/ pc' = "wait" /\ u < k
      \/ pc' = "delayed" /\ k <= u
  <2>1. pc' = IF u < k THEN "wait" ELSE "delayed"
    BY <1>2, <1>6, Zenon DEF Wait
  <2>2. ~ u < k => k <= u
    OBVIOUS
  <2> QED BY <2>1, <2>2, Zenon
<1>8. arg' = a /\ mark' = k /\ tot' = tot
  BY <1>2 DEF Wait
<1>9. ClockTypes'
  <2>1. arg' \in Times /\ mark' \in Times /\ tot' \in Times
    BY <1>2, <1>8 DEF ClockInv, ClockTypes
  <2> QED BY <1>5, <1>7, <2>1 DEF ClockTypes
<1>10. \/ a <= x /\ m <= k + g
       \/ u < k /\ x < a + g /\ u = k + x - a /\ x <= a
       \/ k <= u /\ a <= x /\ x < a + 2 * g
  <2>1. CASE e < a + g /\ t = k + e - a /\ (e <= a \/ t < g)
    <3>1. x = e + d
      BY <1>n, <1>3, <1>d, <1>p, <2>1
    <3>2. CASE t + d < m
      BY <1>n, <1>d, <1>p, <2>1, <3>1, <3>2
    <3>3. CASE m <= t + d
      BY <1>n, <1>d, <2>1, <3>1, <3>3
    <3> QED BY <3>2, <3>3
  <2>2. CASE a <= e /\ m <= k + g
    BY <1>p, <2>2
  <2> QED BY <1>3, <2>1, <2>2
<1>11. DelayInv'
  <2>1. /\ arg' <= Half
        /\ \/ arg' <= elapsed' /\ Mod <= mark' + MaxGap
           \/ tsc' < mark' /\ elapsed' < arg' + MaxGap /\ tsc' = mark' + elapsed' - arg'
                /\ elapsed' <= arg'
           \/ mark' <= tsc' /\ arg' <= elapsed' /\ elapsed' < arg' + 2 * MaxGap
    BY <1>2, <1>3, <1>6, <1>8, <1>10, Zenon
  <2>2. pc' = "wait" => ~ mark' <= tsc'
    <3>1. u < k => ~ k <= u
      OBVIOUS
    <3> QED BY <1>6, <1>7, <1>8, <3>1, Zenon
  <2>3. pc' = "delayed" => ~ tsc' < mark'
    <3>1. k <= u => ~ u < k
      OBVIOUS
    <3> QED BY <1>6, <1>7, <1>8, <3>1, Zenon
  <2>4. pc' \in {"wait", "delayed"}
    BY <1>7
  <2>5. pc' # "roll over"
    BY <1>7
  <2> QED BY <2>1, <2>2, <2>3, <2>4, <2>5, Zenon DEF DelayInv
<1> QED BY <1>7, <1>9, <1>11, Elsewhere DEF ClockInv

\* A byte of the stream is not waited for, or waited for by the milliseconds.
LEMMA TimedReadClock ==
  ASSUME ClockInv, NEW timeout \in Timeouts, timedRead(timeout)
  PROVE  ClockInv'
<1>1. /\ pc = "start" /\ pc' = "read" /\ arg' = timeout /\ mark' = millis(tsc)
      /\ tsc' = tsc /\ tot' = tot /\ elapsed' = elapsed /\ turns' = turns
  BY DEF timedRead
<1>2. tsc \in Times /\ tot \in Times /\ elapsed = 0 /\ turns = 0
  BY <1>1 DEF ClockInv, ClockTypes
<1>3. timeout \in Times
  BY ClockAssumption, Widths DEF Times
<1>4. millis(tsc) \in Times
  BY <1>2, Milliseconds
<1>5. elapsed' \in 0 .. Forever /\ turns' \in 0 .. MaxTurns + 1
  BY <1>1, <1>2, ForeverLong, Widths
<1>6. ClockTypes'
  BY <1>1, <1>2, <1>3, <1>4, <1>5 DEF ClockTypes
<1>7. ReadInv'
  <2>1. 0 <= tsc /\ tsc - 0 = tsc
    BY <1>2, Widths DEF Times
  <2>2. elapsed' <= tsc' /\ mark' = millis(tsc' - elapsed')
    BY <1>1, <1>2, <2>1
  <2> QED BY <1>1, <2>2 DEF ReadInv
<1> QED BY <1>1, <1>6, <1>7, Elsewhere DEF ClockInv

LEMMA ByteReadClock ==
  ASSUME ClockInv, ByteRead
  PROVE  ClockInv'
<1>1. ClockTypes'
  BY DEF ByteRead, ClockInv, ClockTypes
<1>2. pc' = "byte"
  BY DEF ByteRead
<1> QED BY <1>1, <1>2, Elsewhere DEF ClockInv

LEMMA NothingReadClock ==
  ASSUME ClockInv, NothingRead
  PROVE  ClockInv'
<1>1. PICK d \in 1 .. MaxGap : Passes(d)
  BY DEF NothingRead
<1>2. d \in 1 .. Mod /\ d \in Nat
  BY <1>1, Widths
<1>3. /\ tsc' \in Times /\ elapsed' \in 0 .. Forever /\ turns' \in 0 .. MaxTurns + 1
      /\ tsc + d < Mod => tsc' = tsc + d /\ turns' = turns
      /\ Mod <= tsc + d => turns' # 0
      /\ elapsed + d <= Forever => elapsed' = elapsed + d
  BY <1>1, <1>2, Passing DEF ClockInv
<1>4. /\ pc = "read" /\ arg' = arg /\ mark' = mark /\ tot' = tot
      /\ pc' = IF (millis(tsc') - mark) % Mod < arg THEN "read" ELSE "timeout"
  BY DEF NothingRead
<1>5. pc' \in {"read", "timeout"}
  BY <1>4
<1>6. ClockTypes'
  <2>1. arg' \in Times /\ mark' \in Times /\ tot' \in Times
    BY <1>4 DEF ClockInv, ClockTypes
  <2> QED BY <1>3, <1>5, <2>1 DEF ClockTypes
<1>7. ReadInv'
  <2> SUFFICES ASSUME turns' = 0
               PROVE  /\ elapsed' <= tsc' /\ mark' = millis(tsc' - elapsed')
                      /\ pc' = "timeout" => (arg' - 1) * clocksPerMilisecond < elapsed'
    BY DEF ReadInv
  <2>0. /\ tsc \in Nat /\ Mod \in Nat /\ elapsed \in Nat /\ tsc < Mod
        /\ Mod <= Forever /\ Forever \in Nat
    BY ClockNumbers, Widths, ForeverLong DEF ClockInv
  <2>1. tsc + d < Mod /\ tsc' = tsc + d /\ turns = 0
    BY <1>2, <1>3, <2>0
  <2>2. elapsed <= tsc /\ mark = millis(tsc - elapsed)
    BY <1>4, <2>1 DEF ClockInv, ReadInv
  <2>3. PICK s \in Nat : s = tsc - elapsed /\ s <= tsc
    BY <2>0, <2>2
  <2>4. elapsed' = elapsed + d
    BY <1>2, <1>3, <2>0, <2>1, <2>2
  <2>5. elapsed' <= tsc' /\ tsc' - elapsed' = s /\ s <= tsc' /\ elapsed' = tsc' - s
    BY <1>2, <2>0, <2>1, <2>2, <2>3, <2>4
  <2>6. ASSUME pc' = "timeout"
        PROVE  (arg - 1) * clocksPerMilisecond < elapsed'
    <3>1. s \in Times
      BY <2>0, <2>3, Widths DEF Times
    <3>2. /\ millis(s) \in Nat /\ millis(tsc') \in Nat /\ millis(tsc') < Mod
          /\ clocksPerMilisecond * millis(tsc') <= tsc'
          /\ s < clocksPerMilisecond * millis(s) + clocksPerMilisecond
          /\ millis(s) <= millis(tsc')
      <4>1. millis(s) \in Times /\ millis(tsc') \in Times
        BY <1>3, <3>1, Milliseconds
      <4>2. millis(s) \in Nat /\ millis(tsc') \in Nat /\ millis(tsc') < Mod
        BY <4>1, Widths DEF Times
      <4> QED BY <1>3, <2>5, <3>1, <4>2, Milliseconds, LaterMilliseconds
    <3>3. /\ arg \in Nat /\ clocksPerMilisecond \in Nat /\ elapsed' \in Nat /\ tsc' \in Nat
      BY <1>2, <2>0, <2>1, <2>4, ClockNumbers, ClockAssumption DEF ClockInv
    <3>4. ~ (millis(tsc') - millis(s)) % Mod < arg
      BY <1>4, <2>2, <2>3, <2>6
    <3>5. PICK c \in Nat, p \in Nat, q \in Nat, t \in Nat, a \in Nat, m \in Nat \ {0} :
            /\ c = clocksPerMilisecond /\ p = millis(s) /\ q = millis(tsc')
            /\ t = tsc' /\ a = arg /\ m = Mod
      BY <3>2, <3>3, Widths
    <3>6. p <= q /\ q < m /\ c * q <= t /\ s < c * p + c
      BY <3>2, <3>5
    <3>7. (q - p) % m = q - p
      <4>1. q - p \in Int /\ - m <= q - p /\ q - p < m + m /\ ~ q - p < 0 /\ q - p < m
        BY <3>6
      <4> QED BY <4>1, RemainderNear
    <3>8. a <= q - p
      <4>1. ~ (q - p) < a
        BY <3>4, <3>5, <3>7
      <4> QED BY <4>1
    <3>9. (a - 1) * c < t - s
      <4>1. a * c <= (q - p) * c
        BY <3>6, <3>8
      <4>2. (q - p) * c = c * q - c * p /\ (a - 1) * c = a * c - c
        OBVIOUS
      <4> QED BY <3>6, <4>1, <4>2
    <3> QED BY <2>5, <3>5, <3>9
  <2> QED BY <1>4, <2>2, <2>3, <2>5, <2>6
<1> QED BY <1>5, <1>6, <1>7, Elsewhere DEF ClockInv

-----------------------------------------------------------------------------
\* OVERFLOW_MILLIS is more than the counter can show, by less than one.
LEMMA Overflow ==
  /\ OVERFLOW_MILLIS \in Nat \ {0}
  /\ Mod <= clocksPerMilisecond * OVERFLOW_MILLIS
  /\ clocksPerMilisecond * OVERFLOW_MILLIS < Mod + clocksPerMilisecond
  /\ \A t \in Times : millis(t) < OVERFLOW_MILLIS
<1>1. PICK c \in Nat \ {0}, m \in Nat \ {0} : c = clocksPerMilisecond /\ m = Mod
  BY ClockAssumption, Widths
<1>2. PICK o \in Int, r \in 0 .. c - 1 : o = (m + c - 1) \div c /\ m + c - 1 = c * o + r
  <2>1. m + c - 1 \in Int
    OBVIOUS
  <2> QED BY <2>1, Quotient
<1>3. OVERFLOW_MILLIS = o
  BY <1>1, <1>2, ClockAssumption
<1>4. m <= c * o /\ c * o < m + c
  BY <1>2
<1>5. o \in Nat \ {0}
  <2>1. ASSUME o <= 0 PROVE FALSE
    <3>1. c * o <= 0
      BY <2>1
    <3> QED BY <1>4, <3>1
  <2> QED BY <2>1
<1>6. ASSUME NEW t \in Times PROVE millis(t) < o
  <2>1. PICK q \in Nat : q = millis(t)
    BY Milliseconds, Widths DEF Times
  <2>2. c * q < m
    BY <1>1, <2>1, Milliseconds, Widths DEF Times
  <2>3. ASSUME o <= q PROVE FALSE
    <3>1. c * o <= c * q
      BY <1>5, <2>3
    <3> QED BY <1>4, <2>2, <3>1
  <2>4. q < o
    BY <1>5, <2>3
  <2> QED BY <2>1, <2>4
<1> QED BY <1>1, <1>3, <1>4, <1>5, <1>6

LEMMA FirstMillisClock ==
  ASSUME ClockInv, FirstMillis
  PROVE  ClockInv'
<1>1. /\ pc = "start" /\ pc' = "millis" /\ mark' = millis(tsc) /\ tot' = 0
      /\ tsc' = tsc /\ arg' = arg /\ elapsed' = elapsed /\ turns' = turns
  BY DEF FirstMillis
<1>2. tsc \in Times /\ arg \in Times /\ elapsed = 0 /\ turns = 0
  BY <1>1 DEF ClockInv, ClockTypes
<1>3. millis(tsc) \in Times /\ 0 \in Times
  BY <1>2, Milliseconds, Widths DEF Times
<1>4. elapsed' \in 0 .. Forever /\ turns' \in 0 .. MaxTurns + 1
  BY <1>1, <1>2, ForeverLong, Widths
<1>5. ClockTypes'
  BY <1>1, <1>2, <1>3, <1>4 DEF ClockTypes
<1>6. MillisInv'
  <2>1. /\ 0 = 0 * Mod + tsc - tsc
        /\ 0 = 0 * OVERFLOW_MILLIS + millis(tsc) - millis(tsc)
    <3>1. tsc \in Nat /\ millis(tsc) \in Nat
      BY <1>2, <1>3, Widths DEF Times
    <3>2. PICK s \in Nat, p \in Nat, m \in Nat, o \in Nat :
            s = tsc /\ p = millis(tsc) /\ m = Mod /\ o = OVERFLOW_MILLIS
      BY <3>1, Widths, Overflow
    <3>3. 0 = 0 * m + s - s /\ 0 = 0 * o + p - p
      OBVIOUS
    <3> QED BY <3>2, <3>3, Zenon
  <2>2. turns' <= MaxTurns /\ mark' = millis(tsc')
    BY <1>1, <1>2, Widths
  <2>3. /\ elapsed' = turns' * Mod + tsc' - tsc
        /\ tot' = turns' * OVERFLOW_MILLIS + mark' - millis(tsc)
    BY <1>1, <1>2, <2>1, Zenon
  <2> QED BY <1>2, <2>2, <2>3 DEF MillisInv
<1> QED BY <1>1, <1>5, <1>6, Elsewhere DEF ClockInv

\* One more roll-over adds one more OVERFLOW_MILLIS, and nothing wraps in
\* totMillis before MaxTurns of them.
LEMMA MyMillisClock ==
  ASSUME ClockInv, myMillis
  PROVE  ClockInv'
<1>1. PICK d \in 1 .. Mod - clocksPerMilisecond : Passes(d)
  BY DEF myMillis
<1>2. /\ pc = "millis" /\ pc' = "millis" /\ arg' = arg /\ turns < MaxTurns
      /\ mark' = millis(tsc') /\ tot' = AddMillis(millis(tsc'))
  BY DEF myMillis
<1>3. PICK first \in Times :
        /\ elapsed = turns * Mod + tsc - first
        /\ tot = turns * OVERFLOW_MILLIS + mark - millis(first)
  BY <1>2 DEF ClockInv, MillisInv
<1>4. mark = millis(tsc)
  BY <1>2 DEF ClockInv, MillisInv
<1>5. d \in 1 .. Mod /\ d \in Nat /\ d + clocksPerMilisecond <= Mod
  BY <1>1, ClockAssumption, Widths
<1>6. /\ tsc' \in Times /\ elapsed' \in 0 .. Forever /\ turns' \in 0 .. MaxTurns + 1
      /\ tsc + d < Mod => tsc' = tsc + d /\ turns' = turns
      /\ Mod <= tsc + d => tsc' = tsc + d - Mod
      /\ Mod <= tsc + d => (turns <= MaxTurns => turns' = turns + 1)
      /\ elapsed + d <= Forever => elapsed' = elapsed + d
  BY <1>1, <1>5, Passing DEF ClockInv
<1>7. /\ millis(tsc') \in Nat /\ millis(first) \in Nat /\ first \in Nat /\ tsc' \in Nat
      /\ millis(tsc') < OVERFLOW_MILLIS /\ millis(first) < OVERFLOW_MILLIS
      /\ mark < OVERFLOW_MILLIS
  <2>1. tsc \in Times
    BY DEF ClockInv, ClockTypes
  <2>2. millis(tsc') \in Times /\ millis(first) \in Times
    BY <1>6, Milliseconds
  <2>3. \A t \in Times : t \in Nat
    BY Widths DEF Times
  <2> QED BY <1>4, <1>6, <2>1, <2>2, <2>3, Overflow
<1>8. PICK m \in Nat \ {0}, o \in Nat \ {0}, n \in Nat, t \in Nat, k \in Nat,
           e \in Nat, s \in Nat :
        /\ m = Mod /\ o = OVERFLOW_MILLIS /\ n = MaxTurns /\ t = tsc /\ k = turns
        /\ e = elapsed /\ s = tot
  BY Widths, Overflow, ClockNumbers DEF ClockInv
<1>9. PICK q \in Nat, p \in Nat, f \in Nat, r \in Nat, u \in Nat, c \in Nat :
        /\ q = millis(tsc') /\ p = mark /\ f = first /\ r = millis(first) /\ u = tsc'
        /\ c = clocksPerMilisecond
  <2>1. mark \in Nat
    BY ClockNumbers DEF ClockInv
  <2>2. clocksPerMilisecond \in Nat
    BY ClockAssumption
  <2> QED BY <1>7, <2>1, <2>2
<1>a. /\ q < o /\ p < o /\ r < o /\ k < n /\ t < m /\ d + c <= m
      /\ e = k * m + t - f /\ s = k * o + p - r
  BY <1>2, <1>3, <1>5, <1>7, <1>8, <1>9, ClockNumbers DEF ClockInv
<1>b. /\ (k + 1) * m = k * m + m /\ (k + 1) * o = k * o + o
      /\ (k + 1) * m <= n * m /\ (n + 1) * m = n * m + m
      /\ (k + 1) * o <= n * o /\ (n + 2) * o = n * o + o + o
      /\ k * m \in Nat /\ k * o \in Nat /\ n * m \in Nat /\ n * o \in Nat
  <2>1. k + 1 <= n
    BY <1>a
  <2>2. (k + 1) * m <= n * m /\ (k + 1) * o <= n * o
    BY <2>1
  <2> QED BY <2>2
<1>c. n * o + o + o < m
  BY <1>8, <1>b, ClockAssumption
<1>d. elapsed' = e + d
  <2>1. e + d <= (n + 1) * m
    BY <1>a, <1>b, <1>5
  <2> QED BY <1>6, <1>8, <2>1 DEF Forever
<1>e. AddMillis(q) = (s + (IF q < p THEN o ELSE 0) + ((q - p) % m)) % m
  BY <1>8, <1>9 DEF AddMillis
<1>f. \/ tsc' = t + d /\ turns' = k /\ elapsed' = k * m + u - f
           /\ AddMillis(q) = k * o + q - r /\ AddMillis(q) \in 0 .. m - 1
      \/ tsc' = t + d - m /\ turns' = k + 1 /\ elapsed' = (k + 1) * m + u - f
           /\ AddMillis(q) = (k + 1) * o + q - r /\ AddMillis(q) \in 0 .. m - 1
  <2>1. CASE t + d < m
    <3>1. tsc' = t + d /\ turns' = k /\ u = t + d
      BY <1>6, <1>8, <1>9, <2>1
    <3>2. p <= q
      <4>1. tsc \in Times
        BY DEF ClockInv, ClockTypes
      <4>2. t <= t + d
        BY <1>5
      <4>3. tsc <= tsc'
        BY <1>8, <3>1, <4>2
      <4> QED BY <1>4, <1>6, <1>9, <4>1, <4>3, LaterMilliseconds
    <3>3. (q - p) % m = q - p
      <4>1. q - p \in Int /\ - m <= q - p /\ q - p < m + m /\ ~ q - p < 0 /\ q - p < m
        BY <1>a, <1>b, <1>c, <3>2
      <4> QED BY <4>1, RemainderNear
    <3>4. PICK v \in Int : v = s + (q - p)
      OBVIOUS
    <3>5. v \in 0 .. m - 1 /\ v = k * o + q - r
      BY <1>a, <1>b, <1>c, <3>2, <3>4
    <3>6. v % m = v
      <4>1. - m <= v /\ v < m + m /\ ~ v < 0 /\ v < m
        BY <3>5
      <4> QED BY <4>1, RemainderNear
    <3>7. AddMillis(q) = v
      <4>1. ~ q < p /\ s + 0 + (q - p) = v
        BY <3>2, <3>4
      <4> QED BY <1>e, <3>3, <3>6, <4>1
    <3>8. e + d = k * m + u - f
      BY <1>5, <1>a, <1>b, <3>1
    <3> QED BY <1>d, <3>1, <3>5, <3>7, <3>8
  <2>2. CASE m <= t + d
    <3>1. tsc' = t + d - m /\ turns' = k + 1 /\ u = t + d - m
      BY <1>6, <1>8, <1>9, <1>a, <2>2
    <3>2. q < p
      <4>1. tsc \in Times
        BY DEF ClockInv, ClockTypes
      <4>2. u + c <= t
        BY <1>5, <1>a, <3>1
      <4>3. tsc' + clocksPerMilisecond <= tsc
        BY <1>8, <1>9, <4>2
      <4> QED BY <1>4, <1>6, <1>9, <4>1, <4>3, LaterMilliseconds
    <3>3. (q - p) % m = q - p + m
      <4>1. q - p \in Int /\ - m <= q - p /\ q - p < m + m /\ q - p < 0
        BY <1>a, <1>b, <1>c, <3>2
      <4> QED BY <4>1, RemainderNear
    <3>4. PICK v \in Int : v = s + o + (q - p)
      OBVIOUS
    <3>5. v \in 0 .. m - 1 /\ v = (k + 1) * o + q - r
      <4>1. v = (k * o + o) + q - r
        BY <1>a, <1>b, <3>4
      <4>2. 0 <= v
        BY <1>a, <1>b, <3>4
      <4>3. v < m
        BY <1>a, <1>b, <1>c, <4>1
      <4> QED BY <1>b, <4>1, <4>2, <4>3
    <3>6. (v + m) % m = v
      <4>1. - m <= v + m /\ v + m < m + m /\ ~ v + m < 0 /\ ~ v + m < m /\ v + m - m = v
            /\ v + m \in Int
        BY <3>5
      <4> QED BY <4>1, RemainderNear
    <3>7. AddMillis(q) = v
      <4>1. s + o + (q - p + m) = v + m
        BY <3>4
      <4> QED BY <1>e, <3>2, <3>3, <3>6, <4>1
    <3>8. e + d = (k + 1) * m + u - f
      BY <1>5, <1>a, <1>b, <3>1
    <3> QED BY <1>d, <3>1, <3>5, <3>7, <3>8
  <2> QED BY <1>5, <2>1, <2>2
<1>g. tot' = AddMillis(q) /\ mark' = q /\ tot' \in 0 .. m - 1
  BY <1>2, <1>9, <1>f
<1>10. ClockTypes'
  <2>1. arg' \in Times
    BY <1>2 DEF ClockInv, ClockTypes
  <2>2. tot' \in Times
    BY <1>8, <1>g DEF Times
  <2>3. mark' \in Times
    BY <1>2, <1>6, Milliseconds
  <2> QED BY <1>2, <1>6, <2>1, <2>2, <2>3 DEF ClockTypes
<1>11. MillisInv'
  <2>1. /\ elapsed' = turns' * Mod + tsc' - first
        /\ tot' = turns' * OVERFLOW_MILLIS + mark' - millis(first)
    BY <1>8, <1>9, <1>f, <1>g, Zenon
  <2>2. turns' <= MaxTurns
    BY <1>8, <1>a, <1>f
  <2> QED BY <1>2, <2>1, <2>2 DEF MillisInv
<1> QED BY <1>2, <1>10, <1>11, Elsewhere DEF ClockInv

-----------------------------------------------------------------------------
LEMMA DividersPositive ==
  ASSUME NEW i \in 1 .. Len(Dividers)
  PROVE  /\ Dividers[i] \in Nat \ {0} /\ Dividers[i] <= clocksPerMilisecond
         /\ clocksPerMilisecond \in Nat \ {0}
<1>1. clocksPerMilisecond \in Nat \ {0} /\ Dividers \in Seq(1 .. clocksPerMilisecond)
  BY ClockAssumption, Widths
<1>2. Dividers[i] \in 1 .. clocksPerMilisecond
  BY <1>1
<1> QED BY <1>1, <1>2

\* The cycles of the timer in a period: never more than those of the processor.
Cycles(ms, i) == ms * (clocksPerMilisecond \div Dividers[i])

LEMMA CyclesLess ==
  ASSUME NEW ms \in Nat, NEW i \in 1 .. Len(Dividers)
  PROVE  /\ Cycles(ms, i) \in Nat /\ Cycles(ms, i) <= ms * clocksPerMilisecond
         /\ ms # 0 => Cycles(ms, i) # 0
         /\ ms = 0 => Cycles(ms, i) = 0
         /\ (clocksPerMilisecond \div Dividers[i]) * ms = Cycles(ms, i)
<1>1. PICK c \in Nat \ {0}, d \in Nat \ {0} :
        c = clocksPerMilisecond /\ d = Dividers[i] /\ d <= c
  BY DividersPositive
<1>2. PICK q \in Int : \E r \in 0 .. d - 1 : q = c \div d /\ c = d * q + r
  <2>1. c \in Int
    OBVIOUS
  <2> QED BY <2>1, Division
<1>3. ~ q <= 0
  <2> SUFFICES ASSUME q <= 0 PROVE FALSE
    OBVIOUS
  <2>1. d * q <= 0
    OBVIOUS
  <2> QED BY <1>1, <1>2, <2>1
<1>4. ~ c < q
  <2> SUFFICES ASSUME c < q PROVE FALSE
    OBVIOUS
  <2>1. q <= d * q
    BY <1>3
  <2> QED BY <1>2, <2>1
<1>5. /\ ms * q \in Nat /\ ms * q <= ms * c /\ q * ms = ms * q
      /\ ms # 0 => ms * q # 0
      /\ ms = 0 => ms * q = 0
  BY <1>3, <1>4
<1>6. Cycles(ms, i) = ms * q /\ (c \div Dividers[i]) * ms = q * ms
  BY <1>1, <1>2 DEF Cycles
<1> QED BY <1>1, <1>5, <1>6

\* A coarser prescaler never takes more cycles.
LEMMA CyclesFewer ==
  ASSUME NEW ms \in Nat, NEW i \in 1 .. Len(Dividers), NEW j \in 1 .. Len(Dividers),
         i <= j
  PROVE  Cycles(ms, j) <= Cycles(ms, i)
<1>1. PICK c \in Nat \ {0}, d \in Nat \ {0}, e \in Nat \ {0} :
        c = clocksPerMilisecond /\ d = Dividers[i] /\ e = Dividers[j] /\ d <= e
  <2>1. Dividers[i] <= Dividers[j]
    BY ClockAssumption
  <2> QED BY <2>1, DividersPositive
<1>0. c \in Int
  OBVIOUS
<1>2. PICK p \in Int : \E r \in 0 .. d - 1 : p = c \div d /\ c = d * p + r
  BY <1>0, Division
<1>3. PICK q \in Int : \E s \in 0 .. e - 1 : q = c \div e /\ c = e * q + s
  BY <1>0, Division
<1>4. ~ q <= -1
  <2> SUFFICES ASSUME q <= -1 PROVE FALSE
    OBVIOUS
  <2>1. e * q <= - e
    OBVIOUS
  <2> QED BY <1>3, <2>1
<1>5. q <= p
  <2> SUFFICES ASSUME p + 1 <= q PROVE FALSE
    OBVIOUS
  <2>1. d * (p + 1) <= d * q
    OBVIOUS
  <2>3. d * q <= e * q
    <3>1. d <= e /\ q \in Nat
      BY <1>1, <1>4
    <3> QED BY <3>1
  <2>2. d * (p + 1) = d * p + d
    OBVIOUS
  <2>4. c < d * p + d
    BY <1>2
  <2>5. e * q <= c
    BY <1>3
  <2> QED BY <2>1, <2>2, <2>3, <2>4, <2>5
<1>6. ms * q <= ms * p
  BY <1>4, <1>5
<1> QED BY <1>1, <1>2, <1>3, <1>6 DEF Cycles

\* While the cycles fit into a word, nothing wraps but no cycle at all.
LEMMA CompareRight ==
  ASSUME NEW ms \in Nat, NEW i \in 1 .. Len(Dividers), ms * clocksPerMilisecond < Mod
  PROVE  /\ Cycles(ms, i) < Mod
         /\ Compare(ms, i) = IF Cycles(ms, i) = 0 THEN Mod - 1 ELSE Cycles(ms, i) - 1
<1>1. PICK x \in Nat, m \in Nat \ {0} : x = Cycles(ms, i) /\ m = Mod
  BY CyclesLess, Widths
<1>2. x < m
  <2>1. ms * clocksPerMilisecond \in Nat
    BY ClockAssumption
  <2> QED BY <1>1, <2>1, CyclesLess
<1>3. (x - 1) % m = IF x = 0 THEN m - 1 ELSE x - 1
  <2>1. x - 1 \in Int /\ - m <= x - 1 /\ x - 1 < m + m /\ x - 1 < m
    BY <1>2
  <2>2. x = 0 => x - 1 < 0 /\ x - 1 + m = m - 1
    OBVIOUS
  <2>3. x # 0 => ~ x - 1 < 0
    OBVIOUS
  <2> QED BY <2>1, <2>2, <2>3, RemainderNear
<1> QED BY <1>1, <1>2, <1>3, CyclesLess DEF Compare

LEMMA SetPeriodClock ==
  ASSUME ClockInv, NEW ms \in 0 .. Mod - 1, NEW bits \in Sizes,
         setPeriodMilliseconds(ms, bits)
  PROVE  ClockInv'
<1> DEFINE maxvalue == IF 2 ^ bits >= Mod THEN Mod - 1 ELSE 2 ^ bits - 1
           fits == {i \in 1 .. Len(Dividers) : Compare(ms, i) < maxvalue}
           pres == IF fits = {} THEN Len(Dividers)
                   ELSE CHOOSE i \in fits : \A j \in fits : i <= j
           cmp == IF fits = {} THEN 0 ELSE Compare(ms, pres)
<1>0. ms \in Nat /\ ms < Mod /\ bits \in Nat /\ 2 ^ bits \in Int
  <2>1. ms \in Nat /\ ms < Mod /\ bits \in Nat
    BY Widths, ClockAssumption
  <2> QED BY <2>1, SMT
<1>1. /\ pc = "start" /\ arg' = ms /\ size' = bits
      /\ \/ cmp = 0 /\ pc' = "no period" /\ tot' = tot /\ mark' = mark
         \/ cmp # 0 /\ pc' = "period" /\ tot' = pres /\ mark' = cmp
      /\ tsc' = tsc /\ elapsed' = elapsed /\ turns' = turns
  BY DEF setPeriodMilliseconds
<1>2. fits # {} => pres \in fits /\ \A j \in fits : pres <= j
  <2>1. fits \in SUBSET Nat
    OBVIOUS
  <2>2. fits # {} => \E i \in fits : \A j \in fits : i <= j
    BY <2>1, Least
  <2> QED BY <2>2, Zenon
<1>l. Len(Dividers) \in Nat \ {0}
  BY ClockAssumption, Widths
<1>3. pres \in 1 .. Len(Dividers)
  <2>1. CASE fits = {}
    <3>1. Len(Dividers) \in 1 .. Len(Dividers)
      BY <1>l
    <3>2. pres = Len(Dividers)
      BY <2>1, Zenon
    <3> QED BY <3>1, <3>2, Zenon
  <2>2. CASE fits # {}
    <3>1. pres \in fits
      BY <1>2, <2>2, Zenon
    <3> QED BY <3>1
  <2> QED BY <2>1, <2>2
<1>4. \A i \in 1 .. Len(Dividers) : Compare(ms, i) \in 0 .. Mod - 1
  <2> SUFFICES ASSUME NEW i \in 1 .. Len(Dividers)
               PROVE  Compare(ms, i) \in 0 .. Mod - 1
    OBVIOUS
  <2>1. Cycles(ms, i) - 1 \in Int
    BY <1>0, CyclesLess
  <2>2. (Cycles(ms, i) - 1) % Mod \in 0 .. Mod - 1
    BY <2>1, Widths, Quotient
  <2> QED BY <1>0, <2>2, CyclesLess DEF Compare
<1>5. ClockTypes'
  <2>1. pc' = "period" => mark' \in Times /\ tot' \in Times
    <3>1. cmp \in Times
      BY <1>3, <1>4, Widths DEF Times
    <3>2. pres \in Times
      BY <1>3, ClockAssumption, Widths DEF Times
    <3> QED BY <1>1, <3>1, <3>2
  <2>2. pc' = "no period" => mark' \in Times /\ tot' \in Times
    BY <1>1 DEF ClockInv, ClockTypes
  <2>3. tsc' \in Times /\ arg' \in Times
    BY <1>1 DEF ClockInv, ClockTypes, Times
  <2>4. elapsed' \in 0 .. Forever /\ turns' \in 0 .. MaxTurns + 1 /\ pc' # "start"
    BY <1>1 DEF ClockInv, ClockTypes
  <2>5. pc' \in {"period", "no period"}
    BY <1>1
  <2> QED BY <2>1, <2>2, <2>3, <2>4, <2>5 DEF ClockTypes
<1>6. PeriodRight'
  <2> DEFINE Fits(i) == Cycles(ms, i) < Mod /\ Cycles(ms, i) < 2 ^ bits
  <2> SUFFICES ASSUME ms * clocksPerMilisecond < Mod
               PROVE  /\ pc' = "period" =>
                           /\ mark' + 1 = Cycles(ms, tot') /\ Fits(tot')
                           /\ \A i \in 1 .. tot' - 1 : ~ Fits(i)
                      /\ pc' = "no period" =>
                           ms = 0 \/ \A i \in 1 .. Len(Dividers) :
                                        ~ Fits(i) \/ Cycles(ms, i) = 1
    BY <1>1 DEF PeriodRight, Cycles
  <2>1. ASSUME NEW i \in 1 .. Len(Dividers)
        PROVE  /\ i \in fits <=> Fits(i) /\ ms # 0
               /\ ms # 0 => Compare(ms, i) = Cycles(ms, i) - 1
    <3>1. PICK x \in Nat, m \in Nat \ {0}, b \in Int :
            x = Cycles(ms, i) /\ m = Mod /\ b = 2 ^ bits
      BY <1>0, CyclesLess, Widths
    <3>2. x < m /\ Compare(ms, i) = (IF x = 0 THEN m - 1 ELSE x - 1) /\ (x = 0 <=> ms = 0)
      BY <1>0, <3>1, CompareRight, CyclesLess
    <3>3. Compare(ms, i) < (IF b >= m THEN m - 1 ELSE b - 1) <=> x # 0 /\ x < m /\ x < b
      BY <3>2
    <3> QED BY <3>1, <3>2, <3>3
  <2>2. ASSUME pc' = "period"
        PROVE  /\ mark' + 1 = Cycles(ms, tot') /\ Fits(tot')
               /\ \A i \in 1 .. tot' - 1 : ~ Fits(i)
    <3>1. cmp # 0 /\ tot' = pres /\ mark' = cmp
      BY <1>1, <2>2
    <3>2. fits # {} /\ cmp = Compare(ms, pres)
      BY <3>1
    <3>3. Fits(pres) /\ ms # 0 /\ cmp = Cycles(ms, pres) - 1
      BY <1>2, <1>3, <2>1, <3>2
    <3>p. PICK k \in 1 .. Len(Dividers) :
            /\ k \in fits /\ \A j \in fits : k <= j
            /\ tot' = k /\ mark' = Compare(ms, k)
      <4> HIDE DEF pres, cmp, fits
      <4> QED BY <1>2, <1>3, <3>1, <3>2, Zenon
    <3>4. mark' + 1 = Cycles(ms, k)
      <4>1. Cycles(ms, k) \in Nat
        BY <1>0, CyclesLess
      <4>2. mark' = Cycles(ms, k) - 1
        BY <2>1, <3>3, <3>p
      <4> QED BY <4>1, <4>2
    <3>5. ASSUME NEW i \in 1 .. k - 1, Fits(i) PROVE FALSE
      <4>1. i \in 1 .. Len(Dividers) /\ ~ k <= i
        BY <1>l
      <4>2. i \in fits
        BY <2>1, <3>3, <3>5, <4>1, Zenon
      <4> QED BY <3>p, <4>1, <4>2, Zenon
    <3>6. Fits(k)
      BY <2>1, <3>p
    <3> HIDE DEF Fits
    <3> QED BY <3>4, <3>5, <3>6, <3>p, Zenon
  <2>3. ASSUME pc' = "no period", ms # 0, NEW i \in 1 .. Len(Dividers), Fits(i)
        PROVE  Cycles(ms, i) = 1
    <3>1. cmp = 0 /\ i \in fits
      BY <1>1, <2>1, <2>3
    <3>2. pres \in fits /\ pres <= i /\ Compare(ms, pres) = 0
      BY <1>2, <3>1
    <3>p. PICK k \in 1 .. Len(Dividers) : k <= i /\ Compare(ms, k) = 0
      BY <1>3, <3>2, Zenon
    <3>3. Cycles(ms, k) = 1
      <4>1. Cycles(ms, k) \in Nat /\ 0 = Cycles(ms, k) - 1
        BY <1>0, <2>1, <2>3, <3>p, CyclesLess
      <4> QED BY <4>1
    <3>4. Cycles(ms, i) <= 1
      BY <1>0, <3>p, <3>3, CyclesFewer
    <3>5. Cycles(ms, i) \in Nat /\ Cycles(ms, i) # 0
      BY <1>0, <2>3, CyclesLess
    <3> QED BY <3>4, <3>5
  <2> QED BY <2>2, <2>3
<1>7. pc' \in {"period", "no period"}
  BY <1>1
<1> QED BY <1>5, <1>6, <1>7, Elsewhere DEF ClockInv

-----------------------------------------------------------------------------
LEMMA NextClock == ClockInv /\ [Next]_vars => ClockInv'
<1> SUFFICES ASSUME ClockInv, [Next]_vars PROVE ClockInv'
  OBVIOUS
<1>1. CASE \E cycles \in 0 .. Half : delayCycles(cycles)
  BY <1>1, DelayCyclesClock
<1>2. CASE RollOver
  BY <1>2, RollOverClock
<1>3. CASE Wait
  BY <1>3, WaitClock
<1>4. CASE \E timeout \in Timeouts : timedRead(timeout)
  BY <1>4, TimedReadClock
<1>5. CASE ByteRead
  BY <1>5, ByteReadClock
<1>6. CASE NothingRead
  BY <1>6, NothingReadClock
<1>7. CASE FirstMillis
  BY <1>7, FirstMillisClock
<1>8. CASE myMillis
  BY <1>8, MyMillisClock
<1>9. CASE \E ms \in 0 .. Mod - 1, bits \in Sizes : setPeriodMilliseconds(ms, bits)
  BY <1>9, SetPeriodClock
<1>10. CASE UNCHANGED vars
  <2>1. ClockTypes' /\ DelayInv' /\ ReadInv' /\ MillisInv' /\ PeriodRight'
    BY <1>10 DEF vars, ClockInv, ClockTypes, DelayInv, ReadInv, MillisInv, PeriodRight
  <2> QED BY <2>1 DEF ClockInv
<1> QED BY <1>1, <1>2, <1>3, <1>4, <1>5, <1>6, <1>7, <1>8, <1>9, <1>10 DEF Next

THEOREM ClockInvariant == Spec => []ClockInv
BY InitClock, NextClock, PTL DEF Spec

\* delayCycles never returns before its cycles have passed, wherever the
\* counter stands when it is called and however its reads are spaced.
THEOREM NeverEarly == Spec => []DelayNeverEarly
<1>1. ClockInv => DelayNeverEarly
  <2> SUFFICES ASSUME ClockInv, pc = "delayed" PROVE elapsed >= arg
    BY DEF DelayNeverEarly
  <2>1. arg <= elapsed /\ arg \in Nat /\ elapsed \in Nat
    BY ClockNumbers DEF ClockInv, DelayInv
  <2> QED BY <2>1
<1> QED BY <1>1, ClockInvariant, PTL

\* delayCycles returns two reads of its loop late at most, unless its end is
\* so close to the roll-over of the counter that a read may miss it.
THEOREM InTime == Spec => []DelayInTime
<1>1. ClockInv => DelayInTime
  <2>s. SUFFICES ASSUME ClockInv, pc \in {"roll over", "wait", "delayed"},
                         mark + MaxGap < Mod
                  PROVE  elapsed < arg + 2 * MaxGap
    BY DEF DelayInTime
  <2>1. PICK a \in Nat, k \in Nat, e \in Nat, t \in Nat :
          a = arg /\ k = mark /\ e = elapsed /\ t = tsc
    BY <2>s, ClockNumbers DEF ClockInv
  <2>2. PICK m \in Nat, h \in Nat, g \in Nat \ {0} :
          /\ m = Mod /\ h = Half /\ g = MaxGap
          /\ t < m /\ k < m /\ m = h + h /\ 2 * g <= h
    BY <2>s, <2>1, ClockNumbers, Widths DEF ClockInv
  <2>n. t < m /\ k < m /\ m = h + h /\ 2 * g <= h
    BY <2>2
  <2>3. k + g < m
    BY <2>s, <2>1, <2>2
  <2>x. e < a + 2 * g => elapsed < arg + 2 * MaxGap
    BY <2>1, <2>2, Zenon
  <2>4. CASE pc = "roll over"
    <3>1. t = k + m - a + e /\ a <= h /\ h <= t
      BY <2>s, <2>1, <2>2, <2>4 DEF ClockInv, DelayInv
    <3>2. e < a + 2 * g
      BY <2>n, <3>1
    <3> QED BY <2>x, <3>2
  <2>5. CASE pc = "wait"
    <3>1. e < a + g \/ m <= k + g
      BY <2>s, <2>1, <2>2, <2>5 DEF ClockInv, DelayInv
    <3>2. e < a + 2 * g
      BY <2>3, <3>1
    <3> QED BY <2>x, <3>2
  <2>6. CASE pc = "delayed"
    <3>1. e < a + 2 * g \/ m <= k + g
      BY <2>s, <2>1, <2>2, <2>6 DEF ClockInv, DelayInv
    <3>2. e < a + 2 * g
      BY <2>3, <3>1
    <3> QED BY <2>x, <3>2
  <2> QED BY <2>s, <2>4, <2>5, <2>6
<1> QED BY <1>1, ClockInvariant, PTL

\* timedRead gives up before its timeout, but for the millisecond it began in,
\* only when the counter rolls over meanwhile.
THEOREM TimeoutEarly == Spec => []TimeoutEarlyOnlyAtRollOver
<1>1. ClockInv => TimeoutEarlyOnlyAtRollOver
  <2> SUFFICES ASSUME ClockInv, pc = "timeout", ~ turns > 0
               PROVE  elapsed > (arg - 1) * clocksPerMilisecond
    BY DEF TimeoutEarlyOnlyAtRollOver
  <2>1. turns = 0
    BY ClockNumbers DEF ClockInv
  <2>2. (arg - 1) * clocksPerMilisecond < elapsed
    BY <2>1 DEF ClockInv, ReadInv
  <2>3. (arg - 1) * clocksPerMilisecond \in Int /\ elapsed \in Int
    BY ClockNumbers, ClockAssumption DEF ClockInv
  <2> QED BY <2>2, <2>3
<1> QED BY <1>1, ClockInvariant, PTL

\* myMillis is never a millisecond behind the true time, and ahead of it by
\* less than one millisecond, and one for each roll-over of the counter.
THEOREM Drift == Spec => []MillisDrift
<1>1. ClockInv => MillisDrift
  <2> SUFFICES ASSUME ClockInv, pc = "millis"
               PROVE  /\ tot * clocksPerMilisecond > elapsed - clocksPerMilisecond
                      /\ tot * clocksPerMilisecond
                           < elapsed + (turns + 1) * clocksPerMilisecond
    BY DEF MillisDrift
  <2>1. PICK first \in Times :
          /\ mark = millis(tsc)
          /\ elapsed = turns * Mod + tsc - first
          /\ tot = turns * OVERFLOW_MILLIS + mark - millis(first)
    BY DEF ClockInv, MillisInv
  <2>2. /\ tsc \in Times /\ millis(first) \in Nat /\ first \in Nat /\ millis(tsc) \in Nat
    <3>1. tsc \in Times
      BY DEF ClockInv, ClockTypes
    <3> QED BY <3>1, Milliseconds, Widths DEF Times
  <2>3. PICK m \in Nat, o \in Nat, c \in Nat, k \in Nat, t \in Nat :
          /\ m = Mod /\ o = OVERFLOW_MILLIS /\ c = clocksPerMilisecond
          /\ k = turns /\ t = tsc
    <3>1. Mod \in Nat /\ OVERFLOW_MILLIS \in Nat
      BY Widths, Overflow
    <3>2. clocksPerMilisecond \in Nat
      BY ClockAssumption
    <3>3. turns \in Nat /\ tsc \in Nat
      BY ClockNumbers DEF ClockInv
    <3> QED BY <3>1, <3>2, <3>3
  <2>4. PICK e \in Nat, s \in Nat, p \in Nat, f \in Nat, r \in Nat :
          e = elapsed /\ s = tot /\ p = mark /\ f = first /\ r = millis(first)
    BY <2>2, ClockNumbers DEF ClockInv
  <2>5. /\ e = k * m + t - f /\ s = k * o + p - r
        /\ c * p <= t /\ t < c * p + c /\ c * r <= f /\ f < c * r + c
        /\ m <= c * o /\ c * o < m + c
    BY <2>1, <2>2, <2>3, <2>4, Milliseconds, Overflow
  <2>6. s * c = k * (c * o) + c * p - c * r
    <3>1. s * c = (k * o) * c + p * c - r * c
      BY <2>5
    <3>2. (k * o) * c = k * (c * o) /\ p * c = c * p /\ r * c = c * r
      OBVIOUS
    <3> QED BY <3>1, <3>2
  <2>7. k * m <= k * (c * o) /\ k * (c * o) <= k * m + k * c
    <3>1. PICK w \in Nat : w = c * o
      OBVIOUS
    <3>2. k * m <= k * w /\ k * w <= k * (m + c)
      BY <2>5, <3>1
    <3> QED BY <3>1, <3>2
  <2>8. s * c > e - c /\ s * c < e + (k * c + c)
    BY <2>5, <2>6, <2>7
  <2> QED BY <2>3, <2>4, <2>8
<1> QED BY <1>1, ClockInvariant, PTL

\* The comparisons of MFMMacros.h order all times from the current one on.
THEOREM OrderHolds == Spec => []OrderWithinHalf
<1>1. ClockInv => OrderWithinHalf
  BY Order DEF ClockInv, ClockTypes, OrderWithinHalf
<1> QED BY <1>1, ClockInvariant, PTL

\* setPeriodMilliseconds sets the period it was asked for with the finest
\* prescaler that does, and refuses none that can be set but a single cycle.
THEOREM Period == Spec => []PeriodRight
<1>1. ClockInv => PeriodRight
  BY DEF ClockInv
<1> QED BY <1>1, ClockInvariant, PTL
=============================================================================
