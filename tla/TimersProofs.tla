---------------------------- MODULE TimersProofs ----------------------------
(***************************************************************************)
(* Proofs about Timers, for every set of callbacks, when the uses do not   *)
(* overlap.                                                                *)
(***************************************************************************)
EXTENDS MCTimers, TLAPS

-----------------------------------------------------------------------------
(***************************************************************************)
(* Types, also when uses overlap.  After the first call there is a timer.  *)
(***************************************************************************)
Typed == TypeOK /\ (tmr = None => pc = "idle" /\ intr = None)

LEMMA InitTyped == Init => Typed
BY DEF Init, Typed, TypeOK, Timer, None, Kinds

LEMMA CallbackTyped ==
  ASSUME TypeOK, NEW b \in BOOLEAN, CalledBack(b)
  PROVE  called' \in Calls \cup {NULL}
<1>1. Callback \in Callbacks \cup {NULL}
  BY DEF TypeOK, Callback
<1> DEFINE r == [fn |-> Callback, goesOn |-> b]
<1>2. Callback \in Callbacks => r \in Calls
  BY DEF Calls
<1>3. called' = IF Callback = NULL THEN NULL ELSE r
  BY DEF CalledBack
<1> QED BY <1>1, <1>2, <1>3, Zenon

LEMMA NextTyped == Typed /\ [Next]_vars => Typed'
<1> SUFFICES ASSUME Typed, [Next]_vars PROVE Typed'
  OBVIOUS
<1> USE DEF Typed, TypeOK, Timer, None, At, device, table, locals
<1>0. ASSUME NEW b \in BOOLEAN, CalledBack(b) PROVE called' \in Calls \cup {NULL}
  BY <1>0, CallbackTyped, Zenon
<1>1. ASSUME NEW k \in Kinds, NEW c \in Callbacks, NoFreeTimer(k, c) PROVE Typed'
  BY <1>1 DEF NoFreeTimer
<1>2. ASSUME NEW k \in Kinds, NEW c \in Callbacks, GetFreeTimer(k, c) PROVE Typed'
  BY <1>2 DEF GetFreeTimer
<1>3. CASE Cancel
  BY <1>3 DEF Cancel
<1>4. CASE LockTimer
  BY <1>4 DEF LockTimer
<1>5. CASE NameTimer
  BY <1>5 DEF NameTimer
<1>6. CASE AttachFunc
  BY <1>6 DEF AttachFunc
<1>7. CASE AttachFails
  BY <1>7 DEF AttachFails
<1>8. CASE ReadMask
  BY <1>8 DEF ReadMask
<1>9. CASE UnmaskLine
  BY <1>9 DEF UnmaskLine
<1>10. CASE SetPeriod
  BY <1>10 DEF SetPeriod
<1>11. CASE PeriodFails
  BY <1>11 DEF PeriodFails
<1>12. CASE SetCallback
  BY <1>12 DEF SetCallback
<1>13. CASE Start
  BY <1>13 DEF Start
<1>14. CASE Sei
  BY <1>14 DEF Sei
<1>15. CASE CancelStop
  BY <1>15 DEF CancelStop
<1>16. CASE CancelLine
  BY <1>16 DEF CancelLine
<1>17. CASE DetachRead
  BY <1>17 DEF DetachRead
<1>18. CASE DetachMask
  BY <1>18 DEF DetachMask
<1>19. CASE DetachFunc
  BY <1>19 DEF DetachFunc
<1>20. CASE ReleaseRead
  BY <1>20 DEF ReleaseRead
<1>21. CASE Release
  BY <1>21 DEF Release
<1>22. CASE Forget
  BY <1>22 DEF Forget
<1>23. ASSUME NEW t \in Timer, GoesOn(t) PROVE Typed'
  BY <1>23, <1>0 DEF GoesOn, Detached
<1>24. ASSUME NEW t \in Timer, Ends(t) PROVE Typed'
  BY <1>24, <1>0 DEF Ends, Detached
<1>25. ASSUME NEW t \in Timer, Expires(t) PROVE Typed'
  BY <1>25, <1>0 DEF Expires, Detached
<1>26. ASSUME NEW t \in Timer, Compare(t) PROVE Typed'
  BY <1>26 DEF Compare, Detached, Callback
<1>27. CASE UNCHANGED vars
  BY <1>27, Zenon DEF vars
<1> QED BY <1>1, <1>2, <1>3, <1>4, <1>5, <1>6, <1>7, <1>8, <1>9, <1>10, <1>11,
   <1>12, <1>13, <1>14, <1>15, <1>16, <1>17, <1>18, <1>19, <1>20, <1>21, <1>22,
   <1>23, <1>24, <1>25, <1>26, <1>27 DEF Next, Sketch, Call, Interrupt

\* The variables of Timers have their types, whether or not uses overlap.
THEOREM TypeCorrect == Spec => []TypeOK
<1>1. Typed => TypeOK
  BY DEF Typed
<1> QED BY <1>1, InitTyped, NextTyped, PTL DEF Spec

-----------------------------------------------------------------------------
NothingAttached == \A t \in Timer : func[t] = NULL

(***************************************************************************)
(* Only the timer that the last call got is attached or unmasked, it is    *)
(* locked, and m_intrTimer names it.  Timer 0 was given away first: it is  *)
(* never handed out after timer 1.                                         *)
(***************************************************************************)
LastOnly ==
  /\ intr \in {None, tmr}
  /\ \A t \in Timer : func[t] # NULL => intr = t /\ t \in lock
  /\ \A t \in mask : func[t] # NULL
  /\ tmr = 1 => 0 \in lock
  /\ tmr = None => pc = "idle"

\* Where a call of periodic() or singleShot() is, and what it has done so far.
Attaching ==
  /\ pc \in {"lock", "name", "attach"} => NothingAttached
  /\ pc \in {"lock", "name"} => intr = None
  /\ pc = "lock" => seen = lock
  /\ pc \in {"name", "attach"} => tmr \in lock
  /\ pc \in {"attach", "read mask", "unmask"} => intr = tmr
  /\ pc \in {"read mask", "unmask"} => mask = {} /\ func[tmr] # NULL
  /\ pc = "unmask" => seen = {}

\* The same for cancel() and the calls that fail.
Detaching ==
  /\ pc \in {"detach", "mask", "clear"} =>
       idx \in Timer /\ \A t \in Timer : func[t] # NULL => t = idx
  /\ pc = "mask" => seen \subseteq {idx}
  /\ pc = "clear" => mask = {}
  /\ pc \in {"release", "unlock", "forget"} => NothingAttached
  /\ pc = "unlock" => seen = lock /\ idx \in {None, tmr}

(***************************************************************************)
(* While the calls have got timer 0, it runs exactly between the start of  *)
(* a call and the stop of the next cancel(), or its handler's, and then    *)
(* its interrupt reaches the function asked for.                           *)
(***************************************************************************)
InForceStates == {"idle", "stop", "sei"}

TimerZero ==
  tmr # 1 =>
    /\ run \subseteq {0} /\ flag \subseteq run
    /\ pc \notin InForceStates \/ intr = None => run = {}
    /\ pc \in InForceStates /\ intr = 0 =>
         run = {0} /\ 0 \in mask /\ cb[0] \in Callbacks
    /\ pc \in {"idle", "stop"} /\ intr = 0 => enabled
    /\ pc \in {"period", "callback", "start"} => intr = 0 /\ 0 \in mask
    /\ pc \in {"read mask", "unmask", "period", "callback", "start"} => func[0] = kind
    /\ Asking => fn \in Callbacks
    /\ pc = "start" => cb[0] = fn

IInv == LastOnly /\ Attaching /\ Detaching /\ TimerZero
-----------------------------------------------------------------------------
LEMMA Handlers == "periodic" # NULL /\ "single" # NULL /\ 0 # None /\ 1 # None /\ 0 # 1
BY TimersAssumption DEF Kinds, None

LEMMA InitIInv == Init => IInv
<1> SUFFICES ASSUME Init PROVE IInv
  OBVIOUS
<1> USE TimersAssumption DEF Init, Timer, None
<1>1. LastOnly /\ Attaching /\ Detaching
  BY DEF LastOnly, Attaching, Detaching
<1>2. TimerZero
  BY DEF TimerZero, InForceStates, Asking
<1> QED BY <1>1, <1>2 DEF IInv

LEMMA NextIInv == ~Overlap /\ TypeOK /\ IInv /\ [Next]_vars => IInv'
<1> SUFFICES ASSUME ~Overlap, TypeOK, IInv, [Next]_vars PROVE IInv'
  OBVIOUS
<1> USE TimersAssumption DEF IInv, TypeOK, LastOnly, Attaching, Detaching,
   TimerZero,
  NothingAttached, InForceStates, Asking, Timer, Kinds, None, At, Due,
  device, table, locals
<1>1. ASSUME NEW k \in Kinds, NEW c \in Callbacks, NoFreeTimer(k, c) PROVE IInv'
  BY <1>1 DEF NoFreeTimer
<1>2. ASSUME NEW k \in Kinds, NEW c \in Callbacks, GetFreeTimer(k, c) PROVE IInv'
  BY <1>2 DEF GetFreeTimer
<1>3. CASE Cancel
  BY <1>3 DEF Cancel, Registers
<1>4. CASE LockTimer
  BY <1>4 DEF LockTimer, Registers
<1>5. CASE NameTimer
  BY <1>5 DEF NameTimer, Registers
<1>6. CASE AttachFunc
  BY <1>6 DEF AttachFunc, Registers
<1>7. CASE AttachFails
  BY <1>7 DEF AttachFails, Registers
<1>8. CASE ReadMask
  BY <1>8 DEF ReadMask, Registers
<1>9. CASE UnmaskLine
  BY <1>9 DEF UnmaskLine, Registers
<1>10. CASE SetPeriod
  BY <1>10 DEF SetPeriod, Registers
<1>11. CASE PeriodFails
  BY <1>11 DEF PeriodFails, Registers
<1>12. CASE SetCallback
  BY <1>12 DEF SetCallback, Registers
<1>13. CASE Start
  BY <1>13 DEF Start, Registers
<1>14. CASE Sei
  BY <1>14 DEF Sei, Registers
<1>15. CASE CancelStop
  BY <1>15 DEF CancelStop, Registers
<1>16. CASE CancelLine
  BY <1>16 DEF CancelLine, Registers
<1>17. CASE DetachRead
  BY <1>17 DEF DetachRead, Registers
<1>18. CASE DetachMask
  BY <1>18 DEF DetachMask, Registers
<1>19. CASE DetachFunc
  BY <1>19 DEF DetachFunc, Registers
<1>20. CASE ReleaseRead
  BY <1>20 DEF ReleaseRead, Registers
<1>21. CASE Release
  BY <1>21 DEF Release, Registers
<1>22. CASE Forget
  BY <1>22 DEF Forget, Registers
<1>23. ASSUME NEW t \in Timer, GoesOn(t) PROVE IInv'
  <2>1. LastOnly'
    BY <1>23 DEF GoesOn, Registers, Detached
  <2>2. Attaching'
    BY <1>23 DEF GoesOn, Registers, Detached
  <2>3. Detaching'
    BY <1>23 DEF GoesOn, Registers, Detached
  <2>4. TimerZero'
    BY <1>23 DEF GoesOn, Registers, Detached
  <2> QED BY <2>1, <2>2, <2>3, <2>4
<1>24. ASSUME NEW t \in Timer, Ends(t) PROVE IInv'
  <2>1. LastOnly'
    <3>1. intr = t /\ intr = tmr /\ intr' = None /\ tmr' = tmr /\ pc' = pc
      <4>1. func[t] # NULL /\ t # None
        BY <1>24, Handlers, Zenon DEF Ends
      <4>2. intr' = None /\ tmr' = tmr /\ pc' = pc
        BY <1>24 DEF Ends
      <4>3. intr = t
        BY <4>1
      <4> QED BY <4>1, <4>2, <4>3
    <3>2. \A u \in Timer : func'[u] = NULL
      BY <1>24, <3>1 DEF Ends, Detached
    <3>3. mask' = {}
      BY <1>24, <3>1 DEF Ends, Detached
    <3>4. tmr = 1 => 0 \in lock'
      <4>1. lock' = lock \ {tmr} /\ (tmr = 1 => 0 \in lock)
        BY <1>24, <3>1 DEF Ends
      <4>2. tmr = 1 => 0 \notin {tmr}
        BY Handlers, Zenon
      <4> QED BY <4>1, <4>2, Zenon
    <3> QED BY <3>1, <3>2, <3>3, <3>4
  <2>2. Attaching'
    BY <1>24 DEF Ends, Registers, Detached
  <2>3. Detaching'
    BY <1>24 DEF Ends, Registers, Detached
  <2>4. TimerZero'
    BY <1>24 DEF Ends, Registers, Detached
  <2> QED BY <2>1, <2>2, <2>3, <2>4
<1>25. ASSUME NEW t \in Timer, Expires(t) PROVE IInv'
  <2>1. LastOnly'
    BY <1>25 DEF Expires, Registers, Detached
  <2>2. Attaching'
    BY <1>25 DEF Expires, Registers, Detached
  <2>3. Detaching'
    BY <1>25 DEF Expires, Registers, Detached
  <2>4. TimerZero'
    BY <1>25 DEF Expires, Registers, Detached
  <2> QED BY <2>1, <2>2, <2>3, <2>4
<1>26. ASSUME NEW t \in Timer, Compare(t) PROVE IInv'
  <2>1. LastOnly'
    BY <1>26 DEF Compare, Registers, Detached
  <2>2. Attaching'
    BY <1>26 DEF Compare, Registers, Detached
  <2>3. Detaching'
    BY <1>26 DEF Compare, Registers, Detached
  <2>4. TimerZero'
    BY <1>26 DEF Compare, Registers, Detached
  <2> QED BY <2>1, <2>2, <2>3, <2>4
<1>27. CASE UNCHANGED vars
  <2>1. LastOnly'
    BY <1>27 DEF vars
  <2>2. Attaching'
    BY <1>27 DEF vars
  <2>3. Detaching'
    BY <1>27 DEF vars
  <2>4. TimerZero'
    BY <1>27 DEF vars
  <2> QED BY <2>1, <2>2, <2>3, <2>4
<1> QED BY <1>1, <1>2, <1>3, <1>4, <1>5, <1>6, <1>7, <1>8, <1>9, <1>10, <1>11,
   <1>12, <1>13, <1>14, <1>15, <1>16, <1>17, <1>18, <1>19, <1>20, <1>21, <1>22,
   <1>23, <1>24, <1>25, <1>26, <1>27 DEF Next, Sketch, Call, Interrupt
-----------------------------------------------------------------------------
LEMMA Invariant == ~Overlap => (Spec => [](TypeOK /\ IInv))
<1> SUFFICES ASSUME ~Overlap PROVE Spec => [](TypeOK /\ IInv)
  OBVIOUS
<1>1. TypeOK /\ IInv /\ [Next]_vars => IInv'
  BY NextIInv
<1> QED BY <1>1, InitIInv, TypeCorrect, PTL DEF Spec

\* While the calls have got timer 0, m_intrTimer says between calls that
\* nothing is in force only when nothing runs, is attached or is pending.
THEOREM NothingForgotten == ~Overlap => (Spec => []Quiet)
<1> SUFFICES ASSUME ~Overlap PROVE Spec => []Quiet
  OBVIOUS
<1>1. TypeOK /\ IInv => Quiet
  BY DEF TypeOK, IInv, LastOnly, TimerZero, InForceStates, Quiet, Timer, None
<1> QED BY <1>1, Invariant, PTL

\* A timer whose line is attached is locked: getFreeTimer cannot hand it out.
THEOREM AttachedAreLocked == ~Overlap => (Spec => []AttachedLocked)
<1> SUFFICES ASSUME ~Overlap PROVE Spec => []AttachedLocked
  OBVIOUS
<1>1. IInv => AttachedLocked
  BY DEF IInv, LastOnly, AttachedLocked
<1> QED BY <1>1, Invariant, PTL

\* A timer that a call gets is attached to nothing.
THEOREM GotTimerIsFree == ~Overlap => (Spec => []HandedOutFree)
<1> SUFFICES ASSUME ~Overlap PROVE Spec => []HandedOutFree
  OBVIOUS
<1>1. Typed /\ IInv => HandedOutFree
  BY DEF Typed, TypeOK, IInv, Attaching, NothingAttached, HandedOutFree, Timer
<1>2. Spec => []Typed
  BY InitTyped, NextTyped, PTL DEF Spec
<1> QED BY <1>1, <1>2, Invariant, PTL

-----------------------------------------------------------------------------
(***************************************************************************)
(* Every step is one of AlarmClock.                                        *)
(***************************************************************************)
\* When the background is in the middle of a call, or none is in force on
\* timer 0, it does not run, or m_intrTimer does not name it.
LEMMA NotInForce ==
  ASSUME TypeOK, IInv, pc \notin InForceStates \/ intr # 0
  PROVE  ~InForce
<1> SUFFICES ASSUME intr = 0, pc \notin InForceStates PROVE run = {}
  BY DEF InForce
<1>1. tmr # 1
  BY Handlers, Zenon DEF IInv, LastOnly
<1> QED BY <1>1 DEF IInv, TimerZero

\* An interrupt of timer 0 is due only while it is in force.
LEMMA DueInForce ==
  ASSUME TypeOK, IInv, NEW t \in Due, func[t] # NULL
  PROVE  intr = t /\ tmr = t /\ (t = 0 => InForce /\ cb[0] \in Callbacks)
<1>1. t \in Timer /\ intr = t /\ tmr = t
  <2>1. t \in Timer
    BY DEF TypeOK, Due
  <2>2. intr = t /\ t # None
    BY <2>1, Handlers, Zenon DEF IInv, LastOnly, Timer
  <2> QED BY <2>1, <2>2 DEF IInv, LastOnly
<1>2. t = 0 => 0 \in run /\ pc \in InForceStates
  <2> SUFFICES ASSUME t = 0 PROVE 0 \in run /\ pc \in InForceStates
    OBVIOUS
  <2>1. tmr # 1
    BY <1>1, Handlers, Zenon
  <2>2. 0 \in run
    BY <2>1 DEF IInv, TimerZero, Due
  <2> QED BY <2>1, <2>2 DEF IInv, TimerZero
<1>3. t = 0 => cb[0] \in Callbacks
  <2> SUFFICES ASSUME t = 0 PROVE cb[0] \in Callbacks
    OBVIOUS
  <2>1. tmr # 1 /\ pc \in InForceStates /\ intr = 0
    BY <1>1, <1>2, Handlers, Zenon
  <2> QED BY <2>1, Zenon DEF IInv, TimerZero
<1> QED BY <1>1, <1>2, <1>3 DEF InForce

\* An interrupt that calls back is a ring of the clock if it is of timer 0, and
\* silent if it is of timer 1.
LEMMA RingsOf0 ==
  ASSUME TypeOK, IInv, NEW t \in Due, func[t] # NULL, NEW b \in BOOLEAN, CalledBack(b),
         UNCHANGED <<pc, kind, fn, tmr>>,
         \/ intr' = None /\ (func[t] = "periodic" => ~b)
         \/ func[t] = "periodic" /\ b /\ UNCHANGED <<run, func, intr, cb>>
  PROVE  Clock!Ring(b) \/ Clock!Silent
<1>1. intr = t /\ tmr = t /\ t \in Timer /\ (t = 0 => InForce /\ cb[0] \in Callbacks)
  BY DueInForce DEF TypeOK, Due
<1>2. AskedOf0' = AskedOf0
  BY DEF AskedOf0, Asking
<1>3. CASE t = 0
  <2> DEFINE use == [fn |-> cb[0], repeats |-> (func[0] = "periodic")]
  <2>1. ActiveOn0 = use /\ use # NULL /\ use.fn = cb[0]
        /\ use.repeats = (func[0] = "periodic")
    <3>1. use \in Uses
      BY <1>1, <1>3 DEF Uses
    <3> QED BY <3>1, <1>1, <1>3, TimersAssumption DEF ActiveOn0
  <2>2. CalledBy0' = [fn |-> cb[0], goesOn |-> b]
    <3>1. Callback = cb[0] /\ cb[0] # NULL /\ tmr' = 0
      BY <1>1, <1>3, TimersAssumption, Handlers DEF Callback
    <3> QED BY <3>1 DEF CalledBack, CalledBy0
  <2>3. ActiveOn0' = IF use.repeats /\ b THEN use ELSE NULL
    <3>1. CASE intr' = None /\ (func[t] = "periodic" => ~b)
      BY <3>1, <1>3, Handlers DEF ActiveOn0, InForce
    <3>2. CASE func[t] = "periodic" /\ b /\ UNCHANGED <<run, func, intr, cb>>
      <4>1. InForce' /\ cb'[0] = cb[0] /\ func'[0] = func[0]
        BY <3>2, <1>1, <1>3 DEF InForce
      <4> QED BY <3>2, <4>1, <1>3 DEF ActiveOn0
    <3> QED BY <3>1, <3>2
  <2> HIDE DEF use
  <2>4. Clock!Ring(b)
    BY <2>1, <2>2, <2>3, <1>2 DEF Clock!Ring
  <2> QED BY <2>4
<1>4. CASE t # 0
  <2>1. intr # 0 /\ intr' # 0 /\ tmr' # 0
    BY <1>1, <1>4, Handlers
  <2> QED BY <2>1, <1>2 DEF Clock!Silent, ActiveOn0, CalledBy0, InForce
<1> QED BY <1>3, <1>4

LEMMA NextImplements ==
  ~Overlap /\ TypeOK /\ IInv /\ TypeOK' /\ IInv' /\ Next => Clock!Next
<1> SUFFICES ASSUME ~Overlap, TypeOK, IInv, TypeOK', IInv', Next PROVE Clock!Next
  OBVIOUS
<1> USE DEF Clock!Next, AskedOf0, ActiveOn0, CalledBy0
<1>1. ASSUME NEW k \in Kinds, NEW c \in Callbacks, NoFreeTimer(k, c) PROVE Clock!Silent
  BY <1>1 DEF NoFreeTimer, At, locals, table, device, Clock!Silent, InForce,
     Asking
<1>2. ASSUME NEW k \in Kinds, NEW c \in Callbacks, GetFreeTimer(k, c)
      PROVE Clock!Ask(c, k = "periodic") \/ Clock!Silent
  BY <1>2 DEF GetFreeTimer, At, table, device, Clock!Ask, Clock!Silent,
     InForce, Asking, None
<1>3. CASE LockTimer
  BY <1>3, NotInForce DEF LockTimer, At, locals, table, device, Clock!Silent,
     InForce, Asking, InForceStates, None
<1>4. CASE NameTimer
  <2>1. ~InForce
    BY <1>4, NotInForce DEF NameTimer, At, InForceStates
  <2>2. tmr # 1 => run = {}
    BY <1>4 DEF NameTimer, At, IInv, TimerZero, InForceStates
  <2>3. tmr = 1 => intr' # 0
    BY <1>4, Handlers DEF NameTimer
  <2>4. ~InForce'
    BY <1>4, <2>2, <2>3 DEF NameTimer, device, InForce
  <2> QED BY <1>4, <2>1, <2>4 DEF NameTimer, At, locals, Clock!Silent, Asking
<1>5. CASE AttachFunc
  BY <1>5, NotInForce DEF AttachFunc, At, locals, table, device, Clock!Silent,
     InForce, Asking, InForceStates, None
<1>6. CASE ReadMask
  BY <1>6, NotInForce DEF ReadMask, At, locals, table, device, Clock!Silent,
     InForce, Asking, InForceStates, None
<1>7. CASE UnmaskLine
  BY <1>7, NotInForce DEF UnmaskLine, At, locals, table, device, Clock!Silent,
     InForce, Asking, InForceStates, None
<1>8. CASE SetPeriod
  BY <1>8, NotInForce DEF SetPeriod, At, locals, table, device, Clock!Silent,
     InForce, Asking, InForceStates, None
<1>9. CASE SetCallback
  BY <1>9, NotInForce DEF SetCallback, At, locals, table, device, Clock!Silent,
     InForce, Asking, InForceStates, None
<1>10. CASE Sei
  BY <1>10, NotInForce DEF Sei, At, locals, table, device, Clock!Silent,
     InForce, Asking, InForceStates, None
<1>11. CASE Cancel
  BY <1>11, NotInForce DEF Cancel, At, locals, table, device, Clock!Silent,
     InForce, Asking, InForceStates, None
<1>12. CASE CancelLine
  BY <1>12, NotInForce DEF CancelLine, At, locals, table, device, Clock!Silent,
     InForce, Asking, InForceStates, None
<1>13. CASE DetachRead
  BY <1>13, NotInForce DEF DetachRead, At, locals, table, device, Clock!Silent,
     InForce, Asking, InForceStates, None
<1>14. CASE DetachMask
  BY <1>14, NotInForce DEF DetachMask, At, locals, table, device, Clock!Silent,
     InForce, Asking, InForceStates, None
<1>15. CASE DetachFunc
  BY <1>15, NotInForce DEF DetachFunc, At, locals, table, device, Clock!Silent,
     InForce, Asking, InForceStates, None
<1>16. CASE ReleaseRead
  BY <1>16, NotInForce DEF ReleaseRead, At, locals, table, device,
     Clock!Silent, InForce, Asking, InForceStates, None
<1>17. CASE Release
  BY <1>17, NotInForce DEF Release, At, locals, table, device, Clock!Silent,
     InForce, Asking, InForceStates, None
<1>18. CASE Forget
  BY <1>18, NotInForce DEF Forget, At, locals, table, device, Clock!Silent,
     InForce, Asking, InForceStates, None
<1>19. CASE AttachFails
  BY <1>19, NotInForce DEF AttachFails, At, locals, table, device,
     Clock!Refuse, InForce, Asking, InForceStates
<1>20. CASE PeriodFails
  BY <1>20, NotInForce DEF PeriodFails, At, locals, table, device,
     Clock!Refuse, InForce, Asking, InForceStates
<1>21. CASE Start
  BY <1>21, NotInForce DEF Start, At, locals, table, device, Clock!Grant,
     Clock!Silent, InForce, Asking, InForceStates, IInv, TimerZero, TypeOK,
     LastOnly, Timer, None
<1>22. CASE CancelStop
  BY <1>22, NotInForce DEF CancelStop, At, locals, table, device, Clock!Cancel,
     InForce, Asking, InForceStates, Registers, None
<1>23. ASSUME NEW t \in Timer, GoesOn(t) PROVE Clock!Ring(TRUE) \/ Clock!Silent
  <2>1. t \in Due /\ func[t] = "periodic" /\ CalledBack(TRUE)
        /\ UNCHANGED <<run, func, intr, cb, pc, kind, fn, tmr>>
    BY <1>23 DEF GoesOn, table, locals
  <2> QED BY <2>1, Handlers, RingsOf0 DEF InForce, Asking
<1>24. ASSUME NEW t \in Timer, Ends(t) PROVE Clock!Ring(FALSE) \/ Clock!Silent
  <2>1. t \in Due /\ func[t] = "periodic" /\ CalledBack(FALSE)
        /\ intr' = None /\ UNCHANGED <<pc, kind, fn, tmr>>
    BY <1>24 DEF Ends, locals
  <2> QED BY <2>1, Handlers, RingsOf0 DEF InForce, Asking
<1>25. ASSUME NEW t \in Timer, Expires(t)
       PROVE (\E b \in BOOLEAN : Clock!Ring(b)) \/ Clock!Silent
  <2>1. t \in Due /\ func[t] = "single" /\ (\E b \in BOOLEAN : CalledBack(b))
        /\ intr' = None /\ UNCHANGED <<pc, kind, fn, tmr>>
    BY <1>25 DEF Expires, locals
  <2> QED BY <2>1, Handlers, RingsOf0 DEF InForce, Asking
<1>26. ASSUME NEW t \in Timer, Compare(t) PROVE Clock!Silent
  BY <1>26 DEF Compare, locals, table, Clock!Silent, InForce, Asking
<1> QED BY <1>1, <1>2, <1>3, <1>4, <1>5, <1>6, <1>7, <1>8, <1>9, <1>10, <1>11,
   <1>12, <1>13, <1>14, <1>15, <1>16, <1>17, <1>18, <1>19, <1>20, <1>21, <1>22,
   <1>23, <1>24, <1>25, <1>26 DEF Next, Sketch, Call, Interrupt

(***************************************************************************)
(* A use of timer 0 is an alarm clock: only the function asked for is      *)
(* called, a single shot once, a periodic one until a call of it returns   *)
(* false, and none after a cancel().                                       *)
(***************************************************************************)
THEOREM AlarmClockImplemented == ~Overlap => (Spec => ImplementsAlarmClock)
<1> SUFFICES ASSUME ~Overlap PROVE Spec => ImplementsAlarmClock
  OBVIOUS
<1>1. Init => Clock!Init
  BY DEF Init, Clock!Init, AskedOf0, ActiveOn0, CalledBy0, Asking, InForce, None
<1>2. TypeOK /\ IInv /\ TypeOK' /\ IInv' /\ [Next]_vars =>
        [Clock!Next]_<<AskedOf0, ActiveOn0, CalledBy0>>
  <2>1. UNCHANGED vars => UNCHANGED <<AskedOf0, ActiveOn0, CalledBy0>>
    BY DEF vars, device, table, locals, AskedOf0, ActiveOn0, CalledBy0, Asking,
       InForce
  <2> QED BY <2>1, NextImplements
<1> QED BY <1>1, <1>2, Invariant, PTL DEF Spec, ImplementsAlarmClock, Clock!Spec
=============================================================================
