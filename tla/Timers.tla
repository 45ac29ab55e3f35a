------------------------------- MODULE Timers -------------------------------
(***************************************************************************)
(* Timers_class (Timer.cpp): two hardware timers that call functions of    *)
(* the sketch from their interrupts, and the interrupt table (zpuino.cpp)  *)
(* that leads there.                                                       *)
(*                                                                         *)
(* The sketch calls periodic(), singleShot() and cancel() in the           *)
(* background.  An interrupt is taken before the next instruction of the   *)
(* background, so no background step is possible while one is due, and the *)
(* handler runs to its end with interrupts off: it is one step.  The       *)
(* background has a step for each access to a variable that it shares with *)
(* the handlers, and two for a read-modify-write, except of the register   *)
(* TCTL: a period of 96,000 cycles or more lies between the start of a     *)
(* timer and its first compare.  An interrupt on a line without a handler  *)
(* changes nothing and is no step, but leaves the background none either.  *)
(*                                                                         *)
(* timer(m_intrTimer) is used with m_intrTimer = -1.  m_timers[-1] is the  *)
(* BaseDevice that Timers_class starts with: same size, its base address   *)
(* is the one of timer 0 and its slot and instance are read as an          *)
(* interrupt line that is out of range.                                    *)
(***************************************************************************)
EXTENDS Integers, FiniteSets

CONSTANTS
  Callbacks,  \* the functions a sketch asks to be called
  NULL,       \* the null function
  Overlap     \* it may make one while an earlier one is still in force

Timer == {0, 1}
Kinds == {"periodic", "single"}
None == -1

\* What a call asks for, and what a call of its function comes to.
Uses == [fn : Callbacks, repeats : BOOLEAN]
Calls == [fn : Callbacks, goesOn : BOOLEAN]

ASSUME TimersAssumption ==
  /\ NULL \notin Callbacks \cup Kinds \cup Uses \cup Calls
  /\ Overlap \in BOOLEAN

VARIABLES
  lines,    \* the timers whose interrupt line the table has room for
  lock,     \* m_timerlock, as a set of timers
  intr,     \* m_intrTimer
  cb,       \* m_cb
  func,     \* itable: which handler is attached to the line of each timer
  mask,     \* INTRMASK
  enabled,  \* INTRCTL
  run,      \* TCTLENA of each timer
  flag,     \* TCTLIF of each timer
  pc,       \* the next statement of the background
  kind, fn, \* which call it is in, and the function it was given
  tmr,      \* local variable: the timer it got
  idx,      \* parameter of detachInterrupt and of releaseTimer
  seen,     \* what a read-modify-write has read
  called    \* history: the function called in the last step, if any, and
            \* what it returned

device == <<lines, run, flag>>
table == <<func, mask, enabled>>
locals == <<kind, fn, tmr, idx, seen>>
vars == <<device, table, lock, intr, cb, pc, locals, called>>

-----------------------------------------------------------------------------
\* begin() has found the device; in the last slot, timer 1 has line 16.
Init ==
  /\ lines \in {Timer, {0}}
  /\ lock = {} /\ intr = None
  /\ cb = [t \in Timer |-> NULL]
  /\ func = [t \in Timer |-> NULL]
  /\ mask = {} /\ enabled = FALSE
  /\ run = {} /\ flag = {}
  /\ pc = "idle" /\ kind = "periodic" /\ fn = NULL
  /\ tmr = None /\ idx = None /\ seen = {}
  /\ called = NULL

\* The timer whose registers timer(i) has.
Registers(i) == IF i = None THEN 0 ELSE i

Due == IF enabled THEN flag \cap mask ELSE {}

\* One background step.
At(from, to) == pc = from /\ Due = {} /\ pc' = to /\ called' = NULL

(***************************************************************************)
(* periodic() and singleShot().  The lock is read and written in           *)
(* getFreeTimer; without a free timer the call returns -1.                 *)
(***************************************************************************)
NoFreeTimer(k, c) ==
  /\ At("idle", "idle")
  /\ k \in Kinds /\ c \in Callbacks
  /\ Overlap \/ intr = None
  /\ lock = Timer
  /\ UNCHANGED <<device, table, lock, intr, cb, locals>>

\* Mutant: getFreeTimer goes on to a third timer.
GetFreeTimerThird(k, c) ==
  /\ At("idle", "lock")
  /\ k \in Kinds /\ c \in Callbacks
  /\ Overlap \/ intr = None
  /\ kind' = k /\ fn' = c
  /\ tmr' = Cardinality(lock)
  /\ seen' = lock
  /\ UNCHANGED <<device, table, lock, intr, cb, idx>>

GetFreeTimer(k, c) ==
  /\ At("idle", "lock")
  /\ k \in Kinds /\ c \in Callbacks
  /\ Overlap \/ intr = None
  /\ lock # Timer
  /\ kind' = k /\ fn' = c
  /\ tmr' = IF 0 \notin lock THEN 0 ELSE 1
  /\ seen' = lock
  /\ UNCHANGED <<device, table, lock, intr, cb, idx>>

LockTimer ==
  /\ At("lock", "name")
  /\ lock' = seen \cup {tmr}
  /\ UNCHANGED <<device, table, intr, cb, locals>>

NameTimer ==
  /\ At("name", "attach")
  /\ intr' = tmr
  /\ UNCHANGED <<device, table, lock, cb, locals>>

\* attachInterrupt: the table entry, then the mask.
AttachFunc ==
  /\ At("attach", "read mask")
  /\ tmr \in lines
  /\ func' = [func EXCEPT ![tmr] = kind]
  /\ UNCHANGED <<device, mask, enabled, lock, intr, cb, locals>>

\* The line is out of range: the timer is released and the call returns -2.
AttachFails ==
  /\ At("attach", "release")
  /\ tmr \notin lines
  /\ UNCHANGED <<device, table, lock, intr, cb, locals>>

ReadMask ==
  /\ At("read mask", "unmask")
  /\ seen' = mask
  /\ UNCHANGED <<device, table, lock, intr, cb, kind, fn, tmr, idx>>

\* Mutant: the mask is written back as it was.
UnmaskNothing ==
  /\ At("unmask", "period")
  /\ mask' = seen
  /\ UNCHANGED <<device, func, enabled, lock, intr, cb, locals>>

UnmaskLine ==
  /\ At("unmask", "period")
  /\ mask' = seen \cup {tmr}
  /\ UNCHANGED <<device, func, enabled, lock, intr, cb, locals>>

SetPeriod ==
  /\ At("period", "callback")
  /\ UNCHANGED <<device, table, lock, intr, cb, locals>>

\* The period is too long for the timer: undone, and the call returns -3.
PeriodFails ==
  /\ At("period", "detach")
  /\ idx' = tmr
  /\ UNCHANGED <<device, table, lock, intr, cb, kind, fn, tmr, seen>>

SetCallback ==
  /\ At("callback", "start")
  /\ cb' = [cb EXCEPT ![tmr] = fn]
  /\ UNCHANGED <<device, table, lock, intr, locals>>

Start ==
  /\ At("start", "sei")
  /\ run' = run \cup {tmr}
  /\ UNCHANGED <<lines, flag, table, lock, intr, cb, locals>>

Sei ==
  /\ At("sei", "idle")
  /\ enabled' = TRUE
  /\ UNCHANGED <<device, func, mask, lock, intr, cb, locals>>

-----------------------------------------------------------------------------
(***************************************************************************)
(* cancel(), which reads m_intrTimer anew for each of its calls.  Its last *)
(* steps are also those of a periodic() or singleShot() that fails.        *)
(***************************************************************************)
Cancel ==
  /\ At("idle", IF intr = None THEN "idle" ELSE "stop")
  /\ UNCHANGED <<device, table, lock, intr, cb, locals>>

CancelStop ==
  /\ At("stop", "line")
  /\ run' = run \ {Registers(intr)}
  /\ UNCHANGED <<lines, flag, table, lock, intr, cb, locals>>

CancelLine ==
  /\ At("line", IF intr = None THEN "release" ELSE "detach")
  /\ idx' = intr
  /\ UNCHANGED <<device, table, lock, intr, cb, kind, fn, tmr, seen>>

\* detachInterrupt(idx)
DetachRead ==
  /\ At("detach", "mask")
  /\ seen' = mask
  /\ UNCHANGED <<device, table, lock, intr, cb, kind, fn, tmr, idx>>

DetachMask ==
  /\ At("mask", "clear")
  /\ mask' = seen \ {idx}
  /\ UNCHANGED <<device, func, enabled, lock, intr, cb, locals>>

\* Mutant: the table entry stays.
DetachFuncNot ==
  /\ At("clear", "release")
  /\ UNCHANGED <<device, table, lock, intr, cb, locals>>

DetachFunc ==
  /\ At("clear", "release")
  /\ func' = [func EXCEPT ![idx] = NULL]
  /\ UNCHANGED <<device, mask, enabled, lock, intr, cb, locals>>

\* releaseTimer(m_intrTimer)
ReleaseRead ==
  /\ At("release", "unlock")
  /\ idx' = intr
  /\ seen' = lock
  /\ UNCHANGED <<device, table, lock, intr, cb, kind, fn, tmr>>

Release ==
  /\ At("unlock", "forget")
  /\ lock' = seen \ {idx}
  /\ UNCHANGED <<device, table, intr, cb, locals>>

Forget ==
  /\ At("forget", "idle")
  /\ intr' = None
  /\ UNCHANGED <<device, table, lock, cb, locals>>

-----------------------------------------------------------------------------
\* A running timer reaches its comparator and starts again from zero.
Compare(t) ==
  /\ t \in run /\ t \notin flag
  /\ flag' = flag \cup {t}
  /\ called' = NULL
  /\ UNCHANGED <<lines, run, table, lock, intr, cb, pc, locals>>

\* handleInterrupt: the callback of timer m_intrTimer, if there is one.
Callback == IF intr = None THEN NULL ELSE cb[intr]

\* It is called and returns goesOn.
CalledBack(goesOn) ==
  called' = IF Callback = NULL THEN NULL ELSE [fn |-> Callback, goesOn |-> goesOn]

Detached(t) == /\ mask' = mask \ {t}
               /\ func' = [u \in Timer |-> IF u = t THEN NULL ELSE func[u]]

\* timerInterruptHandler, when the callback returns true.
GoesOn(t) ==
  /\ t \in Due /\ func[t] = "periodic"
  /\ Callback # NULL
  /\ CalledBack(TRUE)
  /\ flag' = flag \ {Registers(intr)}
  /\ UNCHANGED <<lines, run, table, lock, intr, cb, pc, locals>>

\* Mutant: the timer is not stopped.
EndsRunning(t) ==
  /\ t \in Due /\ func[t] = "periodic"
  /\ CalledBack(FALSE)
  /\ Detached(intr)
  /\ lock' = lock \ {intr}
  /\ intr' = None
  /\ flag' = flag \ {Registers(None)}
  /\ UNCHANGED <<lines, run, enabled, cb, pc, locals>>

\* Mutant: the handler does not look at what the callback returns.
EndsNever(t) ==
  /\ t \in Due /\ func[t] = "periodic"
  /\ CalledBack(FALSE)
  /\ flag' = flag \ {Registers(intr)}
  /\ UNCHANGED <<lines, run, table, lock, intr, cb, pc, locals>>

\* timerInterruptHandler, when it returns false, or when there is no callback.
Ends(t) ==
  /\ t \in Due /\ func[t] = "periodic"
  /\ CalledBack(FALSE)
  /\ run' = run \ {Registers(intr)}
  /\ Detached(intr)
  /\ lock' = lock \ {intr}
  /\ intr' = None
  /\ flag' = flag \ {Registers(None)}
  /\ UNCHANGED <<lines, enabled, cb, pc, locals>>

\* Mutant: the line stays attached.
ExpiresAttached(t) ==
  /\ t \in Due /\ func[t] = "single"
  /\ (\E b \in BOOLEAN : CalledBack(b))
  /\ run' = run \ {Registers(intr)}
  /\ intr' = None
  /\ flag' = flag \ {Registers(None)}
  /\ UNCHANGED <<lines, table, lock, cb, pc, locals>>

\* timerInterruptHandlerSS does not look at what the callback returns.
Expires(t) ==
  /\ t \in Due /\ func[t] = "single"
  /\ (\E b \in BOOLEAN : CalledBack(b))
  /\ run' = run \ {Registers(intr)}
  /\ Detached(intr)
  /\ intr' = None
  /\ flag' = flag \ {Registers(None)}
  /\ UNCHANGED <<lines, enabled, lock, cb, pc, locals>>

-----------------------------------------------------------------------------
\* The calls that the sketch may or may not make.
Sketch ==
  \/ \E k \in Kinds, c \in Callbacks : NoFreeTimer(k, c) \/ GetFreeTimer(k, c)
  \/ Cancel

\* The rest of a call.
Call ==
  \/ LockTimer \/ NameTimer
  \/ AttachFunc \/ AttachFails \/ ReadMask \/ UnmaskLine
  \/ SetPeriod \/ PeriodFails \/ SetCallback \/ Start \/ Sei
  \/ CancelStop \/ CancelLine
  \/ DetachRead \/ DetachMask \/ DetachFunc
  \/ ReleaseRead \/ Release \/ Forget

Interrupt == \E t \in Timer : GoesOn(t) \/ Ends(t) \/ Expires(t)

Next == Sketch \/ Call \/ Interrupt \/ \E t \in Timer : Compare(t)

Spec == Init /\ [][Next]_vars

(***************************************************************************)
(* The hardware does not stop; a handler takes less than a period, so the  *)
(* background comes to its next step again and again.                      *)
(***************************************************************************)
FairSpec ==
  /\ Spec
  /\ SF_vars(Call)
  /\ WF_vars(Interrupt)
  /\ \A t \in Timer : WF_vars(Compare(t))

-----------------------------------------------------------------------------
TypeOK ==
  /\ lines \subseteq Timer /\ lock \subseteq Timer
  /\ mask \subseteq Timer /\ run \subseteq Timer /\ flag \subseteq Timer
  /\ intr \in Timer \cup {None} /\ idx \in Timer \cup {None}
  /\ tmr \in Timer \cup {None}
  /\ cb \in [Timer -> Callbacks \cup {NULL}]
  /\ func \in [Timer -> Kinds \cup {NULL}]
  /\ enabled \in BOOLEAN
  /\ kind \in Kinds
  /\ fn \in Callbacks \cup {NULL} /\ called \in Calls \cup {NULL}
  /\ seen \subseteq Timer
  /\ pc \in {"idle", "lock", "name", "attach", "read mask", "unmask", "period",
             "callback", "start", "sei", "stop", "line", "detach", "mask", "clear",
             "release", "unlock", "forget"}

(***************************************************************************)
(* While the calls have got timer 0, m_intrTimer says between calls that   *)
(* nothing is in force only when no timer runs or is attached and no       *)
(* interrupt is left pending for the next call to run into.                *)
(***************************************************************************)
Quiet ==
  pc = "idle" /\ intr = None /\ tmr # 1 =>
    run = {} /\ flag = {} /\ mask = {} /\ \A t \in Timer : func[t] = NULL

(***************************************************************************)
(* A timer whose line is attached is locked, also while the handler of an  *)
(* earlier use runs into a call: getFreeTimer cannot hand it out again.    *)
(***************************************************************************)
AttachedLocked == \A t \in Timer : func[t] # NULL => t \in lock

(***************************************************************************)
(* "get a free timer", one way: a timer that a call gets is not in use.    *)
(***************************************************************************)
HandedOutFree == pc = "lock" => func[tmr] = NULL

(***************************************************************************)
(* The other way: when no timer runs or is attached, the next call finds   *)
(* one.                                                                    *)
(***************************************************************************)
FreeTimerFound ==
  pc = "idle" /\ run = {} /\ (\A t \in Timer : func[t] = NULL) => lock # Timer

\* A function in force on timer 0 is called, unless it is cancelled first.
KeepsRinging == (pc = "idle" /\ intr = 0) ~> (called # NULL \/ intr # 0)

\* Every call returns to the sketch, whatever the interrupts do.
CallsReturn == pc # "idle" ~> pc = "idle"
=============================================================================
