------------------------------ MODULE MCTimers ------------------------------
(***************************************************************************)
(* Timers for TLC, and what it implements when the uses do not overlap.    *)
(***************************************************************************)
EXTENDS Timers

InForce == intr = 0 /\ 0 \in run

Asking == pc \in {"lock", "name", "attach", "read mask", "unmask", "period",
                 "callback", "start"}

\* What AlarmClock keeps, for the uses that get timer 0.  What is in force is
\* what an interrupt of the timer leads to: the handler attached to its line
\* and the callback.
AskedOf0 ==
  IF Asking /\ tmr = 0 THEN [fn |-> fn, repeats |-> (kind = "periodic")] ELSE NULL
ActiveOn0 ==
  IF InForce THEN [fn |-> cb[0], repeats |-> (func[0] = "periodic")] ELSE NULL
CalledBy0 == IF tmr = 0 THEN called ELSE NULL

Clock == INSTANCE AlarmClock WITH
  Function <- Callbacks,
  Nothing <- NULL,
  asked <- AskedOf0,
  active <- ActiveOn0,
  called <- CalledBy0

(***************************************************************************)
(* Of the uses that get timer 0: only the function that was asked for is   *)
(* called; a single shot's one call is its last, and so is the call of a   *)
(* periodic one that returns false; and none is called after a cancel().   *)
(***************************************************************************)
ImplementsAlarmClock == Clock!Spec
=============================================================================
