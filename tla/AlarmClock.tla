----------------------------- MODULE AlarmClock -----------------------------
(***************************************************************************)
(* What Timers promises a sketch that has one use of it at a time.  The    *)
(* function it asked for, and no other, is called.  If it was asked for    *)
(* once (singleShot), one call ends the use, whatever it returns; if it    *)
(* was asked for periodically, the first call that returns false does.     *)
(* The sketch can cancel it, and after its end it is never called.         *)
(***************************************************************************)
CONSTANTS Function, Nothing

VARIABLES
  asked,   \* what a call asks for that the sketch is in the middle of
  active,  \* what is in force
  called   \* the function called in the last step, and what it returned

Init == asked = Nothing /\ active = Nothing /\ called = Nothing

Ask(f, repeats) ==
  /\ asked = Nothing /\ active = Nothing
  /\ asked' = [fn |-> f, repeats |-> repeats]
  /\ called' = Nothing /\ UNCHANGED active

Grant == /\ asked # Nothing
         /\ active' = asked
         /\ asked' = Nothing
         /\ called' = Nothing

Refuse == /\ asked' = Nothing
          /\ called' = Nothing /\ UNCHANGED active

Cancel == /\ active' = Nothing
          /\ called' = Nothing /\ UNCHANGED asked

Ring(goesOn) ==
  /\ active # Nothing
  /\ called' = [fn |-> active.fn, goesOn |-> goesOn]
  /\ active' = IF active.repeats /\ goesOn THEN active ELSE Nothing
  /\ UNCHANGED asked

Silent == called' = Nothing /\ UNCHANGED <<asked, active>>

Next ==
  \/ \E f \in Function, repeats \in BOOLEAN : Ask(f, repeats)
  \/ Grant \/ Refuse \/ Cancel \/ Silent
  \/ \E goesOn \in BOOLEAN : Ring(goesOn)

Spec == Init /\ [][Next]_<<asked, active, called>>
=============================================================================
