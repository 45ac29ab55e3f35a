------------------------------ MODULE WrapTime ------------------------------
(***************************************************************************)
(* Times that are counted modulo a power of two: the comparisons of        *)
(* MFMMacros.h, with Mod for 2^32, 2^16 or 2^8.                            *)
(***************************************************************************)
EXTENDS Integers

CONSTANT Mod  \* the times go from 0 to Mod - 1

ASSUME ModAssumption == Mod \in Nat \ {0} /\ Mod % 2 = 0

Half == Mod \div 2

\* Mutant: times are compared as numbers.
IS_EARLIERNumber(a, b) == a < b

IS_EARLIER(a, b) == (a - b) % Mod > Half
IS_LATER_OR_EQUAL(a, b) == (a - b) % Mod < Half
IS_LATER(a, b) == (b - a) % Mod > Half
IS_EARLIER_OR_EQUAL(a, b) == (b - a) % Mod < Half

\* Among times that lie within less than half a turn from t on, the four
\* comparisons are those of the true times, wherever the counter rolls over.
OrderFrom(t) ==
  \A x, y \in 0 .. Half - 1 :
    LET a == (t + x) % Mod
        b == (t + y) % Mod
    IN  /\ IS_EARLIER(a, b) <=> x < y
        /\ IS_LATER(a, b) <=> x > y
        /\ IS_EARLIER_OR_EQUAL(a, b) <=> x <= y
        /\ IS_LATER_OR_EQUAL(a, b) <=> x >= y
=============================================================================
