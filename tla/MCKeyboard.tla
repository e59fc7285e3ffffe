----------------------------- MODULE MCKeyboard -----------------------------
(* Instances of Keyboard for TLC. *)
EXTENDS Keyboard

CONSTANTS s1, s2, a, shift

OneSurface == {s1}
TwoSurfaces == {s1, s2}
LetterAndShift == {a, shift}
\* The letter repeats in the first layout and in the second it does not.
TwoLayouts == {{a}, {}}
OneLayout == {{a}}

\* Four ticks a second: period 2 at rate 2, period 0 at rate 5.
SlowAndFast == {0, 2, 5}
OnlySlow == {2}
OnOff == {0, 2}
SomeDelay == {2}
=============================================================================
