----------------------------- MODULE MCPointer -----------------------------
(* Instances of Pointer for TLC. *)
EXTENDS Pointer

CONSTANTS s1, s2, wheel, finger

TwoSurfaces == {s1, s2}
WheelAndFinger == {wheel, finger}
BothWays == {-1, 2}
=============================================================================
