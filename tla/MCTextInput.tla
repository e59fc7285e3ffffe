---------------------------- MODULE MCTextInput ----------------------------
(* Instances of TextInput for TLC. *)
EXTENDS TextInput, TLC

CONSTANTS s1, s2

TwoSurfaces == {s1, s2}

\* No definition tells one surface from another.
SurfaceSymmetry == Permutations(TwoSurfaces)
=============================================================================
