----------------------------- MODULE MCSurfaces -----------------------------
(* Instances of Surfaces for TLC. *)
EXTENDS Surfaces

CONSTANTS t1, l1, o1, o2

OneToplevel == {t1}
OneLayer == {l1}
NoSurfaces == {}
OneOutput == {o1}
TwoOutputs == {o1, o2}

TwoSizes == {0, 2}
UpToTwo == {0, 1, 2}
OneAndHalf == {180}
\* The builder of the toplevel names a size, that of the layer surface none.
PreferOne == [s \in Surfaces |-> IF s \in Toplevels THEN 1 ELSE 0]
=============================================================================
