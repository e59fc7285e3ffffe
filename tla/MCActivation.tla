---------------------------- MODULE MCActivation ----------------------------
(* Instances of Activation, and of the Touch it contains, for TLC. *)
EXTENDS Activation

CONSTANTS s1, s2, p1, p2, t1, t2

TwoSurfaces == {s1, s2}
TwoIds == 0..1
TwoPositions == {p1, p2}
TwoTokens == {t1, t2}
=============================================================================
