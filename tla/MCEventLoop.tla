---------------------------- MODULE MCEventLoop ----------------------------
(* Instances of EventLoop for TLC. *)
EXTENDS EventLoop

CONSTANT s1

OneSurface == {s1}

\* A consumer that requests redraws from anywhere and sleeps as it likes.
AnyCaller == Callers
AnyDeadline == {"none", "future", "past"}

NoCaller == {}

\* A consumer that asks for the next frame before every sleep.
FromAboutToWait == {"about_to_wait"}
NoDeadline == {"none"}

AllKinds == Kinds
NoKeys == {"ping", "input"}
=============================================================================
