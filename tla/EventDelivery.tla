--------------------------- MODULE EventDelivery ---------------------------
(***************************************************************************)
(* What run_app promises about the events of the compositor: they are      *)
(* numbered as they are posted and wait in one inbox, they are handed over *)
(* one at a time, each once, the oldest first; exit() may be called from   *)
(* any callback, and from then on nothing is handed over and the run ends. *)
(***************************************************************************)
EXTENDS Naturals

CONSTANT MaxWire   \* bound: events posted

VARIABLES
  posted,    \* the number of the event posted last
  inbox,     \* the numbers of the events that wait
  last,      \* the number of the event handed over last
  phase      \* "running", "exiting" or "returned"

vars == <<posted, inbox, last, phase>>

Init == posted = 0 /\ inbox = {} /\ last = 0 /\ phase = "running"

\* Numbers may be skipped: a ping takes one and is no event.
Post(n) ==
  /\ posted' = n
  /\ inbox' = inbox \cup {n}
  /\ UNCHANGED <<last, phase>>

Skip(n) == posted' = n /\ UNCHANGED <<inbox, last, phase>>

HandOver(n) ==
  /\ phase = "running"
  /\ \A m \in inbox : n <= m
  /\ last' = n
  /\ inbox' = inbox \ {n}
  /\ phase' \in {"running", "exiting"}
  /\ UNCHANGED posted

Exit == phase = "running" /\ phase' = "exiting" /\ UNCHANGED <<posted, inbox, last>>

Return == phase = "exiting" /\ phase' = "returned" /\ UNCHANGED <<posted, inbox, last>>

Next ==
  \/ \E n \in (posted + 1)..MaxWire : Post(n) \/ Skip(n)
  \/ \E n \in inbox : HandOver(n)
  \/ Exit \/ Return

Spec == Init /\ [][Next]_vars
=============================================================================
