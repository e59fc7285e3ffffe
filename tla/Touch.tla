------------------------------- MODULE Touch -------------------------------
(***************************************************************************)
(* Touch: the dispatcher of wl_touch (src/connection.rs) over TouchState,  *)
(* and its part of wl_seat.capabilities.                                   *)
(*                                                                         *)
(* A contact is down from its down to its up, or to the cancel that ends   *)
(* all of them; the compositor uses its id again afterwards.  news is the  *)
(* set of touch events the last handler pushed: one, except for a cancel,  *)
(* which visits the contacts in the order of a hash map.                   *)
(***************************************************************************)
EXTENDS Integers, FiniteSets, Functions

\* A definition Name_Slip is Name as a slip of the programmer would make it;
\* nothing here uses it: put in the place of Name, it must break the property
\* the README lists it under.

CONSTANTS
  Surfaces,        \* surfaces with an entry in surface_id_by_wl
  Ids,             \* ids of contacts
  Positions,
  Unplugs,         \* may the seat lose its touchscreen?
  MaxSerial        \* bound: serials of the compositor's input events, after
                   \* which they start again at 1

Foreign == "foreign"   \* a surface an embedder made on our connection

ASSUME TouchAssumption ==
  /\ Foreign \notin Surfaces
  /\ Unplugs \in BOOLEAN
  /\ MaxSerial \in Nat \ {0}

VARIABLES
  wl_touch,            \* the proxy: "none", "live", or "inert" once unplugged
  positions, surfaces, \* TouchState's maps, by contact
  last_input_serial,   \* 0: no input yet
  news,
  capable, contacts, live, serial,
                       \* the compositor: capability, the contacts down and
                       \* the surface each is on, surfaces not destroyed, and
                       \* the serial of the newest press or down it sent
  told,                \* the contacts the consumer knows: surface and place
  since                \* history: the serials of the newest input on one of
                       \* our surfaces and of all that came after it, and 0
                       \* as long as there was none

state == <<wl_touch, positions, surfaces, last_input_serial>>
vars == <<state, news, capable, contacts, live, serial, told, since>>

Empty == [i \in {} |-> Foreign]
Insert(f, i, v) == [j \in DOMAIN f \cup {i} |-> IF j = i THEN v ELSE f[j]]
Without(f, I) == Restrict(f, DOMAIN f \ I)

Touched(phase, i, s, p) ==
  [phase |-> phase, id |-> i, surface |-> s, position |-> p]

NextSerial == (serial % MaxSerial) + 1

\* The compositor sends an event with a serial, on a surface of ours or not.
Press(ours) ==
  /\ serial' = NextSerial
  /\ since' = IF ours THEN {serial'} ELSE since \cup {serial'}

Init ==
  /\ wl_touch = "none" /\ positions = Empty /\ surfaces = Empty
  /\ last_input_serial = 0 /\ serial = 0 /\ since = {0}
  /\ news = {}
  /\ capable = FALSE /\ contacts = Empty /\ live = Surfaces
  /\ told = Empty

\* The handler pushed these events.
Push(events) ==
  LET over == {e.id : e \in {x \in events : x.phase \in {"ended", "cancelled"}}}
      on == {e \in events : e.id \notin over}
  IN /\ news' = events
     /\ told' = [i \in (DOMAIN told \cup {e.id : e \in on}) \ over |->
                   IF \E e \in on : e.id = i
                   THEN LET e == CHOOSE x \in on : x.id = i
                        IN [surface |-> e.surface, position |-> e.position]
                   ELSE told[i]]
-----------------------------------------------------------------------------
\* A proxy is made once and never given back.
Plugged ==
  /\ ~capable /\ capable' = TRUE
  /\ wl_touch' = IF wl_touch = "none" THEN "live" ELSE wl_touch
  /\ Push({})
  /\ UNCHANGED <<positions, surfaces, last_input_serial, contacts, live, serial, since>>

\* The proxy goes inert: no up, no cancel.
Unplugged ==
  /\ Unplugs /\ capable /\ capable' = FALSE
  /\ wl_touch' = "inert"
  /\ contacts' = Empty
  /\ Push({})
  /\ UNCHANGED <<positions, surfaces, last_input_serial, live, serial, since>>

\* surface_id_by_wl finds our live surfaces; the object of a destroyed one
\* arrives as null
Found(t) == t \in live

\* The serial is kept whatever surface the contact is on.
KeepSerial_ButtonsOnly == UNCHANGED last_input_serial

KeepSerial == last_input_serial' = serial'

Down(i, t, p) ==
  /\ wl_touch = "live" /\ i \notin DOMAIN contacts /\ t \in live \cup {Foreign}
  /\ contacts' = Insert(contacts, i, t)
  /\ Press(t # Foreign)
  /\ KeepSerial
  /\ IF Found(t)
     THEN /\ positions' = Insert(positions, i, p)
          /\ surfaces' = Insert(surfaces, i, t)
          /\ Push({Touched("started", i, t, p)})
     ELSE Push({}) /\ UNCHANGED <<positions, surfaces>>
  /\ UNCHANGED <<wl_touch, capable, live>>

\* The position is kept before the contact is looked up.
KeepPosition_DownOnly(i, p) == UNCHANGED positions

KeepPosition(i, p) == positions' = Insert(positions, i, p)

Motion(i, p) ==
  /\ wl_touch = "live" /\ i \in DOMAIN contacts
  /\ KeepPosition(i, p)
  /\ Push(IF i \in DOMAIN surfaces
          THEN {Touched("moved", i, surfaces[i], p)} ELSE {})
  /\ UNCHANGED <<wl_touch, surfaces, last_input_serial, capable, contacts, live,
                 serial, since>>

\* End the contacts I, all of them known.
Forget_PositionsOnly(I) ==
  positions' = Without(positions, I) /\ UNCHANGED surfaces

Forget(I) ==
  /\ positions' = Without(positions, I)
  /\ surfaces' = Without(surfaces, I)

Up(i) ==
  /\ wl_touch = "live" /\ i \in DOMAIN contacts
  /\ contacts' = Without(contacts, {i})
  /\ IF i \in DOMAIN surfaces
     THEN /\ Forget({i})
          /\ Push({Touched("ended", i, surfaces[i], positions[i])})
     ELSE Push({}) /\ UNCHANGED <<positions, surfaces>>
  /\ UNCHANGED <<wl_touch, last_input_serial, capable, live, serial, since>>

\* the contacts a cancel ends
Active_First ==
  IF surfaces = Empty THEN {} ELSE {CHOOSE i \in DOMAIN surfaces : TRUE}

Active == DOMAIN surfaces

Cancel ==
  /\ wl_touch = "live" /\ contacts # Empty
  /\ contacts' = Empty
  /\ Forget(Active)
  /\ Push({Touched("cancelled", i, surfaces[i], positions[i]) : i \in Active})
  /\ UNCHANGED <<wl_touch, last_input_serial, capable, live, serial, since>>

DestroySurface(s) ==
  /\ s \in live
  /\ live' = live \ {s}
  /\ Push({})
  /\ UNCHANGED <<state, capable, contacts, serial, since>>

Next ==
  \/ Plugged \/ Unplugged \/ Cancel
  \/ \E i \in Ids :
       \/ \E t \in Surfaces \cup {Foreign}, p \in Positions : Down(i, t, p)
       \/ \E p \in Positions : Motion(i, p)
       \/ Up(i)
  \/ \E s \in Surfaces : DestroySurface(s)

Spec == Init /\ [][Next]_vars
-----------------------------------------------------------------------------
(* Properties.                                                             *)

\* Every variable keeps its type; a contact with a surface has a position, so
\* no end of a contact falls back on a default one.
TypeOK ==
  /\ wl_touch \in {"none", "live", "inert"}
  /\ capable \in BOOLEAN
  /\ {last_input_serial, serial} \subseteq 0..MaxSerial
  /\ since \subseteq 0..MaxSerial
  /\ live \subseteq Surfaces
  /\ DOMAIN surfaces \subseteq DOMAIN positions /\ DOMAIN positions \subseteq Ids
  /\ \A i \in DOMAIN positions : positions[i] \in Positions
  /\ \A i \in DOMAIN surfaces : surfaces[i] \in Surfaces
  /\ DOMAIN contacts \subseteq Ids
  /\ \A i \in DOMAIN contacts : contacts[i] \in Surfaces \cup {Foreign}

\* The consumer is told of a whole gesture or of none of it: a contact starts
\* when it is not going on, moves and ends only while it is, on the surface it
\* started on, and ends where it was told to be last (TouchEvent::position).
\* Ids come again after an up, surfaces are destroyed under a contact.
GesturesWhole ==
  [][\A e \in news' :
       IF e.phase = "started" THEN e.id \notin DOMAIN told
       ELSE /\ e.id \in DOMAIN told /\ e.surface = told[e.id].surface
            /\ e.phase # "moved" => e.position = told[e.id].position]_vars

\* While the touchscreen stays, the contacts the consumer knows are those down
\* on a surface of ours: none is left behind by an up or a cancel ("an entry
\* only exists between matching down / up", TouchState::surfaces).
ContactsKnown ==
  wl_touch = "live" =>
    /\ DOMAIN surfaces = {i \in DOMAIN contacts : contacts[i] # Foreign}
    /\ DOMAIN told = DOMAIN surfaces
    /\ \A i \in DOMAIN surfaces :
         surfaces[i] = contacts[i] /\ told[i].surface = surfaces[i]
============================================================================
