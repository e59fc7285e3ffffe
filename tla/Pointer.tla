------------------------------ MODULE Pointer ------------------------------
(***************************************************************************)
(* The pointer: the dispatcher of wl_pointer (src/connection.rs) over      *)
(* PointerState, its part of wl_seat.capabilities, and                     *)
(* EventLoop::set_cursor.                                                  *)
(*                                                                         *)
(* The compositor's events come in frames: what belongs to one gesture is  *)
(* closed by wl_pointer.frame.  Positions are left out.  The two counts of *)
(* wheel steps (axis_discrete, axis_value120) obey the same rules, and a   *)
(* wl_pointer sends one or the other: steps stands for both.               *)
(***************************************************************************)
EXTENDS Integers, FiniteSets

\* A definition Name_Slip is Name as a slip of the programmer would make it;
\* nothing here uses it: put in the place of Name, it must break the property
\* the README lists it under.

CONSTANTS
  Surfaces,        \* surfaces with an entry in surface_id_by_wl
  Sources,         \* values of axis_source; Wheel is one of them
  Wheel,
  Deltas,          \* how far one axis event scrolls
  MaxScroll,       \* bound: axis events in a frame
  MaxSerial        \* bound: serials the compositor hands out

Foreign == "foreign"   \* a surface an embedder made on our connection
Nobody == "nobody"
NoSource == "no source"
Axes == {"vertical", "horizontal"}
Measures == {"delta", "steps"}

ASSUME PointerAssumption ==
  /\ Wheel \in Sources /\ NoSource \notin Sources
  /\ Deltas \subseteq Int \ {0}
  /\ MaxScroll \in Nat /\ MaxSerial \in Nat
  /\ Foreign \notin Surfaces /\ Nobody \notin Surfaces

VARIABLES
  wl_pointer,      \* the proxy: "none", "live", or "inert" once unplugged
  focused_surface, enter_serial, last_input_serial,
  axis,            \* axis_vertical, axis_discrete_v, ...: per axis and measure
  axis_source, axis_pending,
  news,            \* what the last handler pushed
  capable, over, live, serial, entered,  \* the compositor: does the seat have a
                   \* pointer, the surface under it, surfaces not destroyed, the
                   \* last serial, that of the last enter
  frame,           \* how far it scrolled since the last wl_pointer.frame
  told_over        \* the surface the consumer was told the pointer is over

state == <<wl_pointer, focused_surface, enter_serial, last_input_serial, axis,
           axis_source, axis_pending>>
compositor == <<capable, over, live, serial, entered, frame>>
vars == <<state, news, compositor, told_over>>

Still == [a \in Axes |-> [m \in Measures |-> 0]]
EmptyFrame == [scroll |-> Still, events |-> 0]

Silence == [kind |-> "none"]
News(kind) == [kind |-> kind, surface |-> focused_surface]

\* the axes of a frame that moved, each with its amounts
ScrollNews(amounts, source) ==
  [kind |-> "scroll", surface |-> focused_surface, source |-> source,
   amounts |-> amounts]

Init ==
  /\ wl_pointer = "none"
  /\ focused_surface = Nobody /\ enter_serial = 0 /\ last_input_serial = 0
  /\ axis = Still /\ axis_source = NoSource /\ axis_pending = FALSE
  /\ news = Silence
  /\ capable = FALSE /\ over = Nobody /\ live = Surfaces
  /\ serial = 0 /\ entered = 0
  /\ frame = EmptyFrame
  /\ told_over = Nobody
-----------------------------------------------------------------------------
(* wl_seat.capabilities.                                                   *)

\* A proxy is made once and never given back, its cursor-shape device with it.
Plugged ==
  /\ ~capable /\ capable' = TRUE
  /\ wl_pointer' = IF wl_pointer = "none" THEN "live" ELSE wl_pointer
  /\ news' = Silence
  /\ UNCHANGED <<focused_surface, enter_serial, last_input_serial, axis,
                 axis_source, axis_pending, over, live, serial, entered, frame,
                 told_over>>

\* Nothing is heard of the proxy any more, a leave or a frame included.
Unplugged ==
  /\ capable /\ capable' = FALSE
  /\ wl_pointer' = "inert"
  /\ over' = Nobody
  /\ news' = Silence
  /\ UNCHANGED <<focused_surface, enter_serial, last_input_serial, axis,
                 axis_source, axis_pending, live, serial, entered, frame,
                 told_over>>
-----------------------------------------------------------------------------
(* wl_pointer.                                                             *)

\* surface_id_by_wl finds our live surfaces; the object of a destroyed one
\* arrives as null
Found(t) == t \in live

Enter(t) ==
  /\ wl_pointer = "live" /\ over = Nobody
  /\ t \in live \cup {Foreign}
  /\ serial < MaxSerial
  /\ over' = t /\ serial' = serial + 1 /\ entered' = serial'
  /\ enter_serial' = serial'
  /\ IF Found(t)
     THEN /\ focused_surface' = t /\ told_over' = t
          /\ news' = [kind |-> "entered", surface |-> t]
     ELSE news' = Silence /\ UNCHANGED <<focused_surface, told_over>>
  /\ UNCHANGED <<wl_pointer, last_input_serial, axis, axis_source, axis_pending,
                 capable, live, frame>>

\* the focus goes, whether or not the surface is one of ours
Unfocus_IfFound ==
  focused_surface' = IF Found(over) THEN Nobody ELSE focused_surface

Unfocus == focused_surface' = Nobody

Leave ==
  /\ wl_pointer = "live" /\ over # Nobody
  /\ over' = Nobody
  /\ IF Found(over)
     THEN news' = [kind |-> "left", surface |-> over] /\ told_over' = Nobody
     ELSE news' = Silence /\ UNCHANGED told_over
  /\ Unfocus
  /\ UNCHANGED <<wl_pointer, enter_serial, last_input_serial, axis, axis_source,
                 axis_pending, capable, live, serial, entered, frame>>

Motion ==
  /\ wl_pointer = "live" /\ over # Nobody
  /\ news' = IF focused_surface # Nobody THEN News("moved") ELSE Silence
  /\ UNCHANGED <<state, compositor, told_over>>

\* The serial is kept for request_activation, on whatever surface it came; it
\* is not one set_cursor may use.
KeepSerial_ForCursor(n) == last_input_serial' = n /\ enter_serial' = n

KeepSerial(n) == last_input_serial' = n /\ UNCHANGED enter_serial

Button ==
  /\ wl_pointer = "live" /\ over # Nobody
  /\ serial < MaxSerial /\ serial' = serial + 1
  /\ KeepSerial(serial')
  /\ news' = IF focused_surface # Nobody THEN News("button") ELSE Silence
  /\ UNCHANGED <<wl_pointer, focused_surface, axis, axis_source, axis_pending,
                 capable, over, live, entered, frame, told_over>>

\* Axis, AxisDiscrete and AxisValue120 add up, focused or not.
AxisMoved(a, m, delta) ==
  /\ wl_pointer = "live" /\ over # Nobody /\ frame.events < MaxScroll
  /\ frame' = [frame EXCEPT !.scroll[a][m] = @ + delta, !.events = @ + 1]
  /\ axis' = [axis EXCEPT ![a][m] = @ + delta]
  /\ axis_pending' = TRUE
  /\ news' = Silence
  /\ UNCHANGED <<wl_pointer, focused_surface, enter_serial, last_input_serial,
                 axis_source, capable, over, live, serial, entered,
                 told_over>>

\* It may come with an axis_stop and no axis event; a source this program does
\* not know takes an earlier one away.
AxisSource(source) ==
  /\ wl_pointer = "live" /\ over # Nobody
  /\ axis_source' = source
  /\ news' = Silence
  /\ UNCHANGED <<wl_pointer, focused_surface, enter_serial, last_input_serial,
                 axis, axis_pending, capable, over, live, serial, entered, frame,
                 told_over>>

Moved(amounts) == {a \in Axes : \E m \in Measures : amounts[a][m] # 0}

\* Wayland scrolls down, the consumer up.
Flipped_Steps(a, m) ==
  IF a = "vertical" /\ m = "delta" THEN -axis[a][m] ELSE axis[a][m]

Flipped(a, m) == IF a = "vertical" THEN -axis[a][m] ELSE axis[a][m]

FrameNews ==
  IF ~axis_pending \/ focused_surface = Nobody \/ Moved(axis) = {} THEN Silence
  ELSE ScrollNews([a \in Moved(axis) |-> [m \in Measures |-> Flipped(a, m)]],
                  IF axis_source = NoSource THEN Wheel ELSE axis_source)

\* reset_axis, in both branches that end a frame with something pending
ResetAxis_IfFocused ==
  IF axis_pending /\ focused_surface # Nobody
  THEN axis' = Still /\ axis_source' = NoSource /\ axis_pending' = FALSE
  ELSE UNCHANGED <<axis, axis_source, axis_pending>>

ResetAxis_FlagOnly == axis_pending' = FALSE /\ UNCHANGED <<axis, axis_source>>

ResetAxis ==
  IF axis_pending
  THEN axis' = Still /\ axis_source' = NoSource /\ axis_pending' = FALSE
  ELSE UNCHANGED <<axis, axis_source, axis_pending>>

Frame ==
  /\ wl_pointer = "live"
  /\ frame' = EmptyFrame
  /\ news' = FrameNews
  /\ ResetAxis
  /\ UNCHANGED <<wl_pointer, focused_surface, enter_serial, last_input_serial,
                 capable, over, live, serial, entered, told_over>>

\* The consumer destroys a surface; a leave for it follows if the pointer was
\* over it.
DestroySurface(s) ==
  /\ s \in live
  /\ live' = live \ {s}
  /\ news' = Silence
  /\ UNCHANGED <<state, capable, over, serial, entered, frame, told_over>>

Next ==
  \/ Plugged \/ Unplugged \/ Leave \/ Motion \/ Button \/ Frame
  \/ \E t \in Surfaces \cup {Foreign} : Enter(t)
  \/ \E a \in Axes, m \in Measures, d \in Deltas : AxisMoved(a, m, d)
  \/ \E source \in Sources \cup {NoSource} : AxisSource(source)
  \/ \E s \in Surfaces : DestroySurface(s)

Spec == Init /\ [][Next]_vars
-----------------------------------------------------------------------------
(* Properties.                                                             *)

Scrolls == [Axes -> [Measures -> Int]]

\* Every variable keeps its type; nothing is accumulated without its flag.
TypeOK ==
  /\ wl_pointer \in {"none", "live", "inert"}
  /\ focused_surface \in Surfaces \cup {Nobody}
  /\ told_over \in Surfaces \cup {Nobody}
  /\ capable \in BOOLEAN
  /\ over \in Surfaces \cup {Foreign, Nobody} /\ live \subseteq Surfaces
  /\ serial \in Nat /\ entered \in 0..serial
  /\ enter_serial \in 0..serial /\ last_input_serial \in 0..serial
  /\ axis \in Scrolls /\ frame.scroll \in Scrolls
  /\ axis_source \in Sources \cup {NoSource} /\ axis_pending \in BOOLEAN
  /\ axis_pending \/ axis = Still

\* Every pointer event but PointerEntered is for the surface under the pointer,
\* and the consumer was told so, across surfaces destroyed under the pointer
\* and surfaces that are not ours.
EventsFollowPointer ==
  [][news'.kind \notin {"none", "entered"} =>
       news'.surface = over /\ news'.surface = told_over]_vars

\* No scrolling is lost, doubled or carried from one frame to the next: what
\* is accumulated is what the frame so far scrolled ("Accumulated axis state
\* since the last wl_pointer.frame", PointerState), also after frames that
\* ended over no surface of ours.
AxisIsFrames == axis = frame.scroll

\* Over a surface of ours, a frame scrolls by what was sent in it, vertical
\* turned round ("positive vertical = scroll up", ScrollEvent), and says
\* nothing of an axis that came to rest where it was; nothing else scrolls.
FrameScrolls ==
  [][IF frame' = EmptyFrame /\ frame # EmptyFrame /\ focused_surface # Nobody
     THEN
       \A a \in Axes :
         LET sent == frame.scroll[a]
             sign == IF a = "vertical" THEN -1 ELSE 1
         IN IF \A m \in Measures : sent[m] = 0
            THEN news'.kind = "scroll" => a \notin DOMAIN news'.amounts
            ELSE /\ news'.kind = "scroll" /\ a \in DOMAIN news'.amounts
                 /\ \A m \in Measures : news'.amounts[a][m] = sign * sent[m]
     ELSE news'.kind # "scroll"]_vars

\* The serial set_cursor sends is the one the compositor asks for: that of the
\* last enter (PointerState::enter_serial).
CursorHonoured == enter_serial = entered
============================================================================
