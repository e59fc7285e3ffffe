--------------------------- MODULE Pointer_proofs ---------------------------
(***************************************************************************)
(* Frames scroll by what was sent in them, events follow the pointer and   *)
(* set_cursor has the serial of the last enter, for any number of          *)
(* surfaces, sources, axis events and serials.                             *)
(***************************************************************************)
EXTENDS Pointer, TLAPS

\* What the dispatcher, the consumer and the compositor hold for the focus: over
\* a surface that is still there all three agree, and the dispatcher never has
\* a focus where the pointer is not.
FocusInv ==
  /\ wl_pointer = "none" => over = Nobody /\ focused_surface = Nobody
  /\ wl_pointer = "live" =>
       /\ over \in live => focused_surface = over
       /\ focused_surface # Nobody => focused_surface = over /\ told_over = over

FrameInv ==
  /\ frame \in [scroll : Scrolls, events : Nat]
  /\ AxisIsFrames

IInv == TypeOK /\ FocusInv /\ FrameInv /\ CursorHonoured

focusVars == <<wl_pointer, focused_surface, over, told_over>>
scrollVars == <<axis, axis_source, axis_pending, frame>>
serialVars == <<enter_serial, last_input_serial, serial, entered>>
-----------------------------------------------------------------------------
(* Scrolling.                                                              *)

\* Adding to one amount keeps amounts of the right shape.
LEMMA ScrollTyped ==
  ASSUME NEW f \in Scrolls, NEW a \in Axes, NEW m \in Measures, NEW d \in Deltas
  PROVE  [f EXCEPT ![a][m] = @ + d] \in Scrolls
  <1>1. d \in Int
    BY PointerAssumption
  <1>2. f[a] \in [Measures -> Int] /\ f[a][m] + d \in Int
    BY <1>1 DEF Scrolls
  <1>3. [f[a] EXCEPT ![m] = f[a][m] + d] \in [Measures -> Int]
    BY <1>2
  <1> QED BY <1>3 DEF Scrolls

LEMMA StillTyped == Still \in Scrolls
  BY DEF Still, Scrolls

\* The parts of the invariant that speak of scrolling only.
ScrollOK ==
  /\ axis \in Scrolls /\ frame.scroll \in Scrolls
  /\ axis_source \in Sources \cup {NoSource} /\ axis_pending \in BOOLEAN
  /\ axis_pending \/ axis = Still
  /\ FrameInv

FocusOK ==
  /\ wl_pointer \in {"none", "live", "inert"}
  /\ focused_surface \in Surfaces \cup {Nobody}
  /\ told_over \in Surfaces \cup {Nobody}
  /\ over \in Surfaces \cup {Foreign, Nobody} /\ live \subseteq Surfaces
  /\ capable \in BOOLEAN
  /\ FocusInv

SerialOK ==
  /\ serial \in Nat /\ entered \in 0..serial
  /\ enter_serial \in 0..serial /\ last_input_serial \in 0..serial
  /\ CursorHonoured

LEMMA Parts == IInv <=> ScrollOK /\ FocusOK /\ SerialOK
  BY DEF IInv, TypeOK, ScrollOK, FocusOK, SerialOK, FocusInv, FrameInv, CursorHonoured

LEMMA ScrollKeeps ==
  ASSUME ScrollOK, [Next]_vars
  PROVE  ScrollOK'
  <1>1. ASSUME NEW a \in Axes, NEW m \in Measures, NEW d \in Deltas, AxisMoved(a, m, d)
        PROVE  ScrollOK'
    <2>1. /\ axis' = [axis EXCEPT ![a][m] = @ + d] /\ axis_pending' = TRUE
          /\ frame' = [frame EXCEPT !.scroll[a][m] = @ + d, !.events = @ + 1]
          /\ axis_source' = axis_source
      BY <1>1 DEF AxisMoved
    <2>2. axis' \in Scrolls
      BY <2>1, ScrollTyped DEF ScrollOK
    <2>3. /\ frame'.scroll = [frame.scroll EXCEPT ![a][m] = @ + d]
          /\ frame'.events = frame.events + 1
          /\ frame' = [scroll |-> frame'.scroll, events |-> frame.events + 1]
      BY <2>1 DEF ScrollOK, FrameInv
    <2>4. frame'.scroll = axis'
      BY <2>1, <2>3 DEF ScrollOK, FrameInv, AxisIsFrames
    <2>5. frame' \in [scroll : Scrolls, events : Nat]
      BY <2>2, <2>3, <2>4 DEF ScrollOK, FrameInv
    <2> QED BY <2>1, <2>2, <2>4, <2>5 DEF ScrollOK, FrameInv, AxisIsFrames
  <1>2. ASSUME NEW source \in Sources \cup {NoSource}, AxisSource(source)
        PROVE  ScrollOK'
    BY <1>2 DEF AxisSource, ScrollOK, FrameInv, AxisIsFrames
  <1>3. CASE Frame
    <2>1. frame' = EmptyFrame /\ frame'.scroll = Still
      BY <1>3 DEF Frame, EmptyFrame
    <2>2. /\ axis' = Still /\ axis_pending' = FALSE
          /\ axis_source' \in Sources \cup {NoSource}
      BY <1>3 DEF Frame, ResetAxis, ScrollOK
    <2>3. EmptyFrame \in [scroll : Scrolls, events : Nat]
      BY StillTyped DEF EmptyFrame
    <2> QED BY <2>1, <2>2, <2>3, StillTyped DEF ScrollOK, FrameInv, AxisIsFrames
  <1>4. CASE UNCHANGED scrollVars
    BY <1>4 DEF scrollVars, ScrollOK, FrameInv, AxisIsFrames
  <1>5. ASSUME \/ Plugged \/ Unplugged \/ Leave \/ Motion \/ Button
               \/ (\E t \in Surfaces \cup {Foreign} : Enter(t))
               \/ (\E s \in Surfaces : DestroySurface(s)) \/ UNCHANGED vars
        PROVE  UNCHANGED scrollVars
    BY <1>5 DEF Plugged, Unplugged, Leave, Motion, Button, Enter, DestroySurface, vars,
       state, compositor, scrollVars
  <1> QED BY <1>1, <1>2, <1>3, <1>4, <1>5 DEF Next
-----------------------------------------------------------------------------
(* The focus.                                                              *)

LEMMA FocusKeeps ==
  ASSUME FocusOK, [Next]_vars
  PROVE  FocusOK'
  <1>1. Foreign \notin Surfaces /\ Nobody \notin Surfaces
    BY PointerAssumption
  <1>2. CASE Plugged
    BY <1>1, <1>2 DEF Plugged, FocusOK, FocusInv
  <1>3. CASE Unplugged
    BY <1>3 DEF Unplugged, FocusOK, FocusInv
  <1>4. ASSUME NEW t \in Surfaces \cup {Foreign}, Enter(t) PROVE FocusOK'
    <2>1. /\ wl_pointer = "live" /\ over = Nobody /\ over' = t
          /\ UNCHANGED <<wl_pointer, live, capable>>
      BY <1>4 DEF Enter
    <2>2. focused_surface = Nobody
      BY <2>1, <1>1 DEF FocusOK, FocusInv
    <2>3. CASE t \in live
      BY <1>4, <2>1, <2>3 DEF Enter, Found, FocusOK, FocusInv
    <2>4. CASE t \notin live
      BY <1>4, <2>1, <2>2, <2>4 DEF Enter, Found, FocusOK, FocusInv
    <2> QED BY <2>3, <2>4
  <1>5. CASE Leave
    BY <1>1, <1>5 DEF Leave, Unfocus, Found, FocusOK, FocusInv
  <1>6. ASSUME NEW s \in Surfaces, DestroySurface(s) PROVE FocusOK'
    BY <1>6 DEF DestroySurface, state, FocusOK, FocusInv
  <1>7. CASE UNCHANGED <<focusVars, capable, live>>
    BY <1>7 DEF focusVars, FocusOK, FocusInv
  <1>8. ASSUME \/ Motion \/ Button \/ Frame
               \/ (\E a \in Axes, m \in Measures, d \in Deltas : AxisMoved(a, m, d))
               \/ (\E source \in Sources \cup {NoSource} : AxisSource(source)) \/ UNCHANGED vars
        PROVE  UNCHANGED <<focusVars, capable, live>>
    BY <1>8 DEF Motion, Button, Frame, AxisMoved, AxisSource, vars, state, compositor,
       focusVars
  <1> QED BY <1>2, <1>3, <1>4, <1>5, <1>6, <1>7, <1>8 DEF Next
-----------------------------------------------------------------------------
(* Serials.                                                                *)

LEMMA SerialKeeps ==
  ASSUME SerialOK, [Next]_vars
  PROVE  SerialOK'
  <1>1. ASSUME NEW t \in Surfaces \cup {Foreign}, Enter(t) PROVE SerialOK'
    BY <1>1 DEF Enter, SerialOK, CursorHonoured
  <1>2. CASE Button
    BY <1>2 DEF Button, KeepSerial, SerialOK, CursorHonoured
  <1>3. CASE UNCHANGED serialVars
    BY <1>3 DEF serialVars, SerialOK, CursorHonoured
  <1>4. ASSUME \/ Plugged \/ Unplugged \/ Leave \/ Motion \/ Frame
               \/ (\E a \in Axes, m \in Measures, d \in Deltas : AxisMoved(a, m, d))
               \/ (\E source \in Sources \cup {NoSource} : AxisSource(source))
               \/ (\E s \in Surfaces : DestroySurface(s)) \/ UNCHANGED vars
        PROVE  UNCHANGED serialVars
    BY <1>4 DEF Plugged, Unplugged, Leave, Motion, Frame, AxisMoved, AxisSource,
       DestroySurface, vars, state, compositor, serialVars
  <1> QED BY <1>1, <1>2, <1>3, <1>4 DEF Next
-----------------------------------------------------------------------------
LEMMA Invariance == Spec => []IInv
  <1>1. Init => IInv
    <2> SUFFICES ASSUME Init PROVE ScrollOK /\ FocusOK /\ SerialOK
      BY Parts
    <2>1. /\ frame.scroll = Still
          /\ frame \in [scroll : Scrolls, events : Nat]
      BY StillTyped DEF Init, EmptyFrame
    <2>2. ScrollOK
      BY <2>1, StillTyped DEF Init, ScrollOK, FrameInv, AxisIsFrames
    <2>3. FocusOK
      BY PointerAssumption DEF Init, FocusOK, FocusInv
    <2>4. SerialOK
      BY DEF Init, SerialOK, CursorHonoured
    <2> QED BY <2>2, <2>3, <2>4
  <1>2. IInv /\ [Next]_vars => IInv'
    <2>1. ScrollOK /\ FocusOK /\ SerialOK /\ [Next]_vars
            => ScrollOK' /\ FocusOK' /\ SerialOK'
      BY ScrollKeeps, FocusKeeps, SerialKeeps
    <2>2. ScrollOK' /\ FocusOK' /\ SerialOK' => IInv'
      BY Parts DEF IInv, TypeOK, ScrollOK, FocusOK, SerialOK, FocusInv, FrameInv,
         AxisIsFrames, CursorHonoured
    <2> QED BY <2>1, <2>2, Parts
  <1> QED BY <1>1, <1>2, PTL DEF Spec
-----------------------------------------------------------------------------
(* Theorems.                                                               *)

\* The variables keep their types, and nothing is accumulated without its flag
\* (PointerState::axis_pending).
THEOREM TypeCorrect == Spec => []TypeOK
  BY Invariance, PTL DEF IInv

\* No scrolling is lost or carried into another frame (wl_pointer.frame and
\* reset_axis).
THEOREM FramesAddUp == Spec => []AxisIsFrames
  <1>1. IInv => AxisIsFrames
    BY DEF IInv, FrameInv
  <1> QED BY Invariance, <1>1, PTL

\* set_cursor sends the serial of the last enter (PointerState::enter_serial).
THEOREM CursorSerial == Spec => []CursorHonoured
  BY Invariance, PTL DEF IInv

FollowStep ==
  news'.kind \notin {"none", "entered"} => news'.surface = over /\ news'.surface = told_over

\* Pointer events are for the surface under the pointer, which the consumer was
\* told of (the wl_pointer dispatcher).
THEOREM EventsAtPointer == Spec => EventsFollowPointer
  <1>1. ASSUME IInv, [Next]_vars PROVE FollowStep \/ UNCHANGED vars
    <2>1. ASSUME \/ Plugged \/ Unplugged \/ (\E t \in Surfaces \cup {Foreign} : Enter(t))
                 \/ (\E a \in Axes, m \in Measures, d \in Deltas : AxisMoved(a, m, d))
                 \/ (\E source \in Sources \cup {NoSource} : AxisSource(source))
                 \/ (\E s \in Surfaces : DestroySurface(s))
          PROVE  news'.kind \in {"none", "entered"}
      <3>1. ASSUME NEW t \in Surfaces \cup {Foreign}, Enter(t)
            PROVE  news' \in {Silence, [kind |-> "entered", surface |-> t]}
        BY <3>1 DEF Enter
      <3>2. ASSUME ~ \E t \in Surfaces \cup {Foreign} : Enter(t)
            PROVE  news' = Silence
        BY <2>1, <3>2 DEF Plugged, Unplugged, AxisMoved, AxisSource, DestroySurface
      <3> QED BY <3>1, <3>2 DEF Silence
    <2>2. CASE Leave
      BY <1>1, <2>2, PointerAssumption
         DEF Leave, Found, Silence, FollowStep, IInv, TypeOK, FocusInv
    <2>3. CASE Motion \/ Button
      BY <1>1, <2>3 DEF Motion, Button, News, Silence, FollowStep, IInv, FocusInv
    <2>4. CASE Frame
      BY <1>1, <2>4 DEF Frame, FrameNews, ScrollNews, Silence, FollowStep, IInv, FocusInv
    <2> QED BY <1>1, <2>1, <2>2, <2>3, <2>4 DEF Next, FollowStep
  <1> QED BY Invariance, <1>1, PTL DEF Spec, EventsFollowPointer, FollowStep

ScrollStep ==
  IF frame' = EmptyFrame /\ frame # EmptyFrame /\ focused_surface # Nobody
  THEN
    \A a \in Axes :
      LET sent == frame.scroll[a]
          sign == IF a = "vertical" THEN -1 ELSE 1
      IN IF \A m \in Measures : sent[m] = 0
         THEN news'.kind = "scroll" => a \notin DOMAIN news'.amounts
         ELSE /\ news'.kind = "scroll" /\ a \in DOMAIN news'.amounts
              /\ \A m \in Measures : news'.amounts[a][m] = sign * sent[m]
  ELSE news'.kind # "scroll"

\* Only wl_pointer.frame empties a frame.
LEMMA FrameEnds ==
  ASSUME IInv, Next, frame' = EmptyFrame, frame # EmptyFrame
  PROVE  Frame
  <1>1. ASSUME NEW a \in Axes, NEW m \in Measures, NEW d \in Deltas, AxisMoved(a, m, d)
        PROVE  FALSE
    <2>1. frame'.events = frame.events + 1 /\ frame.events \in Nat
      BY <1>1 DEF AxisMoved, IInv, FrameInv
    <2> QED BY <2>1 DEF EmptyFrame
  <1>2. ASSUME \/ Plugged \/ Unplugged \/ Leave \/ Motion \/ Button
               \/ (\E t \in Surfaces \cup {Foreign} : Enter(t))
               \/ (\E source \in Sources \cup {NoSource} : AxisSource(source))
               \/ (\E s \in Surfaces : DestroySurface(s))
        PROVE  frame' = frame
    BY <1>2 DEF Plugged, Unplugged, Leave, Motion, Button, Enter, AxisSource,
       DestroySurface, state, compositor
  <1> QED BY <1>1, <1>2 DEF Next

\* What the end of a frame pushes over a surface of ours.
LEMMA FramePushes ==
  ASSUME IInv, Frame, focused_surface # Nobody
  PROVE  \A a \in Axes :
           LET sent == frame.scroll[a]
               sign == IF a = "vertical" THEN -1 ELSE 1
           IN IF \A m \in Measures : sent[m] = 0
              THEN news'.kind = "scroll" => a \notin DOMAIN news'.amounts
              ELSE /\ news'.kind = "scroll" /\ a \in DOMAIN news'.amounts
                   /\ \A m \in Measures : news'.amounts[a][m] = sign * sent[m]
  <1> DEFINE amounts == [a \in Moved(axis) |-> [m \in Measures |-> Flipped(a, m)]]
             source == IF axis_source = NoSource THEN Wheel ELSE axis_source
  <1>1. axis = frame.scroll /\ axis \in Scrolls
    BY DEF IInv, TypeOK, FrameInv, AxisIsFrames
  <1>2. Moved(axis) # {} => axis_pending
    <2>1. Moved(Still) = {}
      BY DEF Moved, Still
    <2> QED BY <2>1 DEF IInv, TypeOK
  <1>3. Moved(axis) = {} => news'.kind = "none"
    BY DEF Frame, FrameNews, Silence
  <1>4. Moved(axis) # {} => news' = ScrollNews(amounts, source)
    BY <1>2 DEF Frame, FrameNews
  <1>5. Moved(axis) # {} => news'.kind = "scroll" /\ news'.amounts = amounts
    <2> HIDE DEF amounts, source
    <2> QED BY <1>4 DEF ScrollNews
  <1> SUFFICES ASSUME NEW a \in Axes
               PROVE  IF \A m \in Measures : axis[a][m] = 0
                      THEN news'.kind = "scroll" => a \notin DOMAIN news'.amounts
                      ELSE /\ news'.kind = "scroll" /\ a \in DOMAIN news'.amounts
                           /\ \A m \in Measures :
                                news'.amounts[a][m] =
                                  (IF a = "vertical" THEN -1 ELSE 1) * axis[a][m]
    BY <1>1
  <1>6. DOMAIN amounts = Moved(axis)
    OBVIOUS
  <1>7. CASE a \notin Moved(axis)
    <2>1. \A m \in Measures : axis[a][m] = 0
      BY <1>7 DEF Moved
    <2>2. news'.kind = "scroll" => a \notin DOMAIN news'.amounts
      <3> HIDE DEF amounts
      <3> QED BY <1>3, <1>5, <1>6, <1>7
    <2> QED BY <2>1, <2>2
  <1>8. CASE a \in Moved(axis)
    <2>1. ~ \A m \in Measures : axis[a][m] = 0
      BY <1>8 DEF Moved
    <2>2. ASSUME NEW m \in Measures
          PROVE  amounts[a][m] = (IF a = "vertical" THEN -1 ELSE 1) * axis[a][m]
      <3>1. axis[a][m] \in Int
        BY <1>1 DEF Scrolls
      <3>2. amounts[a][m] = Flipped(a, m)
        BY <1>8
      <3> HIDE DEF amounts
      <3> QED BY <3>1, <3>2 DEF Flipped
    <2>3. news'.kind = "scroll" /\ news'.amounts = amounts
      BY <1>5, <1>8
    <2> HIDE DEF amounts
    <2> QED BY <1>6, <1>8, <2>1, <2>2, <2>3
  <1> QED BY <1>7, <1>8

\* No other step scrolls, nor does a frame in which nothing was sent.
LEMMA OnlyFramesScroll ==
  ASSUME IInv, Next,
         ~(frame' = EmptyFrame /\ frame # EmptyFrame /\ focused_surface # Nobody)
  PROVE  news'.kind # "scroll"
  <1>1. CASE Frame
    <2>1. frame = EmptyFrame => Moved(axis) = {}
      BY DEF IInv, FrameInv, AxisIsFrames, EmptyFrame, Moved, Still
    <2>2. news' = Silence
      BY <1>1, <2>1 DEF Frame, FrameNews
    <2> QED BY <2>2 DEF Silence
  <1>2. ASSUME NEW t \in Surfaces \cup {Foreign}, Enter(t)
        PROVE  news' \in {Silence, [kind |-> "entered", surface |-> t]}
    BY <1>2 DEF Enter
  <1>3. CASE Leave
    BY <1>3 DEF Leave, Silence
  <1>4. CASE Motion \/ Button
    BY <1>4 DEF Motion, Button, News, Silence
  <1>5. ASSUME \/ Plugged \/ Unplugged
               \/ (\E a \in Axes, m \in Measures, d \in Deltas : AxisMoved(a, m, d))
               \/ (\E source \in Sources \cup {NoSource} : AxisSource(source))
               \/ (\E s \in Surfaces : DestroySurface(s))
        PROVE  news' = Silence
    BY <1>5 DEF Plugged, Unplugged, AxisMoved, AxisSource, DestroySurface
  <1> QED BY <1>1, <1>2, <1>3, <1>4, <1>5 DEF Next, Silence

\* The end of a frame over a surface of ours scrolls by what was sent in it, of
\* every axis and measure, and nothing else scrolls (wl_pointer.frame).
THEOREM FramesScroll == Spec => FrameScrolls
  <1>1. ASSUME IInv, [Next]_vars PROVE ScrollStep \/ UNCHANGED vars
    <2>1. CASE frame' = EmptyFrame /\ frame # EmptyFrame /\ focused_surface # Nobody /\ Next
      BY <1>1, <2>1, FrameEnds, FramePushes DEF ScrollStep
    <2>2. CASE Next /\ ~(frame' = EmptyFrame /\ frame # EmptyFrame /\ focused_surface # Nobody)
      BY <1>1, <2>2, OnlyFramesScroll DEF ScrollStep
    <2> QED BY <1>1, <2>1, <2>2
  <1> QED BY Invariance, <1>1, PTL DEF Spec, FrameScrolls, ScrollStep
=============================================================================
