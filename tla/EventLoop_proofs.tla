-------------------------- MODULE EventLoop_proofs --------------------------
(***************************************************************************)
(* What run_app guarantees for every set of surfaces, every bound on the   *)
(* messages, the user events and the repeat budget, and every consumer:    *)
(* type correctness, silence and return after exit(), no repeat of a       *)
(* released key, no redraw forgotten and no sleep on work at hand.         *)
(***************************************************************************)
EXTENDS EventLoop, TLAPS, FiniteSetTheorems, SequenceTheorems

USE ConstantsAssumption

\* What an event is, seen from each of its kinds.
LEMMA EventKinds ==
  ASSUME NEW e \in Events
  PROVE  /\ e.kind \in Kinds => e.kind # "ping" /\ e.n \in 1..MaxWire
         /\ e.kind = "redraw" => e.surface \in Surfaces
         /\ e.kind \in (Kinds \ {"ping"}) \cup {"redraw", "repeat"}
  BY DEF Events, Kinds

\* A message that is no ping is the event it makes.
LEMMA MessageIsEvent ==
  ASSUME NEW m \in Messages, m.kind # "ping"
  PROVE  m \in Events
  BY DEF Messages, Events

\* The redraw drain queues redraw events only, whatever order the flags come in.
LEMMA RedrawsAreEvents ==
  ASSUME NEW S \in SUBSET Surfaces, NEW o \in Orders(S)
  PROVE  /\ o \in Seq(Surfaces)
         /\ [i \in DOMAIN o |-> RedrawEvent(o[i])] \in Seq(Events)
<1>1. Cardinality(S) \in Nat
  BY FS_Subset, FS_CardinalityType
<1>2. o \in [1..Cardinality(S) -> S]
  BY DEF Orders
<1>3. \A i \in 1..Cardinality(S) : RedrawEvent(o[i]) \in Events
  BY <1>2 DEF RedrawEvent, Events
<1>. QED
  BY <1>1, <1>2, <1>3
-----------------------------------------------------------------------------
(* Type correctness.                                                       *)

\* A callback keeps the types, whoever calls it.
LEMMA CallbackType ==
  ASSUME TypeOK, NEW caller, NEW served, Callback(caller, served)
  PROVE  /\ exit_requested' \in BOOLEAN
         /\ wait_until' \in {"none", "future", "past"}
         /\ (needs_redraw \cup unanswered)' \subseteq Surfaces
  BY DEF TypeOK, Callback, RequestRedraws, Sooner

\* So does a message of the compositor.
LEMMA SendType ==
  ASSUME TypeOK, NEW kind \in WireKinds, CompositorSends(kind)
  PROVE  TypeOK'
<1>1. sent + 1 \in 1..MaxWire /\ sent' = sent + 1
  BY DEF CompositorSends, TypeOK
<1>2. socket' \in Seq(Messages)
  BY <1>1 DEF CompositorSends, Messages, TypeOK
<1>3. key_down' \in BOOLEAN
  BY DEF CompositorSends, TypeOK
<1>4. UNCHANGED <<loop, needs_redraw, queue, failed, connected, users, history>>
  BY DEF CompositorSends
<1>. QED
  BY <1>1, <1>2, <1>3, <1>4 DEF TypeOK, loop, history

\* So does a thread that requests a redraw.
LEMMA ThreadType ==
  ASSUME TypeOK, NEW s \in Surfaces, ThreadRequestsRedraw(s)
  PROVE  TypeOK'
<1>1. needs_redraw' \subseteq Surfaces /\ unanswered' \subseteq Surfaces
  BY DEF ThreadRequestsRedraw, RequestRedraws, TypeOK
<1>2. UNCHANGED <<loop, queue, wire, users, seen, answered, view_down>>
  BY DEF ThreadRequestsRedraw
<1>. QED
  BY <1>1, <1>2 DEF TypeOK, loop, wire

\* So does a read.
LEMMA ReadType ==
  ASSUME TypeOK, ReadSocket
  PROVE  queue' \in Seq(Messages) /\ socket' \in Seq(Messages) /\ failed' \in BOOLEAN
<1>1. queue' \in Seq(Messages) /\ socket' \in Seq(Messages)
  BY DEF ReadSocket, TypeOK
<1>2. failed' \in BOOLEAN
  BY DEF ReadSocket
<1>. QED
  BY <1>1, <1>2

LEMMA TypeStep == TypeOK /\ [Next]_vars => TypeOK'
<1>. SUFFICES ASSUME TypeOK, [Next]_vars PROVE TypeOK'
  OBVIOUS
<1>. USE DEF vars, loop, wire, history
<1>1. CASE Resumed
  BY <1>1, CallbackType DEF Resumed, TypeOK, Phases
<1>2. CASE Top
  BY <1>2 DEF Top, TypeOK, Phases
<1>3. CASE UserEvent
  BY <1>3, CallbackType DEF UserEvent, AfterCallback, TypeOK, Phases
<1>4. CASE UsersDrained
  BY <1>4 DEF UsersDrained, TypeOK, Phases
<1>5. CASE Flush
  BY <1>5 DEF Flush, TypeOK, Phases
<1>6. CASE DrainRedrawRequests
  <2>1. PICK o \in Orders(needs_redraw) :
          pending_events' = pending_events \o [i \in DOMAIN o |-> RedrawEvent(o[i])]
    BY <1>6 DEF DrainRedrawRequests
  <2>2. [i \in DOMAIN o |-> RedrawEvent(o[i])] \in Seq(Events)
    BY RedrawsAreEvents DEF TypeOK
  <2>3. pending_events' \in Seq(Events)
    BY <2>1, <2>2 DEF TypeOK
  <2>. QED
    BY <1>6, <2>3 DEF DrainRedrawRequests, ClearFlags, TypeOK, Phases
<1>7. CASE DrainKeyRepeats
  <2>1. PICK due \in 0..(IF repeating THEN MaxTicks ELSE 0) :
          pending_events' = pending_events \o [i \in 1..due |-> RepeatEvent]
    BY <1>7 DEF DrainKeyRepeats
  <2>2. [i \in 1..due |-> RepeatEvent] \in Seq(Events)
    BY DEF RepeatEvent, Events
  <2>3. pending_events' \in Seq(Events)
    BY <2>1, <2>2 DEF TypeOK
  <2>. QED
    BY <1>7, <2>3 DEF DrainKeyRepeats, TypeOK, Phases
<1>8. CASE ComputeTimeout
  BY <1>8 DEF ComputeTimeout, TypeOK, Phases
<1>9. CASE DispatchPending
  <2>1. Head(queue) \in Messages /\ queue' \in Seq(Messages)
    BY <1>9 DEF DispatchPending, TypeOK
  <2>2. outgoing' \subseteq 1..MaxWire
    BY <1>9, <2>1 DEF DispatchPending, Dispatch, Pong, Messages, TypeOK
  <2>3. pending_events' \in Seq(Events)
    <3>1. CASE Head(queue).kind = "ping"
      BY <1>9, <3>1 DEF DispatchPending, Dispatch, TypeOK
    <3>2. CASE Head(queue).kind # "ping"
      <4>1. Head(queue) \in Events
        BY <2>1, <3>2, MessageIsEvent
      <4>2. PushEvent(Head(queue))
        BY <1>9, <3>2 DEF DispatchPending, Dispatch
      <4>. QED
        BY <4>1, <4>2 DEF PushEvent, TypeOK
    <3>. QED
      BY <3>1, <3>2
  <2>4. repeating' \in BOOLEAN
    BY <1>9 DEF DispatchPending, Dispatch, RepeatingAfter, TypeOK
  <2>. QED
    BY <1>9, <2>1, <2>2, <2>3, <2>4 DEF DispatchPending, TypeOK
<1>10. CASE PumpCheck
  BY <1>10 DEF PumpCheck, TypeOK, Phases
<1>11. CASE PumpRead
  <2>1. queue' \in Seq(Messages) /\ socket' \in Seq(Messages) /\ failed' \in BOOLEAN
    BY <1>11, ReadType DEF PumpRead, TypeOK
  <2>. QED
    BY <1>11, <2>1 DEF PumpRead, TypeOK, Phases
<1>12. CASE PumpDispatched
  BY <1>12 DEF PumpDispatched, TypeOK, Phases
<1>13. CASE PumpTimeout
  BY <1>13 DEF PumpTimeout, TypeOK, Phases
<1>14. CASE Take
  BY <1>14 DEF Take, TakePending, TypeOK, Phases
<1>15. CASE Deliver
  <2>. DEFINE e == Head(drained)
  <2>1. e \in Events /\ drained' \in Seq(Events)
    BY <1>15 DEF Deliver, TypeOK
  <2>2. seen' \subseteq 1..MaxWire
    BY <1>15, <2>1, EventKinds DEF Deliver, TypeOK
  <2>3. view_down' \in BOOLEAN
    BY <1>15 DEF Deliver, TypeOK
  <2>4. pc' \in Phases
    BY <1>15 DEF Deliver, AfterCallback, Phases
  <2>. QED
    BY <1>15, <2>1, <2>2, <2>3, <2>4, CallbackType DEF Deliver, TypeOK
<1>16. CASE Delivered
  BY <1>16 DEF Delivered, TypeOK, Phases
<1>17. CASE AboutToWait
  BY <1>17, CallbackType DEF AboutToWait, TypeOK, Phases
<1>18. CASE Exiting
  BY <1>18 DEF Exiting, TypeOK, Phases
<1>19. ASSUME NEW kind \in WireKinds, CompositorSends(kind) PROVE TypeOK'
  BY <1>19, SendType
<1>20. CASE CompositorDies
  BY <1>20 DEF CompositorDies, TypeOK
<1>21. CASE ProxySend
  BY <1>21 DEF ProxySend, TypeOK
<1>22. ASSUME NEW s \in Surfaces, ThreadRequestsRedraw(s) PROVE TypeOK'
  BY <1>22, ThreadType
<1>23. CASE OtherReaderReads
  <2>1. queue' \in Seq(Messages) /\ socket' \in Seq(Messages) /\ failed' \in BOOLEAN
    BY <1>23, ReadType DEF OtherReaderReads
  <2>. QED
    BY <1>23, <2>1 DEF OtherReaderReads, TypeOK
<1>24. CASE UNCHANGED vars
  BY <1>24 DEF TypeOK
<1>. QED
  BY <1>1, <1>2, <1>3, <1>4, <1>5, <1>6, <1>7, <1>8, <1>9, <1>10, <1>11, <1>12,
     <1>13, <1>14, <1>15, <1>16, <1>17, <1>18, <1>19, <1>20, <1>21, <1>22, <1>23,
     <1>24
     DEF Next, RunApp, Environment, Terminated

\* The loop's state keeps its types, whatever the consumer, the compositor and
\* the other threads do.
THEOREM TypeCorrect == Spec => []TypeOK
<1>1. Init => TypeOK
  <2>. SUFFICES ASSUME Init PROVE TypeOK
    OBVIOUS
  <2>1. /\ pending_events \in Seq(Events) /\ drained \in Seq(Events)
        /\ queue \in Seq(Messages) /\ socket \in Seq(Messages)
    BY DEF Init
  <2>2. sent \in 0..MaxWire /\ users \in 0..MaxUsers
    BY DEF Init
  <2>3. /\ needs_redraw \subseteq Surfaces /\ unanswered \subseteq Surfaces
        /\ outgoing \subseteq 1..MaxWire /\ seen \subseteq 1..MaxWire
        /\ answered \subseteq 1..MaxWire
    BY DEF Init
  <2>. QED
    BY <2>1, <2>2, <2>3 DEF Init, TypeOK, Phases
<1>. QED
  BY <1>1, TypeStep, PTL DEF Spec
-----------------------------------------------------------------------------
(* Silence after exit().                                                   *)

\* Where run_app can be once exit() was called: it looks at the flag after
\* every user event and every window event, and at the top of the loop after
\* the two callbacks that lead there.
ExitIsSeen == exit_requested => pc \in {"top", "exiting", "returned"}

LEMMA ExitStep == ExitIsSeen /\ [Next]_vars => ExitIsSeen'
<1>. SUFFICES ASSUME ExitIsSeen, [Next]_vars PROVE ExitIsSeen'
  OBVIOUS
<1>1. CASE RunApp
  BY <1>1 DEF ExitIsSeen, RunApp, AfterCallback, Callback,
     Resumed, Top, UserEvent, UsersDrained, Flush, DrainRedrawRequests,
     DrainKeyRepeats, ComputeTimeout, DispatchPending, PumpCheck, PumpRead,
     PumpDispatched, PumpTimeout, Take, Deliver, Delivered, AboutToWait, Exiting
<1>2. CASE Environment \/ Terminated \/ UNCHANGED vars
  BY <1>2 DEF ExitIsSeen, Environment, Terminated, vars, loop, CompositorSends,
     CompositorDies, ProxySend, ThreadRequestsRedraw, OtherReaderReads
<1>. QED
  BY <1>1, <1>2 DEF Next

\* After exit() a step of the loop goes to its end and to nowhere else.
LEMMA SilentStep ==
  TypeOK /\ ExitIsSeen /\ [Next]_vars =>
    [exit_requested =>
       /\ pc' \in {pc, "exiting", "returned"}
       /\ drained' = drained /\ users' >= users /\ wait_until' = wait_until]_vars
<1>. SUFFICES ASSUME TypeOK, ExitIsSeen, Next, exit_requested
              PROVE  /\ pc' \in {pc, "exiting", "returned"}
                     /\ drained' = drained /\ users' >= users
                     /\ wait_until' = wait_until
  OBVIOUS
<1>1. pc \in {"top", "exiting", "returned"} /\ users \in Nat
  BY DEF ExitIsSeen, TypeOK
<1>2. CASE RunApp
  <2>1. Top \/ Exiting
    BY <1>1, <1>2 DEF RunApp, Resumed, UserEvent, UsersDrained, Flush,
       DrainRedrawRequests, DrainKeyRepeats, ComputeTimeout, DispatchPending,
       PumpCheck, PumpRead, PumpDispatched, PumpTimeout, Take, Deliver, Delivered,
       AboutToWait
  <2>2. /\ pc' \in {pc, "exiting", "returned"}
        /\ drained' = drained /\ users' = users /\ wait_until' = wait_until
    BY <2>1 DEF Top, Exiting
  <2>. QED
    BY <1>1, <2>2
<1>3. CASE Environment \/ Terminated
  <2>1. /\ pc' = pc /\ drained' = drained /\ wait_until' = wait_until
        /\ users' = users \/ users' = users + 1
    BY <1>3 DEF Environment, Terminated, vars, loop, CompositorSends,
       CompositorDies, ProxySend, ThreadRequestsRedraw, OtherReaderReads
  <2>. QED
    BY <1>1, <2>1
<1>. QED
  BY <1>2, <1>3 DEF Next

\* Once exit() was called no callback runs but exiting, whichever callback
\* called it and whatever is queued, flagged or still arriving.
THEOREM SilentAfterExit == Spec => NoCallbackAfterExit
<1>1. Init => ExitIsSeen
  BY DEF Init, ExitIsSeen
<1>. QED
  BY <1>1, ExitStep, SilentStep, TypeCorrect, PTL DEF Spec, NoCallbackAfterExit

\* Nothing leads out of the jam: a fatal error stays, and so does what the queue
\* holds and the emptiness of pending_events that sends the pump on its round.
LEMMA JamStep == TypeOK /\ Jammed /\ [Next]_vars => Jammed'
<1>. SUFFICES ASSUME TypeOK, Jammed, [Next]_vars PROVE Jammed'
  OBVIOUS
<1>1. CASE RunApp
  <2>1. PumpCheck
    BY <1>1 DEF Jammed, RunApp, Resumed, Top, UserEvent, UsersDrained, Flush,
       DrainRedrawRequests, DrainKeyRepeats, ComputeTimeout, DispatchPending, PumpRead,
       PumpDispatched, PumpTimeout, Take, Deliver, Delivered, AboutToWait, Exiting
  <2>. QED
    BY <2>1 DEF Jammed, PumpCheck, wire
<1>2. CASE Environment \/ Terminated \/ UNCHANGED vars
  BY <1>2 DEF Jammed, Environment, Terminated, vars, loop, wire, CompositorSends,
     CompositorDies, ProxySend, ThreadRequestsRedraw, OtherReaderReads
<1>. QED
  BY <1>1, <1>2 DEF Next

\* A run_app that is jammed never comes out, and so takes no further user event
\* and sees no flag: blocking_pump drops the error of dispatch_pending, and the
\* "continue" behind a refused prepare_read looks at no deadline.
THEOREM JamIsForever == Spec => [](Jammed => []Jammed)
  BY TypeCorrect, JamStep, PTL DEF Spec

\* The thread inside run_app goes on until it has returned or is jammed: what
\* WF_vars(RunApp) says of a loop that has a step to take anywhere else
\* (OwnStep below), without ENABLED.
Driven == []<><<RunApp>>_vars \/ <>(pc = "returned") \/ <>Jammed

ExitAt(where) == exit_requested /\ pc = where

\* After exit() each step of the loop is one step nearer to its return, and no
\* step of anyone else takes that back.
LEMMA ExitSteps ==
  ASSUME [Next]_vars
  PROVE  /\ exit_requested => exit_requested'
         /\ ExitAt("top") => (ExitAt("top") \/ ExitAt("exiting"))'
         /\ ExitAt("exiting") => (ExitAt("exiting") \/ ExitAt("returned"))'
         /\ pc = "returned" => (pc = "returned")'
         /\ ExitAt("top") /\ <<RunApp>>_vars => ExitAt("exiting")'
         /\ ExitAt("exiting") /\ <<RunApp>>_vars => ExitAt("returned")'
<1>1. CASE RunApp
  <2>1. exit_requested => exit_requested'
    BY <1>1 DEF RunApp, Resumed, Top, UserEvent, UsersDrained, Flush,
       DrainRedrawRequests, DrainKeyRepeats, ComputeTimeout, DispatchPending, PumpCheck,
       PumpRead, PumpDispatched, PumpTimeout, Take, Deliver, Delivered, AboutToWait,
       Exiting, Callback
  <2>2. /\ pc = "top" => pc' = IF exit_requested THEN "exiting" ELSE "user"
        /\ pc = "exiting" => pc' = "returned"
        /\ pc # "returned"
    BY <1>1 DEF RunApp, Resumed, Top, UserEvent, UsersDrained, Flush,
       DrainRedrawRequests, DrainKeyRepeats, ComputeTimeout, DispatchPending, PumpCheck,
       PumpRead, PumpDispatched, PumpTimeout, Take, Deliver, Delivered, AboutToWait,
       Exiting
  <2>. QED
    BY <2>1, <2>2 DEF ExitAt
<1>2. CASE ~RunApp
  <2>1. UNCHANGED <<pc, exit_requested>>
    BY <1>2 DEF Next, Environment, Terminated, vars, loop, CompositorSends,
       CompositorDies, ProxySend, ThreadRequestsRedraw, OtherReaderReads
  <2>. QED
    BY <1>2, <2>1 DEF ExitAt
<1>. QED
  BY <1>1, <1>2

\* exit() makes run_app return, for every consumer, whatever is queued and
\* whoever else keeps going: from the last three points of the loop, and there
\* its own steps lead on.  The jam is no way around it, since no callback runs
\* in there that could call exit().
THEOREM ExitLeadsOut == Spec /\ Driven => ExitReturns
<1>1. Init => ExitIsSeen
  BY DEF Init, ExitIsSeen
<1>2. exit_requested /\ ExitIsSeen =>
        ExitAt("top") \/ ExitAt("exiting") \/ pc = "returned"
  BY DEF ExitIsSeen, ExitAt
<1>3. ExitAt("returned") => pc = "returned"
  BY DEF ExitAt
<1>4. Jammed /\ ExitIsSeen => ~exit_requested
  BY DEF Jammed, ExitIsSeen
<1>. QED
  BY <1>1, <1>2, <1>3, <1>4, ExitStep, ExitSteps, JamStep, TypeCorrect, PTL
     DEF Spec, Driven, ExitReturns
-----------------------------------------------------------------------------
(* No repeat after a release.                                              *)

\* The drained events are handed over before anything is queued again.
OneLine ==
  /\ pc = "deliver" => pending_events = <<>>
  /\ pc \notin {"deliver", "exiting", "returned"} => drained = <<>>

\* The events on their way to the handler, oldest first.
Line == IF pc = "deliver" THEN drained ELSE pending_events

\* Is the key down once the first i - 1 events of the line were handled, when
\* down says so of the handler now?
DownAt(line, down, i) ==
  \/ down /\ \A k \in 1..(i - 1) : ~IsKey(line[k])
  \/ \E j \in 1..(i - 1) :
       /\ line[j].kind = "press"
       /\ \A k \in (j + 1)..(i - 1) : ~IsKey(line[k])

\* Every repeat of the line finds the key down.
RepeatsDown(line, down) ==
  \A i \in DOMAIN line : line[i] = RepeatEvent => DownAt(line, down, i)

\* So it is in run_app, and a key is armed only while the line leaves it down:
\* a tick that is queued comes after the press and before the release.
RepeatInv ==
  /\ OneLine
  /\ pc \notin {"exiting", "returned"} =>
       /\ RepeatsDown(Line, view_down)
       /\ repeating => DownAt(Line, view_down, Len(Line) + 1)

\* It depends on the first i - 1 events only.
LEMMA DownPrefix ==
  ASSUME NEW line, NEW longer, NEW down, NEW i \in Nat,
         \A k \in 1..(i - 1) : longer[k] = line[k], DownAt(line, down, i)
  PROVE  DownAt(longer, down, i)
  BY DEF DownAt

\* Events that are no key events leave it as it is.
LEMMA DownStays ==
  ASSUME NEW line, NEW down, NEW i \in Nat \ {0}, NEW m \in Nat, i <= m,
         \A k \in i..(m - 1) : ~IsKey(line[k]), DownAt(line, down, i)
  PROVE  DownAt(line, down, m)
<1>1. CASE down /\ \A k \in 1..(i - 1) : ~IsKey(line[k])
  <2>1. \A k \in 1..(m - 1) : k \in 1..(i - 1) \/ k \in i..(m - 1)
    OBVIOUS
  <2>. QED
    BY <1>1, <2>1 DEF DownAt
<1>2. ASSUME NEW j \in 1..(i - 1), line[j].kind = "press",
             \A k \in (j + 1)..(i - 1) : ~IsKey(line[k])
      PROVE  DownAt(line, down, m)
  <2>1. j \in 1..(m - 1)
    OBVIOUS
  <2>2. \A k \in (j + 1)..(m - 1) : k \in (j + 1)..(i - 1) \/ k \in i..(m - 1)
    OBVIOUS
  <2>. QED
    BY <1>2, <2>1, <2>2 DEF DownAt
<1>. QED
  BY <1>1, <1>2 DEF DownAt

\* Redraws, repeats and input may be queued behind a line: repeats only behind
\* one that leaves the key down.
LEMMA LineGrows ==
  ASSUME NEW line \in Seq(Events), NEW ext \in Seq(Events), NEW down,
         RepeatsDown(line, down),
         \A k \in DOMAIN ext : ~IsKey(ext[k]),
         (\E k \in DOMAIN ext : ext[k] = RepeatEvent) =>
           DownAt(line, down, Len(line) + 1)
  PROVE  /\ RepeatsDown(line \o ext, down)
         /\ DownAt(line, down, Len(line) + 1) =>
              DownAt(line \o ext, down, Len(line \o ext) + 1)
<1>. DEFINE all == line \o ext
<1>1. /\ all \in Seq(Events) /\ Len(all) = Len(line) + Len(ext)
      /\ DOMAIN all = 1..(Len(line) + Len(ext)) /\ DOMAIN line = 1..Len(line)
      /\ DOMAIN ext = 1..Len(ext)
      /\ Len(line) \in Nat /\ Len(ext) \in Nat
  BY ConcatProperties, LenProperties
<1>2. /\ \A k \in 1..Len(line) : all[k] = line[k]
      /\ \A k \in (Len(line) + 1)..Len(all) :
           k - Len(line) \in DOMAIN ext /\ all[k] = ext[k - Len(line)]
  BY <1>1, ConcatProperties
<1>3. \A k \in (Len(line) + 1)..Len(all) : ~IsKey(all[k])
  BY <1>2
<1>4. ASSUME NEW m \in (Len(line) + 1)..(Len(all) + 1),
             DownAt(line, down, Len(line) + 1)
      PROVE  DownAt(all, down, m)
  <2>1. /\ Len(line) + 1 \in Nat \ {0} /\ m \in Nat /\ Len(line) + 1 <= m
        /\ \A k \in 1..(Len(line) + 1 - 1) : all[k] = line[k]
        /\ \A k \in (Len(line) + 1)..(m - 1) : ~IsKey(all[k])
    BY <1>1, <1>2, <1>3
  <2>2. DownAt(all, down, Len(line) + 1)
    <3>1. PICK n \in Nat : n = Len(line) + 1
      BY <2>1
    <3>2. DownAt(line, down, n) /\ \A k \in 1..(n - 1) : all[k] = line[k]
      BY <1>4, <2>1, <3>1
    <3>3. DownAt(all, down, n)
      BY <3>2, DownPrefix
    <3>. QED
      BY <3>1, <3>3
  <2>. QED
    BY <2>1, <2>2, DownStays
<1>5. ASSUME NEW i \in DOMAIN all, all[i] = RepeatEvent
      PROVE  DownAt(all, down, i)
  <2>1. CASE i <= Len(line)
    <3>1. i \in DOMAIN line /\ line[i] = RepeatEvent
      BY <1>1, <1>2, <1>5, <2>1
    <3>2. DownAt(line, down, i)
      BY <3>1 DEF RepeatsDown
    <3>3. i \in Nat /\ \A k \in 1..(i - 1) : all[k] = line[k]
      BY <1>1, <1>2, <2>1
    <3>. QED
      BY <3>2, <3>3, DownPrefix
  <2>2. CASE i > Len(line)
    BY <1>1, <1>2, <1>4, <1>5, <2>2
  <2>. QED
    BY <1>1, <2>1, <2>2
<1>. QED
  BY <1>1, <1>4, <1>5 DEF RepeatsDown

\* A press may be queued too, and leaves the key down; a release may.
LEMMA LineGetsKey ==
  ASSUME NEW line \in Seq(Events), NEW e \in Events, NEW down,
         RepeatsDown(line, down), e.kind # "repeat"
  PROVE  /\ RepeatsDown(Append(line, e), down)
         /\ e.kind = "press" =>
              DownAt(Append(line, e), down, Len(Append(line, e)) + 1)
<1>. DEFINE all == Append(line, e)
<1>1. /\ Len(all) = Len(line) + 1 /\ DOMAIN all = 1..(Len(line) + 1)
      /\ Len(line) \in Nat /\ DOMAIN line = 1..Len(line)
      /\ \A k \in 1..Len(line) : all[k] = line[k]
      /\ all[Len(line) + 1] = e
  BY AppendProperties, LenProperties
<1>2. ASSUME NEW i \in DOMAIN all, all[i] = RepeatEvent
      PROVE  DownAt(all, down, i)
  <2>1. i \in DOMAIN line /\ line[i] = RepeatEvent
    BY <1>1, <1>2 DEF RepeatEvent
  <2>2. DownAt(line, down, i)
    BY <2>1 DEF RepeatsDown
  <2>3. i \in Nat /\ \A k \in 1..(i - 1) : all[k] = line[k]
    BY <1>1, <2>1
  <2>. QED
    BY <2>2, <2>3, DownPrefix
<1>3. ASSUME e.kind = "press" PROVE DownAt(all, down, Len(all) + 1)
  <2>1. /\ Len(line) + 1 \in 1..(Len(all) + 1 - 1)
        /\ all[Len(line) + 1].kind = "press"
        /\ \A k \in (Len(line) + 1 + 1)..(Len(all) + 1 - 1) : ~IsKey(all[k])
    BY <1>1, <1>3
  <2>. QED
    BY <2>1 DEF DownAt
<1>. QED
  BY <1>2, <1>3 DEF RepeatsDown

\* Handing over the first event leaves the rest as it was: what the event said
\* of the key is what the handler knows now.
LEMMA DownTail ==
  ASSUME NEW line \in Seq(Events), line # <<>>, NEW down, NEW later,
         later <=> IF IsKey(Head(line)) THEN Head(line).kind = "press" ELSE down,
         NEW i \in 1..Len(line), DownAt(line, down, i + 1)
  PROVE  DownAt(Tail(line), later, i)
<1>1. /\ Len(line) \in Nat \ {0} /\ Head(line) = line[1]
      /\ \A k \in 1..(Len(line) - 1) : Tail(line)[k] = line[k + 1]
  BY HeadTailProperties, EmptySeq
<1>2. CASE down /\ \A k \in 1..(i + 1 - 1) : ~IsKey(line[k])
  <2>1. later
    BY <1>1, <1>2
  <2>2. \A k \in 1..(i - 1) : ~IsKey(Tail(line)[k])
    BY <1>1, <1>2
  <2>. QED
    BY <2>1, <2>2 DEF DownAt
<1>3. ASSUME NEW j \in 1..(i + 1 - 1), line[j].kind = "press",
             \A k \in (j + 1)..(i + 1 - 1) : ~IsKey(line[k])
      PROVE  DownAt(Tail(line), later, i)
  <2>1. \A k \in j..(i - 1) : ~IsKey(Tail(line)[k])
    BY <1>1, <1>3
  <2>2. CASE j = 1
    <3>1. later
      BY <1>1, <1>3, <2>2 DEF IsKey
    <3>. QED
      BY <2>1, <2>2, <3>1 DEF DownAt
  <2>3. CASE j # 1
    <3>1. j - 1 \in 1..(i - 1) /\ Tail(line)[j - 1].kind = "press"
      BY <1>1, <1>3, <2>3
    <3>2. \A k \in (j - 1 + 1)..(i - 1) : ~IsKey(Tail(line)[k])
      BY <2>1
    <3>. QED
      BY <3>1, <3>2 DEF DownAt
  <2>. QED
    BY <2>2, <2>3
<1>. QED
  BY <1>2, <1>3 DEF DownAt

LEMMA LineShrinks ==
  ASSUME NEW line \in Seq(Events), line # <<>>, NEW down, NEW later,
         later <=> IF IsKey(Head(line)) THEN Head(line).kind = "press" ELSE down,
         RepeatsDown(line, down)
  PROVE  /\ RepeatsDown(Tail(line), later)
         /\ DownAt(line, down, Len(line) + 1) =>
              DownAt(Tail(line), later, Len(Tail(line)) + 1)
<1>1. /\ Len(line) \in Nat \ {0} /\ Len(Tail(line)) = Len(line) - 1
      /\ DOMAIN line = 1..Len(line) /\ DOMAIN Tail(line) = 1..(Len(line) - 1)
      /\ \A k \in 1..(Len(line) - 1) : Tail(line)[k] = line[k + 1]
  BY HeadTailProperties, LenProperties, EmptySeq
<1>2. ASSUME NEW i \in DOMAIN Tail(line), Tail(line)[i] = RepeatEvent
      PROVE  DownAt(Tail(line), later, i)
  <2>1. i + 1 \in DOMAIN line /\ line[i + 1] = RepeatEvent
    BY <1>1, <1>2
  <2>2. DownAt(line, down, i + 1)
    BY <2>1 DEF RepeatsDown
  <2>3. i \in 1..Len(line)
    BY <1>1
  <2>. QED
    BY <2>2, <2>3, DownTail
<1>3. ASSUME DownAt(line, down, Len(line) + 1)
      PROVE  DownAt(Tail(line), later, Len(Tail(line)) + 1)
  <2>1. Len(line) \in 1..Len(line) /\ Len(line) = Len(Tail(line)) + 1
    BY <1>1
  <2>2. DownAt(Tail(line), later, Len(line))
    BY <1>3, <2>1, DownTail
  <2>. QED
    BY <2>1, <2>2
<1>. QED
  BY <1>2, <1>3 DEF RepeatsDown

LEMMA OneLineStep == OneLine /\ [Next]_vars => OneLine'
<1>. SUFFICES ASSUME OneLine, [Next]_vars PROVE OneLine'
  OBVIOUS
<1>1. CASE Deliver
  BY <1>1 DEF Deliver, AfterCallback, OneLine
<1>2. CASE RunApp /\ ~Deliver
  BY <1>2 DEF OneLine, RunApp, AfterCallback, TakePending,
     Resumed, Top, UserEvent, UsersDrained, Flush, DrainRedrawRequests,
     DrainKeyRepeats, ComputeTimeout, DispatchPending, PumpCheck, PumpRead,
     PumpDispatched, PumpTimeout, Take, Delivered, AboutToWait, Exiting
<1>3. CASE Environment \/ Terminated \/ UNCHANGED vars
  BY <1>3 DEF OneLine, Environment, Terminated, vars, loop, CompositorSends,
     CompositorDies, ProxySend, ThreadRequestsRedraw, OtherReaderReads
<1>. QED
  BY <1>1, <1>2, <1>3 DEF Next

\* The steps that leave the line, the handler's view and the timer alone.
LEMMA LineUntouched ==
  ASSUME RepeatInv, OneLine', UNCHANGED <<repeating, view_down>>,
         pc' \notin {"exiting", "returned"} => pc \notin {"exiting", "returned"},
         pc' \notin {"exiting", "returned"} => Line' = Line
  PROVE  RepeatInv'
  BY DEF RepeatInv

LEMMA RepeatStep == TypeOK /\ RepeatInv /\ [Next]_vars => RepeatInv'
<1>. SUFFICES ASSUME TypeOK, RepeatInv, [Next]_vars PROVE RepeatInv'
  OBVIOUS
<1>. OneLine /\ OneLine'
  BY OneLineStep DEF RepeatInv
<1>1. CASE DrainRedrawRequests
  <2>1. PICK o \in Orders(needs_redraw) :
          pending_events' = pending_events \o [i \in DOMAIN o |-> RedrawEvent(o[i])]
    BY <1>1 DEF DrainRedrawRequests
  <2>. DEFINE ext == [i \in DOMAIN o |-> RedrawEvent(o[i])]
  <2>2. ext \in Seq(Events) /\ pending_events \in Seq(Events)
    BY RedrawsAreEvents DEF TypeOK
  <2>3. \A k \in DOMAIN ext : ~IsKey(ext[k]) /\ ext[k] # RepeatEvent
    BY DEF RedrawEvent, RepeatEvent, IsKey
  <2>4. /\ Line = pending_events /\ Line' = pending_events \o ext
        /\ UNCHANGED <<repeating, view_down>> /\ pc \notin {"exiting", "returned"}
    BY <1>1, <2>1 DEF DrainRedrawRequests, Line, history
  <2>. HIDE DEF ext
  <2>5. /\ RepeatsDown(pending_events, view_down)
        /\ repeating => DownAt(pending_events, view_down, Len(pending_events) + 1)
    BY <2>4 DEF RepeatInv
  <2>6. /\ RepeatsDown(Line', view_down)
        /\ repeating => DownAt(Line', view_down, Len(Line') + 1)
    BY <2>2, <2>3, <2>4, <2>5, LineGrows
  <2>. QED
    BY <2>4, <2>6 DEF RepeatInv
<1>2. CASE DrainKeyRepeats
  <2>1. PICK due \in 0..(IF repeating THEN MaxTicks ELSE 0) :
          pending_events' = pending_events \o [i \in 1..due |-> RepeatEvent]
    BY <1>2 DEF DrainKeyRepeats
  <2>. DEFINE ext == [i \in 1..due |-> RepeatEvent]
  <2>2. ext \in Seq(Events) /\ pending_events \in Seq(Events)
    BY DEF TypeOK, RepeatEvent, Events
  <2>3. /\ \A k \in DOMAIN ext : ~IsKey(ext[k])
        /\ (\E k \in DOMAIN ext : ext[k] = RepeatEvent) => repeating
    BY DEF RepeatEvent, IsKey
  <2>4. /\ Line = pending_events /\ Line' = pending_events \o ext
        /\ UNCHANGED <<repeating, view_down>> /\ pc \notin {"exiting", "returned"}
    BY <1>2, <2>1 DEF DrainKeyRepeats, Line, history
  <2>. HIDE DEF ext
  <2>5. /\ RepeatsDown(pending_events, view_down)
        /\ repeating => DownAt(pending_events, view_down, Len(pending_events) + 1)
    BY <2>4 DEF RepeatInv
  <2>6. /\ RepeatsDown(Line', view_down)
        /\ repeating => DownAt(Line', view_down, Len(Line') + 1)
    BY <2>2, <2>3, <2>4, <2>5, LineGrows
  <2>. QED
    BY <2>4, <2>6 DEF RepeatInv
<1>3. CASE DispatchPending
  <2>. DEFINE m == Head(queue)
  <2>1. m \in Messages /\ pending_events \in Seq(Events)
    BY <1>3 DEF DispatchPending, TypeOK
  <2>2. /\ Dispatch(m) /\ view_down' = view_down
        /\ pc \in {"pump", "dispatch"} /\ pc' = pc
    BY <1>3 DEF DispatchPending, history
  <2>3. Line = pending_events /\ Line' = pending_events'
    BY <2>2 DEF Line
  <2>. HIDE DEF m
  <2>4. /\ RepeatsDown(pending_events, view_down)
        /\ repeating => DownAt(pending_events, view_down, Len(pending_events) + 1)
    BY <2>2, <2>3 DEF RepeatInv
  <2>5. CASE m.kind = "ping"
    BY <2>2, <2>3, <2>5, LineUntouched
       DEF Dispatch, RepeatingAfter, IsKey
  <2>6. CASE m.kind # "ping"
    <3>1. m \in Events /\ pending_events' = Append(pending_events, m)
      BY <2>1, <2>2, <2>6, MessageIsEvent DEF Dispatch, PushEvent
    <3>2. repeating' = RepeatingAfter(m)
      BY <2>2 DEF Dispatch
    <3>3. m.kind # "repeat"
      BY <2>1 DEF Messages, Kinds
    <3>4. RepeatsDown(pending_events', view_down)
      BY <2>1, <2>4, <3>1, <3>3, LineGetsKey
    <3>5. ASSUME repeating'
          PROVE  DownAt(pending_events', view_down, Len(pending_events') + 1)
      <4>1. CASE m.kind = "press"
        BY <2>1, <2>4, <3>1, <3>3, <4>1, LineGetsKey
      <4>2. CASE m.kind # "press"
        <5>1. repeating /\ ~IsKey(m)
          BY <3>2, <3>5, <4>2 DEF RepeatingAfter
        <5>2. /\ <<m>> \in Seq(Events) /\ Append(pending_events, m) = pending_events \o <<m>>
              /\ \A k \in DOMAIN <<m>> : ~IsKey(<<m>>[k])
          BY <2>1, <3>1, <5>1
        <5>. QED
          BY <2>1, <2>4, <3>1, <5>1, <5>2, LineGrows
      <4>. QED
        BY <4>1, <4>2
    <3>. QED
      BY <2>2, <2>3, <3>4, <3>5 DEF RepeatInv
  <2>. QED
    BY <2>5, <2>6
<1>4. CASE Take
  <2>1. Line' = Line
    BY <1>4 DEF Take, TakePending, Line
  <2>. QED
    BY <1>4, <2>1, LineUntouched DEF Take, history
<1>5. CASE Deliver
  <2>1. /\ drained \in Seq(Events) /\ drained # <<>> /\ drained' = Tail(drained)
        /\ pc = "deliver" /\ pc' \in {"deliver", "exiting"}
        /\ repeating' = repeating
        /\ view_down' = IF IsKey(Head(drained)) THEN Head(drained).kind = "press"
                        ELSE view_down
    BY <1>5 DEF Deliver, AfterCallback, TypeOK
  <2>2. CASE pc' = "deliver"
    <3>1. Line = drained /\ Line' = Tail(drained)
      BY <2>1, <2>2 DEF Line
    <3>2. /\ RepeatsDown(drained, view_down)
          /\ repeating => DownAt(drained, view_down, Len(drained) + 1)
      BY <2>1, <3>1 DEF RepeatInv
    <3>3. view_down' <=> IF IsKey(Head(drained)) THEN Head(drained).kind = "press"
                         ELSE view_down
      BY <2>1
    <3>4. /\ RepeatsDown(Tail(drained), view_down')
          /\ repeating => DownAt(Tail(drained), view_down', Len(Tail(drained)) + 1)
      BY <2>1, <3>2, <3>3, LineShrinks
    <3>. QED
      BY <2>1, <3>1, <3>4 DEF RepeatInv
  <2>3. CASE pc' = "exiting"
    BY <2>3 DEF RepeatInv
  <2>. QED
    BY <2>1, <2>2, <2>3
<1>6. CASE Delivered
  <2>1. Line' = Line
    BY <1>6 DEF Delivered, Line, OneLine
  <2>. QED
    BY <1>6, <2>1, LineUntouched DEF Delivered, history
<1>7. CASE \/ Resumed \/ Top \/ UserEvent \/ UsersDrained \/ Flush \/ ComputeTimeout
           \/ PumpCheck \/ PumpRead \/ PumpDispatched \/ PumpTimeout \/ AboutToWait
           \/ Exiting
  <2>1. /\ UNCHANGED <<repeating, pending_events, drained, view_down>>
        /\ pc # "deliver" /\ pc' # "deliver"
        /\ pc \in {"exiting", "returned"} => pc' \in {"exiting", "returned"}
    BY <1>7 DEF Resumed, Top, UserEvent, UsersDrained, Flush, ComputeTimeout,
       PumpCheck, PumpRead, PumpDispatched, PumpTimeout, AboutToWait, Exiting,
       AfterCallback, history
  <2>2. Line' = Line
    BY <2>1 DEF Line
  <2>. QED
    BY <2>1, <2>2, LineUntouched
<1>8. CASE Environment \/ Terminated \/ UNCHANGED vars
  <2>1. UNCHANGED <<pc, repeating, pending_events, drained, view_down>>
    BY <1>8 DEF Environment, Terminated, vars, loop, history, CompositorSends,
       CompositorDies, ProxySend, ThreadRequestsRedraw, OtherReaderReads
  <2>2. Line' = Line
    BY <2>1 DEF Line
  <2>. QED
    BY <2>1, <2>2, LineUntouched
<1>. QED
  BY <1>1, <1>2, <1>3, <1>4, <1>5, <1>6, <1>7, <1>8 DEF Next, RunApp

\* A consumer that is handed a repeat was handed the press of a key and not its
\* release, however late the timer, the socket and the handler run.
THEOREM NoRepeatAfterRelease == Spec => []RepeatOnlyWhileDown
<1>1. Init => RepeatInv
  BY DEF Init, RepeatInv, OneLine, Line, RepeatsDown
<1>2. TypeOK /\ RepeatInv => RepeatOnlyWhileDown
  <2>. SUFFICES ASSUME TypeOK, RepeatInv, pc = "deliver", drained # <<>>,
                       Head(drained) = RepeatEvent
                PROVE  view_down
    BY DEF RepeatOnlyWhileDown
  <2>1. drained \in Seq(Events) /\ 1 \in DOMAIN drained /\ drained[1] = RepeatEvent
    BY EmptySeq, LenProperties DEF TypeOK
  <2>2. DownAt(drained, view_down, 1)
    BY <2>1 DEF RepeatInv, RepeatsDown, Line
  <2>. QED
    BY <2>2 DEF DownAt
<1>. QED
  BY <1>1, <1>2, RepeatStep, TypeCorrect, PTL DEF Spec
-----------------------------------------------------------------------------
(* No redraw request is forgotten.                                         *)

\* Is a redraw of s in the queue?
Holds(events, s) == \E i \in DOMAIN events : events[i] = RedrawEvent(s)

LEMMA HoldsConcat ==
  ASSUME NEW a \in Seq(Events), NEW b \in Seq(Events), NEW s
  PROVE  Holds(a \o b, s) <=> Holds(a, s) \/ Holds(b, s)
<1>1. /\ DOMAIN (a \o b) = 1..(Len(a) + Len(b)) /\ DOMAIN a = 1..Len(a)
      /\ DOMAIN b = 1..Len(b) /\ Len(a) \in Nat /\ Len(b) \in Nat
      /\ \A i \in 1..Len(a) : (a \o b)[i] = a[i]
      /\ \A i \in 1..Len(b) : (a \o b)[Len(a) + i] = b[i]
  BY ConcatProperties, LenProperties
<1>2. ASSUME NEW i \in 1..Len(b), b[i] = RedrawEvent(s) PROVE Holds(a \o b, s)
  <2>1. Len(a) + i \in DOMAIN (a \o b) /\ (a \o b)[Len(a) + i] = RedrawEvent(s)
    BY <1>1, <1>2
  <2>. QED
    BY <2>1 DEF Holds
<1>3. ASSUME NEW i \in 1..(Len(a) + Len(b)), (a \o b)[i] = RedrawEvent(s)
      PROVE  Holds(a, s) \/ Holds(b, s)
  <2>1. CASE i <= Len(a)
    BY <1>1, <1>3, <2>1 DEF Holds
  <2>2. CASE i > Len(a)
    <3>1. i - Len(a) \in 1..Len(b) /\ Len(a) + (i - Len(a)) = i
      BY <1>1, <2>2
    <3>2. b[i - Len(a)] = RedrawEvent(s)
      BY <1>1, <1>3, <3>1
    <3>. QED
      BY <1>1, <3>1, <3>2 DEF Holds
  <2>. QED
    BY <1>1, <2>1, <2>2
<1>4. Holds(a, s) => Holds(a \o b, s)
  BY <1>1 DEF Holds
<1>. QED
  BY <1>1, <1>2, <1>3, <1>4 DEF Holds

\* A drain of the flags misses none, in whatever order it visits them.
LEMMA OrderIsComplete ==
  ASSUME NEW S \in SUBSET Surfaces, NEW o \in Orders(S), NEW s \in S
  PROVE  Holds([i \in DOMAIN o |-> RedrawEvent(o[i])], s)
<1>1. IsFiniteSet(S) /\ Cardinality(S) \in Nat
  BY FS_Subset, FS_CardinalityType
<1>2. /\ IsFiniteSet(1..Cardinality(S))
      /\ Cardinality(1..Cardinality(S)) = Cardinality(S)
  BY <1>1, FS_Interval
<1>3. o \in Injection(1..Cardinality(S), S)
  BY DEF Orders, Injection, IsInjective
<1>4. o \in Surjection(1..Cardinality(S), S)
  BY <1>1, <1>2, <1>3, FS_Injection
<1>5. PICK i \in DOMAIN o : o[i] = s
  BY <1>4 DEF Surjection
<1>. QED
  BY <1>5 DEF Holds

\* A flag that is down, or an event of the line handed over, has been served.
RedrawInv ==
  /\ OneLine
  /\ \A s \in unanswered :
       s \in needs_redraw \/ Holds(drained, s) \/ Holds(pending_events, s)

\* A callback raises the flags it asks for, and takes back the requests it
\* serves and no other.
LEMMA CallbackRequests ==
  ASSUME NEW caller, NEW served, Callback(caller, served)
  PROVE  \A s \in unanswered' :
           \/ s \in unanswered \ served /\ (s \in needs_redraw => s \in needs_redraw')
           \/ s \in needs_redraw'
  BY DEF Callback, RequestRedraws

LEMMA RedrawStep == TypeOK /\ RedrawInv /\ [Next]_vars => RedrawInv'
<1>. SUFFICES ASSUME TypeOK, RedrawInv, [Next]_vars PROVE RedrawInv'
  OBVIOUS
<1>. OneLine /\ OneLine'
  BY OneLineStep DEF RedrawInv
<1>. pending_events \in Seq(Events) /\ drained \in Seq(Events)
  BY DEF TypeOK
<1>. SUFFICES ASSUME NEW s \in unanswered'
              PROVE  \/ s \in needs_redraw' \/ Holds(drained', s)
                     \/ Holds(pending_events', s)
  BY DEF RedrawInv, Holds
<1>1. CASE Resumed \/ UserEvent \/ AboutToWait
  <2>1. /\ \E caller : Callback(caller, {})
        /\ UNCHANGED <<pending_events, drained>>
    BY <1>1 DEF Resumed, UserEvent, AboutToWait
  <2>. QED
    BY <2>1, CallbackRequests DEF RedrawInv
<1>2. CASE DrainRedrawRequests
  <2>1. PICK o \in Orders(needs_redraw) :
          pending_events' = pending_events \o [i \in DOMAIN o |-> RedrawEvent(o[i])]
    BY <1>2 DEF DrainRedrawRequests
  <2>2. /\ [i \in DOMAIN o |-> RedrawEvent(o[i])] \in Seq(Events)
        /\ s \in needs_redraw => Holds([i \in DOMAIN o |-> RedrawEvent(o[i])], s)
    BY RedrawsAreEvents, OrderIsComplete DEF TypeOK
  <2>3. s \in unanswered /\ UNCHANGED drained
    BY <1>2 DEF DrainRedrawRequests, history
  <2>4. s \in needs_redraw \/ Holds(drained, s) \/ Holds(pending_events, s)
    BY <2>3 DEF RedrawInv
  <2>. QED
    BY <2>1, <2>2, <2>3, <2>4, HoldsConcat
<1>3. CASE DrainKeyRepeats
  <2>1. PICK due \in 0..(IF repeating THEN MaxTicks ELSE 0) :
          pending_events' = pending_events \o [i \in 1..due |-> RepeatEvent]
    BY <1>3 DEF DrainKeyRepeats
  <2>2. [i \in 1..due |-> RepeatEvent] \in Seq(Events)
    BY DEF RepeatEvent, Events
  <2>3. s \in unanswered /\ UNCHANGED <<drained, needs_redraw>>
    BY <1>3 DEF DrainKeyRepeats, history
  <2>. QED
    BY <2>1, <2>2, <2>3, HoldsConcat DEF RedrawInv
<1>4. CASE DispatchPending
  <2>. DEFINE m == Head(queue)
  <2>1. /\ m \in Messages /\ s \in unanswered /\ UNCHANGED <<drained, needs_redraw>>
        /\ Dispatch(m)
    BY <1>4 DEF DispatchPending, history, TypeOK
  <2>. HIDE DEF m
  <2>2. CASE m.kind = "ping"
    BY <2>1, <2>2 DEF Dispatch, RedrawInv
  <2>3. CASE m.kind # "ping"
    <3>1. m \in Events
      BY <2>1, <2>3, MessageIsEvent
    <3>2. <<m>> \in Seq(Events)
      BY <3>1
    <3>3. pending_events' = pending_events \o <<m>>
      BY <2>1, <2>3, <3>1 DEF Dispatch, PushEvent
    <3>. QED
      BY <2>1, <3>2, <3>3, HoldsConcat DEF RedrawInv
  <2>. QED
    BY <2>2, <2>3
<1>5. CASE Take
  <2>1. /\ drained = <<>> /\ drained' = pending_events
        /\ s \in unanswered /\ UNCHANGED needs_redraw
    BY <1>5 DEF Take, TakePending, OneLine, history
  <2>2. ~Holds(<<>>, s)
    BY DEF Holds
  <2>. QED
    BY <2>1, <2>2 DEF RedrawInv
<1>6. CASE Deliver
  <2>. DEFINE e == Head(drained)
              served == IF e.kind = "redraw" THEN {e.surface} ELSE {}
  <2>1. /\ Callback(e.kind, served) /\ UNCHANGED pending_events
        /\ drained # <<>> /\ drained' = Tail(drained)
    BY <1>6 DEF Deliver
  <2>2. CASE s \in needs_redraw'
    BY <2>2
  <2>3. CASE s \in unanswered \ served /\ (s \in needs_redraw => s \in needs_redraw')
    <3>1. e # RedrawEvent(s)
      BY <2>3 DEF RedrawEvent
    <3>2. ASSUME Holds(drained, s) PROVE Holds(Tail(drained), s)
      <4>1. PICK i \in DOMAIN drained : drained[i] = RedrawEvent(s)
        BY <3>2 DEF Holds
      <4>2. /\ i \in 1..Len(drained) /\ i # 1 /\ Len(drained) \in Nat
            /\ DOMAIN Tail(drained) = 1..(Len(drained) - 1)
            /\ \A k \in 1..(Len(drained) - 1) : Tail(drained)[k] = drained[k + 1]
        BY <2>1, <3>1, <4>1, HeadTailProperties, LenProperties
      <4>3. i - 1 \in DOMAIN Tail(drained) /\ Tail(drained)[i - 1] = drained[i]
        BY <4>2
      <4>. QED
        BY <4>1, <4>3 DEF Holds
    <3>. QED
      BY <2>1, <2>3, <3>2 DEF RedrawInv
  <2>. QED
    BY <2>1, <2>2, <2>3, CallbackRequests
<1>7. CASE \/ Top \/ UsersDrained \/ Flush \/ ComputeTimeout \/ PumpCheck \/ PumpRead
           \/ PumpDispatched \/ PumpTimeout \/ Delivered \/ Exiting
  <2>1. UNCHANGED <<pending_events, drained, needs_redraw, unanswered>>
    BY <1>7 DEF Top, UsersDrained, Flush, ComputeTimeout, PumpCheck, PumpRead,
       PumpDispatched, PumpTimeout, Delivered, Exiting, history
  <2>. QED
    BY <2>1 DEF RedrawInv
<1>8. ASSUME NEW r \in Surfaces, ThreadRequestsRedraw(r)
      PROVE  s \in needs_redraw' \/ Holds(drained', s) \/ Holds(pending_events', s)
  BY <1>8 DEF ThreadRequestsRedraw, RequestRedraws, loop, RedrawInv
<1>9. CASE (\E kind \in WireKinds : CompositorSends(kind)) \/ CompositorDies
             \/ ProxySend \/ OtherReaderReads \/ UNCHANGED vars
  <2>1. UNCHANGED <<pending_events, drained, needs_redraw, unanswered>>
    BY <1>9 DEF vars, loop, history, CompositorSends, CompositorDies, ProxySend,
       OtherReaderReads
  <2>. QED
    BY <2>1 DEF RedrawInv
<1>. QED
  BY <1>1, <1>2, <1>3, <1>4, <1>5, <1>6, <1>7, <1>8, <1>9
     DEF Next, RunApp, Environment, Terminated

\* A redraw that a callback or another thread requested is flagged or queued
\* until it is handed over, for any number of surfaces and any order of the
\* hash map.
THEOREM RedrawsNotLost == Spec => []NoLostRedraw
<1>1. Init => RedrawInv
  BY DEF Init, RedrawInv, OneLine
<1>2. TypeOK /\ RedrawInv => NoLostRedraw
  BY HoldsConcat DEF TypeOK, RedrawInv, NoLostRedraw, Holds
<1>. QED
  BY <1>1, <1>2, RedrawStep, TypeCorrect, PTL DEF Spec
-----------------------------------------------------------------------------
(* No sleep on work at hand.                                               *)

\* While run_app sleeps in poll(2), what is on its way is still in the socket,
\* where it wakes the loop: no event waits for the sleep to end, and no message
\* that somebody has read.  No deadline that a callback set is left out of the
\* sleep either.
SleepsIdle == pc = "poll" => Pipeline = socket /\ wait_until = "none"

AtRest ==
  /\ pc = "poll" => pending_events = <<>> /\ queue = <<>>
  /\ pc \in {"pump", "poll"} => wait_until = "none"

LEMMA AtRestStep == AtRest /\ [Next]_vars => AtRest'
<1>. SUFFICES ASSUME AtRest, [Next]_vars PROVE AtRest'
  OBVIOUS
<1>1. CASE PumpCheck
  BY <1>1 DEF PumpCheck, AtRest
<1>2. CASE RunApp /\ ~PumpCheck
  <2>1. /\ pc' # "poll"
        /\ pc' = "pump" =>
             wait_until' = "none" \/ (pc \in {"pump", "poll"} /\ UNCHANGED wait_until)
    BY <1>2 DEF RunApp, AfterCallback, Resumed, Top, UserEvent, UsersDrained, Flush,
       DrainRedrawRequests, DrainKeyRepeats, ComputeTimeout, DispatchPending, PumpRead,
       PumpDispatched, PumpTimeout, Take, Deliver, Delivered, AboutToWait, Exiting
  <2>. QED
    BY <2>1 DEF AtRest
<1>3. CASE Environment \/ Terminated \/ UNCHANGED vars
  <2>1. UNCHANGED <<pc, pending_events, wait_until>> /\ (pc = "poll" => queue' = queue)
    BY <1>3 DEF Environment, Terminated, vars, loop, CompositorSends, CompositorDies,
       ProxySend, ThreadRequestsRedraw, OtherReaderReads
  <2>. QED
    BY <2>1 DEF AtRest
<1>. QED
  BY <1>1, <1>2, <1>3 DEF Next

\* blocking_pump sleeps only when there is nothing to hand over, with another
\* reader of the socket that fills the queue between any two of its steps.
THEOREM NoSleepOnWork == Spec => []SleepsIdle
<1>1. Init => OneLine /\ AtRest
  BY DEF Init, OneLine, AtRest
<1>2. TypeOK /\ OneLine /\ AtRest => SleepsIdle
  BY EmptySeq DEF TypeOK, OneLine, AtRest, SleepsIdle, Pipeline
<1>. QED
  BY <1>1, <1>2, OneLineStep, AtRestStep, TypeCorrect, PTL DEF Spec

\* What the pump collected is handed over in the same iteration: between two
\* deliveries nothing that was dispatched waits for a user event, a flush or a
\* callback of the next one.
NoBacklog ==
  pc \in {"about_to_wait", "top", "user", "flush", "redraw"} =>
    drained = <<>> /\ pending_events = <<>>

\* The channel, the flush and the callbacks between two pumps queue nothing.
NothingQueued ==
  pc \in {"resumed", "deliver", "about_to_wait", "top", "user", "flush", "redraw"} =>
    pending_events = <<>>

LEMMA NothingQueuedStep == NothingQueued /\ [Next]_vars => NothingQueued'
<1>. SUFFICES ASSUME NothingQueued, [Next]_vars PROVE NothingQueued'
  OBVIOUS
<1>1. CASE RunApp
  BY <1>1 DEF NothingQueued, RunApp, AfterCallback, TakePending, Resumed, Top, UserEvent,
     UsersDrained, Flush, DrainRedrawRequests, DrainKeyRepeats, ComputeTimeout,
     DispatchPending, PumpCheck, PumpRead, PumpDispatched, PumpTimeout, Take, Deliver,
     Delivered, AboutToWait, Exiting
<1>2. CASE Environment \/ Terminated \/ UNCHANGED vars
  BY <1>2 DEF NothingQueued, Environment, Terminated, vars, loop, CompositorSends,
     CompositorDies, ProxySend, ThreadRequestsRedraw, OtherReaderReads
<1>. QED
  BY <1>1, <1>2 DEF Next

\* run_app hands over everything it took before it goes on.
THEOREM NothingLeftOver == Spec => []NoBacklog
<1>1. Init => OneLine /\ NothingQueued
  BY DEF Init, OneLine, NothingQueued
<1>2. OneLine /\ NothingQueued => NoBacklog
  BY DEF OneLine, NothingQueued, NoBacklog
<1>. QED
  BY <1>1, <1>2, OneLineStep, NothingQueuedStep, PTL DEF Spec
-----------------------------------------------------------------------------
(* An iteration comes to its end.                                          *)

\* The places of an iteration in their order, the end first; the pump's two
\* share one, since it goes back and forth between them.
Stage(where) ==
  CASE where = "resumed" -> 13
    [] where = "top" -> 12
    [] where = "user" -> 11
    [] where = "flush" -> 10
    [] where = "redraw" -> 9
    [] where = "repeat" -> 8
    [] where = "timeout" -> 7
    [] where \in {"pump", "poll"} -> 6
    [] where = "dispatch" -> 5
    [] where = "take" -> 4
    [] where = "deliver" -> 3
    [] where = "about_to_wait" -> 2
    [] where = "exiting" -> 1
    [] OTHER -> 0

\* How many more looks at the socket the pump's timeout leaves, in steps.
Looks ==
  IF Stage(pc) # 6 THEN 0
  ELSE (IF cap = "positive" THEN 4 ELSE IF cap = "last" THEN 2 ELSE 0)
         + (IF pc = "pump" THEN 1 ELSE 0)

\* What an inner loop still has before it.
Load ==
  IF pc = "user" THEN users
  ELSE IF pc \in {"pump", "dispatch"} THEN Len(queue)
  ELSE IF pc = "deliver" THEN Len(drained)
  ELSE 0

\* The lexicographic order of the three.
Nearer ==
  \/ Stage(pc') < Stage(pc)
  \/ Stage(pc') = Stage(pc) /\ Looks' < Looks
  \/ Stage(pc') = Stage(pc) /\ Looks' = Looks /\ Load' < Load

\* Every step of run_app that changes anything, but the last of an iteration,
\* brings its end nearer, and of the steps of others only a user event sent while
\* the channel is drained and a read of the second reader while the pump
\* dispatches put it off: these are two of the three loops without a bound.  The
\* third changes nothing: the jam, where run_app goes round on its own.
IterationsEnd ==
  [][IF RunApp THEN pc = "about_to_wait" \/ Nearer
     ELSE \/ pc' = pc /\ Looks' = Looks /\ Load' <= Load
          \/ pc = "user" /\ ProxySend
          \/ pc \in {"pump", "dispatch"} /\ OtherReaderReads]_vars

\* poll(2) is not entered without time to sleep.
TimeToSleep == pc = "poll" => cap # "zero"

LEMMA TimeStep == TimeToSleep /\ [Next]_vars => TimeToSleep'
<1>. SUFFICES ASSUME TimeToSleep, [Next]_vars PROVE TimeToSleep'
  OBVIOUS
<1>1. CASE PumpCheck
  BY <1>1 DEF PumpCheck, TimeToSleep
<1>2. CASE RunApp /\ ~PumpCheck
  <2>1. pc' # "poll"
    BY <1>2 DEF RunApp, AfterCallback, Resumed, Top, UserEvent, UsersDrained, Flush,
       DrainRedrawRequests, DrainKeyRepeats, ComputeTimeout, DispatchPending, PumpRead,
       PumpDispatched, PumpTimeout, Take, Deliver, Delivered, AboutToWait, Exiting
  <2>. QED
    BY <2>1 DEF TimeToSleep
<1>3. CASE Environment \/ Terminated \/ UNCHANGED vars
  BY <1>3 DEF TimeToSleep, Environment, Terminated, vars, loop, CompositorSends,
     CompositorDies, ProxySend, ThreadRequestsRedraw, OtherReaderReads
<1>. QED
  BY <1>1, <1>2, <1>3 DEF Next

\* A step that goes to a later place.
LEMMA StageFalls ==
  ASSUME RunApp, pc # "about_to_wait", ~DispatchPending, ~PumpCheck, ~PumpTimeout,
         pc' # pc
  PROVE  Stage(pc') < Stage(pc)
  BY DEF Stage, RunApp, AfterCallback, Resumed, Top, UserEvent, UsersDrained, Flush,
     DrainRedrawRequests, DrainKeyRepeats, ComputeTimeout, PumpRead,
     PumpDispatched, Take, Deliver, Delivered, AboutToWait, Exiting

\* A step of the loop's own brings the end nearer, or is a round of the jam.
LEMMA OwnStep ==
  ASSUME TypeOK, TimeToSleep, RunApp, pc # "about_to_wait"
  PROVE  Nearer \/ (Jammed /\ UNCHANGED vars)
<1>1. CASE DispatchPending
  <2>1. Len(queue') = Len(queue) - 1 /\ Len(queue) \in Nat /\ UNCHANGED <<pc, cap>>
    BY <1>1 DEF DispatchPending, TypeOK
  <2>. QED
    BY <1>1, <2>1 DEF DispatchPending, Nearer, Looks, Load
<1>2. CASE PumpCheck
  <2>1. CASE Jammed
    BY <1>2, <2>1 DEF PumpCheck, Jammed, vars, loop, wire, history
  <2>2. CASE ~Jammed
    <3>1. /\ pc = "pump" /\ pc' \in {"take", "poll"} /\ UNCHANGED cap
          /\ cap \in {"zero", "last", "positive"}
      BY <1>2, <2>2 DEF PumpCheck, Jammed, TypeOK
    <3>. QED
      BY <3>1 DEF Nearer, Stage, Looks
  <2>. QED
    BY <2>1, <2>2
<1>3. CASE PumpTimeout
  <2>1. /\ pc = "poll" /\ cap \in {"positive", "last"} /\ pc' \in {"take", "pump"}
        /\ cap' = IF cap = "positive" /\ pc' = "pump" THEN "last" ELSE "zero"
    BY <1>3 DEF PumpTimeout, TypeOK, TimeToSleep
  <2>. QED
    BY <2>1 DEF Nearer, Stage, Looks
<1>4. CASE ~DispatchPending /\ ~PumpCheck /\ ~PumpTimeout /\ pc' # pc
  BY <1>4, StageFalls DEF Nearer
<1>5. CASE UserEvent /\ pc' = pc
  <2>1. pc = "user" /\ users' = users - 1 /\ users \in Nat
    BY <1>5 DEF UserEvent, TypeOK
  <2>. QED
    BY <1>5, <2>1 DEF Nearer, Stage, Looks, Load
<1>6. CASE Deliver /\ pc' = pc
  <2>1. pc = "deliver" /\ Len(drained') = Len(drained) - 1 /\ Len(drained) \in Nat
    BY <1>6 DEF Deliver, TypeOK
  <2>. QED
    BY <1>6, <2>1 DEF Nearer, Stage, Looks, Load
<1>7. pc' = pc => DispatchPending \/ UserEvent \/ Deliver \/ PumpCheck
  BY DEF RunApp, Resumed, Top, UsersDrained, Flush,
     DrainRedrawRequests, DrainKeyRepeats, ComputeTimeout, PumpRead,
     PumpDispatched, PumpTimeout, Take, Delivered, AboutToWait, Exiting
<1>. QED
  BY <1>1, <1>2, <1>3, <1>4, <1>5, <1>6, <1>7

LEMMA OthersStep ==
  ASSUME TypeOK, Environment \/ Terminated
  PROVE  \/ pc' = pc /\ Looks' = Looks /\ Load' <= Load
         \/ pc = "user" /\ ProxySend
         \/ pc \in {"pump", "dispatch"} /\ OtherReaderReads
<1>0. Load \in Nat
  BY DEF Load, TypeOK
<1>1. UNCHANGED <<pc, cap, drained>>
  BY DEF Environment, Terminated, vars, loop, CompositorSends, CompositorDies,
     ProxySend, ThreadRequestsRedraw, OtherReaderReads
<1>2. Looks' = Looks
  BY <1>1 DEF Looks
<1>3. users' = users \/ ProxySend
  BY DEF Environment, Terminated, vars, CompositorSends, CompositorDies,
     ThreadRequestsRedraw, OtherReaderReads
<1>4. queue' = queue \/ OtherReaderReads
  BY DEF Environment, Terminated, vars, CompositorSends, CompositorDies,
     ThreadRequestsRedraw, ProxySend
<1>5. Load' = Load \/ (pc = "user" /\ ProxySend)
        \/ (pc \in {"pump", "dispatch"} /\ OtherReaderReads)
  BY <1>1, <1>3, <1>4 DEF Load
<1>. QED
  BY <1>0, <1>1, <1>2, <1>5

\* An iteration of run_app comes to its end in finitely many of its own steps
\* unless user events or a second reader keep one of two loops going, or a fatal
\* error of the wl_display finds messages in the queue and jams the pump.
THEOREM LoopsRunOut == Spec => IterationsEnd
<1>1. Init => TimeToSleep
  BY DEF Init, TimeToSleep
<1>2. TypeOK /\ TimeToSleep /\ [Next]_vars =>
        [IF RunApp THEN pc = "about_to_wait" \/ Nearer
         ELSE \/ pc' = pc /\ Looks' = Looks /\ Load' <= Load
              \/ pc = "user" /\ ProxySend
              \/ pc \in {"pump", "dispatch"} /\ OtherReaderReads]_vars
  BY OwnStep, OthersStep DEF Next
<1>. QED
  BY <1>1, <1>2, TimeStep, TypeCorrect, PTL DEF Spec, IterationsEnd
=============================================================================
