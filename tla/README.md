# wayr: models, checks and proofs

wayr is a Wayland windowing toolkit for Rust: an event loop on one thread, the
dispatchers that turn the compositor's messages into window events, and handles
(toplevels, layer surfaces, subsurfaces) the consumer builds and drops. This
directory holds TLA+ modules of its core, TLC runs over small instances, and
TLAPS proofs for every instance. Paths below are relative to the repository;
`src/connection.rs` and the others are the crate's sources.

    tlc -workers 2 -config MCEventLoop_loop.cfg MCEventLoop
    tlapm EventLoop_proofs.tla

## 1. The system

| Component | State | Operations | Talks to |
|---|---|---|---|
| `EventLoop::run_app` (`src/event_loop.rs`) | `exit_requested`, `wait_until`, `pending_events`, the user channel, what libwayland read and did not dispatch | user events, flush, `drain_redraw_requests`, `drain_key_repeats`, `blocking_pump`, delivery, `about_to_wait` | the consumer (callbacks, which call back into it), the compositor (socket), other threads (`EventLoopProxy`, `request_redraw`), other readers of the same `wl_display` (GPU drivers, embedders) |
| `EventLoop::poll` | the same | one call, one event or `None` | the consumer's own loop |
| Surfaces, scales, outputs (`src/connection.rs`, `toplevel.rs`, `layer_shell.rs`, `output.rs`) | `ToplevelState`, `LayerSurfaceState`, `OutputState` | `wl_output.*`, `wl_surface.enter/leave`, `preferred_scale`, the two configure paths, close, build, drop | `pending_events`; the getters of the handles |
| Keyboard (`connection.rs`, `keyboard.rs`) | `KeyboardState`: focus, modifiers, repeat settings, the armed key | `wl_keyboard.*`, its seat capability, the repeat timer | `pending_events`, `drain_key_repeats` |
| Pointer (`connection.rs`, `pointer.rs`, `cursor.rs`) | `PointerState`: focus, serials, axis accumulators | `wl_pointer.*`, its seat capability, `set_cursor` | `pending_events` |
| Touch (`connection.rs`, `touch.rs`) | `TouchState`: a position and a surface per contact | `wl_touch.*`, its seat capability | `pending_events` |
| IME (`connection.rs`, `ime.rs`) | `TextInputState`: focus, pending preedit, commit, delete; the settings the compositor buffers | `zwp_text_input_v3.*`; the calls of `Ime`, two requests each, from any thread, all on the one proxy of the seat | `pending_events`; the compositor, which applies settings at each commit |
| Activation (`connection.rs`, `toplevel.rs`) | `pending_activation_tokens`, `last_input_serial` | `request_activation`, `set_activation_token`, token `done` | keyboard, pointer and touch, which set the serial |
| Subsurfaces (`subsurface.rs`) | parent and child objects | build, position, sync, drop | the parent's `wl_surface` |
| Connection setup, raw handles, plain data | globals; none | once at startup | |

What is hard in it:

* **The loop is cooperative and single-threaded, its inputs are not.** The
  compositor, user-event senders, threads that raise redraw flags and a second
  reader of the socket act between any two of its steps. Every callback may
  request redraws, set deadlines, or exit, while events taken in bulk wait.
* **The pump reads the socket only if nothing is queued.** Correctness of
  delivery is one question; whether input is served at all is another.
* **Many paths, one promise.** A scale reaches a surface by five paths, a size
  by two, and the consumer hears of both only through events. Each path keeps
  its own idea of what was told last.
* **Protocol sequences.** Surfaces die under the focus, objects belong to an
  embedder, seats lose devices without a leave or a release, frames end with
  nothing in them, ids come again.
* **Double buffering.** An input method's update takes effect at its `done`, the
  consumer's at its commit; focus moves, surfaces die and other surfaces and threads
  call in between. Answers to tokens come in any order or never.
* **Errors are dropped.** No error of a flush, a read or a dispatch reaches the consumer.
  After a fatal one nothing is dispatched any more, and what the queue then holds keeps
  `prepare_read` refusing.
* **Time.** The repeat timer runs late whenever a handler does, catches up under
  a budget, and divides integers.

What makes each component correct: events arrive once, in order, and nothing runs
after exit (loop); what the events said adds up to what the getters return
(surfaces); events go to the surface the consumer was told of, and what repeats
is held (keyboard, pointer); scrolling adds up per frame (pointer); gestures are
whole (touch); a batch of edits is handed over whole, to the surface it was made
on, and what a call sets is applied, by its own commit when no other call overlaps
(IME); a token activates the surface it was asked for, with a serial no older than the
newest press on one of our surfaces (activation). `PROJECT.json` lists 40 hazards with
their lines and the properties that would catch each going wrong.

## 2. Modules

| Module | Models | Correspondence |
|---|---|---|
| `EventDelivery`, `EventDelivery_proofs` | what `run_app` promises: an inbox handed over oldest first, each event once, then exit | abstract specification; the inbox is the set of numbers under way in `drained`, `pending_events`, `queue` and `socket`. The proofs are that `EventLoop` keeps every message and implements it |
| `EventLoop` | `run_app`, `blocking_pump`, both drains | `pc` names the place in `run_app`; each action is one step of it between two points where others can be observed. `Callback` is all a callback may do to the loop. Environment actions are the compositor, threads, proxies and the second reader. `failed` is the fatal error of the `wl_display`, which a read meets after the connection is lost; dispatching stops with it |
| `EventLoop_proofs` | the theorems about it | |
| `Poll`, `Poll_proofs` | `EventLoop::poll` | `pc` names the place in the call; one action per step, the refused `prepare_read` and the three returns included, with the compositor (which may be lost, as in `EventLoop`), user events and a second reader between any two of them |
| `Surfaces`, `Surfaces_proofs` | the surface and output dispatchers, build, drop, the redraws handed over | one action per protocol event, with the events it pushes in `news`; `DrainRedrawRequests` is a drain at any point, for any surfaces that were built |
| `Keyboard`, `Keyboard_proofs` | `wl_keyboard`, its capability, `drain_key_repeats` in time | one action per event, keymaps and changes of keymap included; `Tick` is time, `DrainKeyRepeats` a drain whenever the loop gets to it |
| `Pointer`, `Pointer_proofs` | `wl_pointer`, its capability, the serial of `set_cursor` | one action per event |
| `Touch` | `wl_touch`, its capability | one action per event; checked and proved as a part of `Activation` |
| `Activation`, `Activation_proofs` | `request_activation`, `set_activation_token`, the token's `done`, composed with `Touch` | a step is a step of `Touch`, an input of another device, a call, or an answer; `last_input_serial` is the variable they share |
| `TextInput`, `TextInput_proofs` | the `zwp_text_input_v3` dispatcher and `Ime` | one action per event sent, per event dispatched, per request a call makes (its setting, `Set`; its commit, `EndCall`) and per request served, with events, calls and requests under way |
| `MC*` | instances for TLC | model values and small sets |

State keeps the names of the source. Three conventions:

* **news and told.** A dispatcher pushes events to `pending_events`. In the
  device modules `news` is what the last handler pushed and `told` what a
  consumer knows that handles everything pushed so far. That those events reach
  it once and in this order is what `EventLoop` shows, so the modules divide
  the proof: dispatcher to queue here, queue to handler there.
* **Two repeat timers.** `EventLoop` has any number of due ticks and one key, to
  order ticks against key events; `Keyboard` has time, focus, many keys and
  settings, to say which key repeats and when.
* **`Name_Slip`.** A definition of that form is `Name` with one plausible slip
  (a dropped guard, a missing reset, the wrong end of a queue). No specification
  uses it. Put in the place of `Name` it breaks the property listed in section 4.

What is abstracted: both axes of a size obey the same rules, so one stands for
the pair; scales are integers in 1/120 as on the wire; positions, button codes,
key symbols, strings and icon names are left out or are model values; what a
key types is the modifiers it was translated with; a message is a number and a
kind. A toplevel's `pending_ack` (written, never read), `closed` (set, never
read), the activated bit and the geometry of outputs have no reader in the
loop and are left out.

## 3. Runs

States are distinct states; every run finishes within two minutes.

| Run | Configuration and bounds | Shows |
|---|---|---|
| `loop` | 2 messages of any kind, 1 surface, 1 user event waiting, 1 tick a drain, any callback may do anything, second reader, lost connection, a fatal error that a read meets (135k) | `InOrderOnce`, `NoLostRedraw`, `RepeatOnlyWhileDown`, `NoCallbackAfterExit`, and that the loop implements `EventDelivery` (`DeliverySpec`); exit returns; user events are served unless the pump is jammed (section 6), and redraws; redraws die down; the socket is served whenever `poll(2)` is reached again and again |
| `animate` | a consumer that requests a redraw from `about_to_wait` (919) | **violated**: `MessageServed` |
| `lost_conn` | no consumer activity (453) | **violated**: `ConnectionLossReported` |
| `surfaces` | a toplevel or a layer surface, 2 outputs with scales up to 2, one fractional scale, sizes 0 and up, suspend, close, drop, redraws requested at any time (40k) | `ScaleCoherent`, `ScaleTold`, `ConfigureTold`, `ToldOnce`, `DrawnAtToldSize` |
| `dup_scale` | a toplevel, one output (~330) | **violated**: `NoDuplicateScale` |
| `keyboard` | 2 surfaces and a foreign one, a letter and a modifier, repeat off, slow and faster than the clock, two keymaps (the letter repeats in one of them), 7 ticks, a keyboard that is unplugged (480k) | `HeldWhileLive`, `OffMeansOff`, `KeysFollowFocus`, `RepeatsPaced` |
| `unplug` | one surface, fixed settings and keymap (~520) | **violated**: `RepeatIsHeld` |
| `scroll` | 2 surfaces and a foreign one, 2 sources and an unknown one, 3 axis events a frame, 2 serials, an unplugged pointer (109k) | `AxisIsFrames`, `FrameScrolls`, `EventsFollowPointer`, `CursorHonoured` |
| `gestures` | 2 contacts, 2 surfaces and a foreign one, both ours toplevels, 2 positions, an unplugged screen, inputs of other devices on our surfaces and on others, 2 tokens, serials that start again after 2 (354k) | `GesturesWhole`, `ContactsKnown`, `TokensAccounted`, `ActivatesRequester`, `NewestInputServes` |
| `text_input` | 2 surfaces and a foreign one, 2 events and 2 requests in flight, 2 calls at once, one delete, one commit and two preedits, one content type besides none (2.7M) | `BatchWhole`, `SettingsApplied` |
| `poll` | 4 messages, 2 user events, second reader, lost connection, a fatal error that a read meets (418k) | `EachOnce`, `NoneMeansEmpty`, `AllServed` |
| `lifo` | 2 messages, 1 user event (~1100) | **violated**: `OldestFirst` |

Why the bounds are enough. Two messages reach every pair of stages (handed over,
taken, queued, read, in the socket), and are the press and the release around a
tick and a redraw; a third adds no new pair. One tick a drain suffices because
ticks of one drain are adjacent and alike; the proofs cover any number.
`blocking_pump` spins through the last millisecond before its deadline; the
model lets it look once more, since a second look differs from a first only in
what the environment did meanwhile. Two surfaces of the same kind share nothing but the
outputs, which no surface action changes except by making an entry, so `surfaces` builds one at
a time (`MaxBuilt = 1`); two outputs are needed for the maximum, for an update
of one while the other is settled, and for a leave. `Second = 4` and rates
of 0, 2 and 5 switch repeat off and make periods of 2 and of 0 ticks (as
1000 / rate does above 1000 Hz), and `MaxAge = 7` is the delay and two periods more,
drained on time or late.
`Budget = 3` is exceeded by a late drain. Three axis events scroll, scroll
back and scroll again; two serials set the pointer's enter against a later
button. Two surfaces and a foreign one reach every pair of focus and
destroyed surface. Two contacts are one that goes on while the other ends,
and two tokens are answered in either order; a token's name comes again, and so
does a serial. A batch is built over any number of edits whatever is in flight at
once; two events in flight set an edit before the leave, enter or done that
overtakes nothing. Two calls at once are two threads, of one surface or two, and two
requests in flight are either thread's halves in any order, which the focus may leave
or reach between a setting and its commit. A content type is none or one other, which
is enough to tell that a setting was applied and that another was lost. No
definition of `TextInput` tells one surface from another, so the run takes the two up
to symmetry.

Where deadlock is checked it is checked in full: `run_app` may stop only in
`Terminated`, after it returned.

**Fairness.** `EventLoop!Spec` assumes `WF_vars(RunApp)` only: the thread inside
`run_app` keeps running, callbacks return, and `poll(2)` returns by its timeout
of at most 50 ms. The compositor, threads, proxies and the second reader are
never sure to act. Properties about a part behind an unbounded inner loop say
what they need themselves: `RedrawServed` and `MessageServed` assume the user
channel is drained again and again (`[]<>(pc = "flush")`), since the `while let`
over `try_recv` has no bound; `UserEventServed` leaves out the jam, the one place where
`run_app` goes round on its own for ever (`JamIsForever`); `ServedIfPolling` assumes `poll(2)` is reached
again and again, which `animate` shows is not automatic. `Poll!Spec` assumes
that the consumer keeps calling `poll()`, as that is what drives it. The other
modules state no liveness and assume no fairness.

## 4. What each property rests on

Each property fails when one definition slips:

| Run | Property | Definition | Slip |
|---|---|---|---|
| `loop` | `TypeOK` | `UserEvent` | takes an event from an empty channel |
| | `InOrderOnce` | `TakePending` | copies the events it takes |
| | `NoLostRedraw` | `RequestRedraws` | overwrites the flags |
| | `RepeatOnlyWhileDown` | `RepeatingAfter` | a release does not stop the repeat |
| | `NoCallbackAfterExit` | `AfterCallback` | the exit flag is not looked at |
| | `DeliverySpec` | `PushEvent` | pushes at the front |
| | `ExitReturns` | `AfterCallback` | the exit flag is not looked at |
| | `UserEventServed` | `PumpTimeout` | `poll(2)` without a timeout |
| | `RedrawServed` | `RequestRedraws` | overwrites the flags |
| | `RedrawsQuiesce` | `ClearFlags` | flags stay up |
| | `ServedIfPolling` | `Pong` | no pong |
| `surfaces` | `TypeOK` | `AtLeastOne` | scale 0 or less is taken |
| | `ScaleCoherent` | `Rescale` | forgets layer surfaces |
| | `ScaleTold` | `ScaleNews` | compares with `last_emitted_scale` |
| | `ConfigureTold` | `Acknowledge` | computes its events after the update |
| | `ToldOnce` | `Announced` | does not record the size |
| | `DrawnAtToldSize` | `Chosen` | takes 0 as a size |
| `keyboard` | `TypeOK` | `Handled` | a key event without a focused surface is handled |
| | `OffMeansOff` | `StopOnInfo` | looks at the rate only |
| | `RepeatsPaced` | `Advance` | counts from now |
| | `KeysFollowFocus` | `StopOnLeave` | missing |
| | `HeldWhileLive` | `Disarmed` | never disarms |
| `scroll` | `TypeOK` | `ResetAxis` | lowers the flag only |
| | `AxisIsFrames` | `ResetAxis` | resets only when focused |
| | `CursorHonoured` | `KeepSerial` | one serial for all |
| | `EventsFollowPointer` | `Unfocus` | only for surfaces found |
| | `FrameScrolls` | `Flipped` | wheel steps keep their sign |
| `gestures` | `TypeOK` | `Forget` | one of the two maps |
| | `ContactsKnown` | `Active` | one contact only |
| | `GesturesWhole` | `KeepPosition` | kept at down only |
| | `NewestInputServes` | `KeepSerial` | a contact's serial is not kept |
| | `TokensAccounted` | `Forgotten` | an answered token stays |
| | `ActivatesRequester` | `Keep` | the newest token only |
| `text_input` | `TypeOK` | `Found` | takes a surface that is not ours |
| | `BatchWhole` | `Taken` | clears only what it hands over |
| | `SettingsApplied` | `Content` | no commit |
| `poll` | `TypeOK` | `Dispatch` | a ping makes an event |
| | `EachOnce` | `Pop` | does not remove |
| | `NoneMeansEmpty` | `ReadSocket` | does not dispatch what it read |
| | `AllServed` | `Flush` | no flush |

## 5. What is proved

For every value of the constants (any number of surfaces, keys, messages, ticks, contacts, tokens, requests,
any consumer, rate, delay, budget), from the named assumptions of each module
(`ConstantsAssumption`, `SurfacesAssumption`, `KeyboardAssumption`, `PointerAssumption`,
`TouchAssumption`, `ActivationAssumption`, `TextInputAssumption`, `PollAssumption`: the constants have
their types; the sets of surfaces in `EventLoop` and of outputs are finite) and nothing else,
`ExitLeadsOut` apart, whose hypothesis `Driven` is explained below:

| Theorem | States |
|---|---|
| `EventLoop_proofs!TypeCorrect` | `Spec => []TypeOK` |
| `EventLoop_proofs!SilentAfterExit` | `Spec => NoCallbackAfterExit` |
| `EventLoop_proofs!ExitLeadsOut` | `Spec /\ Driven => ExitReturns` |
| `EventLoop_proofs!NoSleepOnWork` | `Spec => []SleepsIdle`: while `run_app` sleeps, what is on its way is in the socket, and no deadline is left out |
| `EventLoop_proofs!NothingLeftOver` | `Spec => []NoBacklog`: what a pump collected is handed over before the next iteration |
| `EventLoop_proofs!LoopsRunOut` | `Spec => IterationsEnd`: every step of `run_app` that changes anything brings the end of its iteration nearer, only user events and a second reader can put it off, and only a jammed pump takes steps that change nothing |
| `EventLoop_proofs!JamIsForever` | `Spec => [](Jammed => []Jammed)`: with a fatal error and a message in the queue the pump never comes out |
| `EventLoop_proofs!NoRepeatAfterRelease` | `Spec => []RepeatOnlyWhileDown` |
| `EventLoop_proofs!RedrawsNotLost` | `Spec => []NoLostRedraw` |
| `EventDelivery_proofs!DeliveredOnce` | `Spec => []InOrderOnce` |
| `EventDelivery_proofs!ImplementsDelivery` | `Spec => DeliverySpec` |
| `Surfaces_proofs!TypeCorrect` | `Spec => []TypeOK` |
| `Surfaces_proofs!ScaleIsResolved` | `Spec => []ScaleCoherent` |
| `Surfaces_proofs!ScaleIsTold` | `Spec => []ScaleTold` |
| `Surfaces_proofs!ConfigureIsTold` | `Spec => []ConfigureTold` |
| `Surfaces_proofs!NewsIsNew` | `Spec => ToldOnce` |
| `Surfaces_proofs!DrawnWhole` | `Spec => DrawnAtToldSize` |
| `Keyboard_proofs!TypeCorrect` | `Spec => []TypeOK` |
| `Keyboard_proofs!RepeatStaysOff` | `Spec => []OffMeansOff` |
| `Keyboard_proofs!RepeatsHeldKeys` | `Spec => []HeldWhileLive` |
| `Keyboard_proofs!KeysGoToFocus` | `Spec => KeysFollowFocus` |
| `Keyboard_proofs!RepeatsOnTime` | `Spec => []RepeatsPaced` |
| `Pointer_proofs!TypeCorrect` | `Spec => []TypeOK` |
| `Pointer_proofs!FramesAddUp` | `Spec => []AxisIsFrames` |
| `Pointer_proofs!CursorSerial` | `Spec => []CursorHonoured` |
| `Pointer_proofs!EventsAtPointer` | `Spec => EventsFollowPointer` |
| `Pointer_proofs!FramesScroll` | `Spec => FrameScrolls` |
| `Activation_proofs!TypeCorrect` | `SpecAll => []TypeOK` |
| `Activation_proofs!KnownContacts` | `SpecAll => []ContactsKnown` |
| `Activation_proofs!WholeGestures` | `SpecAll => GesturesWhole` |
| `Activation_proofs!TokensNotLost` | `SpecAll => []TokensAccounted` |
| `Activation_proofs!RightSurface` | `SpecAll => ActivatesRequester` |
| `Activation_proofs!NewestInput` | `SpecAll => NewestInputServes` |
| `TextInput_proofs!TypeCorrect` | `Spec => []TypeOK` |
| `TextInput_proofs!SettingsAreApplied` | `Spec => []SettingsApplied` |
| `TextInput_proofs!BatchesAreWhole` | `Spec => BatchWhole` |
| `Poll_proofs!TypeCorrect` | `Spec => []TypeOK` |
| `Poll_proofs!ReturnedOnce` | `Spec => []EachOnce` |
| `Poll_proofs!NoneIsEmpty` | `Spec => NoneMeansEmpty` |
| `Poll_proofs!CallsReturn` | `Spec => CallsEnd`: every step of `poll()` brings its return nearer, and only a second reader can put it off |

The arguments:

* **SilentAfterExit.** `run_app` looks at the flag after user and window events but
  not after `resumed` or `about_to_wait`, so the invariant is `ExitIsSeen`: a
  raised flag finds the loop at its top or already exiting.
* **ExitLeadsOut.** From each of the three points `ExitIsSeen` leaves, the loop's next step
  leads on, and a step of anyone else stays there. `Driven` says the loop goes on until
  it has returned or is jammed (`[]<><<RunApp>>_vars`, or one of the two is reached). It is what
  `WF_vars(RunApp)` says of a loop that has a step to take anywhere else, which takes `ENABLED`
  to say and stays with the run; no exit is pending in a jam, since by `ExitIsSeen` none is
  pending inside the pump; the theorem is the argument for every instance.
* **NoSleepOnWork.** `AtRest`: `poll(2)` is entered with nothing dispatched and nothing
  read, and with every deadline taken into the timeout. It stays so because a second
  reader waits for a thread that is prepared to read; `OneLine` (below) adds that
  nothing taken is left.
* **NothingLeftOver.** `NothingQueued`: from the take to the next redraw drain no step queues
  an event, since callbacks raise flags and deadlines only.
* **LoopsRunOut, CallsReturn.** The measure is the place, then (in the pump) what is left of
  its timeout, then what the inner loop has before it, in the lexicographic order of three
  naturals. It is the part of liveness that needs no fairness and no induction: which loops
  have a bound of their own, and whose steps keep the others going: the drain of the
  channel (user events), dispatching (a second reader), and the jammed pump, which needs
  nobody. For that one the theorem says that the step changes nothing. `poll()` has no such
  loop: a refused `prepare_read` ends the call. `TimeToSleep` is needed for the pump: it
  goes to `poll(2)` only with some of its timeout left.
* **JamIsForever.** The queue keeps what it has, the fatal error stays, `pending_events` stays empty
  because nothing is dispatched, and `PumpCheck` then leads back to itself. No action of anyone
  else changes one of the three.
* **NoRepeatAfterRelease.** `RepeatOnlyWhileDown` speaks of the head of `drained`
  and is far from inductive. `RepeatInv` speaks of the whole *line* of waiting
  events (`pending_events` before the take, `drained` during delivery; `OneLine`
  says that one of them is empty): every repeat in it finds the key down once
  what precedes it is handled (`DownAt`), and a key is armed only when the whole line
  leaves it down. Then a tick may be appended at any time, a key event keeps
  the line's past, and handing over the head shifts the line by one.
* **RedrawsNotLost.** `RedrawInv`: until it is served a request is flagged, or its
  event is in one of the two sequences. The drain needs that the visit of the
  hash map reaches every flagged surface (`OrderIsComplete`, by cardinality).
* **DeliveredOnce.** `InParts` is `InOrderOnce` said of the four queues one by one:
  each is increasing, and `Places` sets their numbers and those that left them
  against one another. What joining and splitting queues does to either is
  proved once (`NumbersJoined`, `IncreasingJoined`), so that no step looks at
  an index, and the inductive part is about sets (`PlacesMove`, `PlacesDispatch`,
  `PlacesDeliver`, `PlacesSend`). `OneLine` is needed for `Take`, which would
  overwrite events not handed over.
* **ImplementsDelivery.** A step that moves messages keeps the inbox (`InboxStays`); a
  send posts or skips; the head of `drained` is the oldest of the inbox because
  `Places` puts `drained` before the rest. With `ExitIsSeen`, nothing is handed over
  once the phase is `exiting`, and with `AskedToExit` only an exit leads to `returned`.
  The refinement is of safety: `EventDelivery` states no fairness.
* **ScaleIsTold, ConfigureIsTold, NewsIsNew.** `Known` says of one surface that the
  consumer knows its scale, its occlusion and the size *emitted* last, `Coherent`
  that its scale is the resolved one, and `Settled` that outside a configure sequence
  the size emitted last is the current one. `Tell` is what one handler's events do to
  the consumer's knowledge, so that each handler needs one fact about one
  surface. `Settled` also speaks of surfaces not built yet, and is silent of those dropped
  in mid-sequence, which are never built again. A scale that did not come with a configure is
  new because it differs from the one the surface had, which by `Known` is the one
  the consumer has (`ScaleQuiet`).
* **ScaleIsResolved, DrawnWhole.** That a resolved scale is a scale needs the maximum
  of a finite set to exist (`MaxExists`: a least set without one would have a
  smaller). A layer surface or a toplevel with a preferred size is never
  acknowledged without a size, and once it was acknowledged its viewport is the size
  emitted last (`Drawable`, a part of `Settled`): so a redraw drained at any time, between
  the two events of a configure too, finds them equal. Exempt, as the formula says, are a
  toplevel without a preferred size that the compositor gives none either, and a redraw
  requested before the first configure, which is handed over at no size.
* **FramesAddUp, FramesScroll, CursorSerial, EventsAtPointer.** The invariant has three
  parts that no action mixes: `ScrollOK` (accumulators against the frame under way, which with the guard of each other action gives
  that nothing but a frame scrolls, `OnlyFramesScroll`),
  `FocusOK` (dispatcher, consumer and compositor agree over a surface that is
  still there) and `SerialOK`.
* **RepeatsHeldKeys, KeysGoToFocus.** `FocusInv` relates what the dispatcher, the
  consumer and the compositor hold for the focus, over surfaces destroyed under
  it and surfaces that are not ours, and says the armed key is the pressed one.
* **RepeatsOnTime.** `FiredLeast` characterises the drain's loop (the least count
  that reaches the future, or the budget) by well-foundedness of `<`; the
  invariant is the equation itself, which each drain moves by whole periods.
* **KnownContacts, WholeGestures.** `GestureInv`: the dispatcher's two maps and what the
  consumer was told agree contact by contact, always; with the compositor
  only while the touchscreen is live. `ContactsKnown` alone says nothing of a
  contact whose screen was unplugged, whose entries a later event may still meet.
* **TokensNotLost, RightSurface, NewestInput.** `TokenInv` types both maps over one
  domain, and `SerialInv` (`last_input_serial = serial`) is kept by every input,
  foreign surfaces included, and it is one of `since`, the serials since the newest press on a
  surface of ours. A request carries it, so it carries one of `since`, and is not refused
  once there was such a press.
* **SettingsAreApplied.** What the compositor finds after half a call depends on what is
  behind it in flight and on the calls not yet over. `Followed`: a setting in flight has a
  commit behind it in flight, or some call still owes one. `Paired`: as long as no two
  calls overlapped, settings and commits take turns, so that serving a setting leaves its
  own commit as the next. `CallInv` adds that a text input that is nowhere is off, so
  what is dropped there, or half there, leaves nothing behind.
* **BatchesAreWhole.** What a `done` will find depends on the events before it in the
  wire. `LineInv` says there are two histories along the wire, `view` (what is
  pending after n events) and `at` (where the text input then is), that
  start in what the dispatcher holds, end in what the compositor holds, and
  that every `done` on the way finds there what it carries. Sending extends
  both, dispatching drops the first of both, and a destroyed surface only
  allows the dispatcher to be nowhere where the history is on it.

* **ReturnedOnce.** The line of what is on its way (`pending_events`, the queue, the
  socket) is left alone by a read of either reader, loses one item in its middle when a
  ping is dispatched (`OneLess`: its numbers are apart from it afterwards, and it is still
  increasing), its last dispatched one when an event is popped, and gains a last one when
  the compositor sends (`OneMore`). `Apart` moves a number between the sets it may be in.
* **NoneIsEmpty.** `CallInv` says for each place in the call what may still be waiting
  of what was sent before it began: anything at "buffered"; from "flush" on nothing
  dispatched, and in the queue only what another reader put there (`raced`) or what a fatal
  error left there; from the read on nothing in the socket (after a fatal error nothing
  is in the socket at all). At either return that can answer `None` it is the
  property.

Only model-checked: liveness under fairness, which is out of the prover's reach
(`UserEventServed`, `RedrawServed`, `RedrawsQuiesce`, `ServedIfPolling`, `AllServed`, and of
`ExitReturns` that the fairness of `Spec` gives `Driven`). Beyond `LoopsRunOut` and
`CallsReturn` they need that a measure which falls reaches zero, an induction over data.
Every invariant and action property of a passing run, and the refinement, is a theorem.

## 6. Where code and words disagree

Five disagreements are runs (`animate`, `lost_conn`, `dup_scale`, `unplug`,
`lifo`); `PROJECT.json` quotes the lines. In short: a consumer that animates as
the documentation proposes never reads its socket; a lost connection is never
reported; a scale told through an output is told again by the next configure; a
key held while the keyboard is unplugged repeats on; `poll()` returns the
youngest event first.

Met while reading, and true of the models, without a run of their own:

* `exit()` is documented "after the current iteration"; the rest of the
  iteration's events are dropped.
* The jam: a message read together with a fatal display error, or read by a second reader before
  it met the error, can no longer be dispatched. `blocking_pump` drops the error
  (`src/event_loop.rs:386`), nothing is pending, `prepare_read` refuses, and the
  `continue` (418) goes round without looking at its deadline. User events, deadlines and
  redraws wait for ever, though 254-257 caps the sleep "so user-event wakeups don't
  sleep forever". `Jammed` is that state and `JamIsForever` that it stays. `poll()`
  goes on in the same state and returns `None` for ever.
* A redraw requested before the first configure is handed over although the surface has no
  size yet; `drain_redraw_requests` looks at the flag only.
* A new keymap leaves the armed key alone (`src/connection.rs:909-913`): one that does not
  repeat in it repeats on, against the comment at 1017-1019.
* `Focused` may follow `Focused` (keyboard): when a focused surface is destroyed the leave
  finds no id and pushes nothing.
* `last_input_serial` counts input on surfaces of an embedder, while its documentation
  (`src/connection.rs:508-510`) and that of `NoInputSerial` (`src/error.rs:110`) speak of
  "any of our surfaces". `NewestInputServes` asks for neither: it bounds the
  serial by the presses on our surfaces, and allows a newer one of another.
* An `Ime` call is two requests without a lock on a shared proxy: of two threads that call
  at once, the commit of one applies what the other has set so far, before the other
  commits. Nothing is lost by it (`SettingsApplied`).
* A `wait_until` deadline in the past, armed again in every iteration, keeps the
  pump from `poll(2)` like a redraw does.
* `size()` and `is_occluded()` change with `xdg_toplevel.configure`, before the ack and
  before `Resized` is pushed. `outputs()` shows outputs in the middle of an update.
* Repeat settings start at 0: a compositor that sends no `repeat_info` gets no
  repeat. New positive settings leave the armed key with its next deadline.
* A repeat carries the text of its press with the modifiers of its drain.
* A device that comes back keeps its dead proxy; focus, contacts and
  accumulators of the old one stay.
* A pong that `blocking_pump` writes in its first dispatch is flushed in the next
  iteration: if nothing else was queued, after the sleep of up to 50 ms.
* `axis_source` without an axis event outlives its frame. `Motion` of a foreign
  contact leaves an entry in the touch positions.
* `poll()` runs neither drain: flags and repeats are not served under it. Called
  from a callback of `run_app` it takes the newest event of the queue first.
* `Toplevel::ime` says calls on an unfocused surface's `Ime` are ignored until the
  focus returns; all surfaces share one proxy, so they act on whichever surface has
  it (`TextInput`'s requests name no surface).
* The comment in `set_purpose` advises consumers who want both to call `set_hint`
  after it. Each call resets the other's value and commits, so the purpose is lost.
* `Ime` is documented as obtained from `LayerSurface::ime()` too; there is none.
* Edits composed before the focus moves in mid-batch go to the surface the `done`
  finds. A `done` without a preedit does not clear the consumer's preedit, and
  a leave is not surfaced. `TextInputState.enabled` is never set to true and
  `last_done_serial` never read.
* A serial of 0 stands for no input; serials wrap at 32 bits. A token that is never
  answered stays in its map.
* `physical_size()` rounds a product of floats up: 10 at 1.1 becomes 12.
* `outputs()` lists outputs that were unplugged. A dropped surface with its flag up gets
  another `RedrawRequested`. `send_event` succeeds between the last drain and the
  return, and its event is lost. `place_above` and `place_below` do nothing.
* `request_close()` sets a flag "so `EventLoop::run_app` knows to exit"; nothing reads it.

## 7. Not modelled, and the plan

A lost connection is modelled as the loops see it: what was sent before the loss can
be read, and a read may meet the fatal error with it. Which errors libwayland holds
for fatal, and errors of `poll(2)` itself, are not; a flush that would block is taken to go
out in full.

Connection setup runs once before any event and fails as a whole. Raw handles are
pointers whose lifetimes the borrow checker has. Geometry, errors, icons and
key names are plain data. xkbcommon and libwayland are external: the
former is the modifiers a key is translated with, the latter the queue, the
prepare/read/dispatch protocol and null objects for destroyed surfaces.

Subsurfaces keep no state here: no entry among the surfaces, no redraw, and every
setter is one request that the compositor applies with the parent's commit.
Their ids are in `surface_id_by_wl`, so the `Surfaces` of the device modules stand
for them too; that a child is dropped before its parent is the consumer's duty.
Outputs plugged after the start are ignored by the registry handler, and the
compositor sends no enter for an output that was not bound: nothing changes state.
`request_close()` sets a flag without a reader.

The order so far was the order of importance: the loop, because every event
passes it; surfaces, because their events must add up; keyboard with its timer;
pointer and touch; `poll`; the input method; activation. Next:

1. `Keyboard` composed with `EventLoop` in one notion of time, with handlers that take time.
2. Handles dropped while `run_app` holds events for them.
