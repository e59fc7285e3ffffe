------------------------------ MODULE Keyboard ------------------------------
(***************************************************************************)
(* The keyboard: the dispatchers of wl_keyboard and of the keyboard        *)
(* capability of wl_seat (src/connection.rs) over KeyboardState, and the   *)
(* repeat timer of EventLoop::drain_key_repeats (src/event_loop.rs).       *)
(*                                                                         *)
(* Time advances by ticks.  next_fire_at is kept as the ticks still to go, *)
(* negative when the tick is overdue.  What a key types is abstracted to   *)
(* the modifiers it is translated with.  news is what the last step pushed.*)
(***************************************************************************)
EXTENDS Integers, FiniteSets

\* A definition Name_Slip is Name as a slip of the programmer would make it;
\* nothing here uses it: put in the place of Name, it must break the property
\* the README lists it under.

CONSTANTS
  Surfaces,        \* surfaces with an entry in surface_id_by_wl
  Keys,            \* scancodes
  Keymaps,         \* of each keymap it may send, the keys that repeat in it
  Rates, Delays,   \* what repeat_info may say; Delays in ticks
  Second,          \* the ticks of a second (1000 in the code)
  Budget,          \* the catch-up budget of one drain (32 in the code)
  MaxAge,          \* bound: ticks a key is held
  Unplugs          \* may the seat lose its keyboard?

Foreign == "foreign"   \* a surface an embedder made on our connection
Nobody == "nobody"
Mods == {"plain", "shifted"}

ASSUME KeyboardAssumption ==
  /\ Keymaps \subseteq SUBSET Keys
  /\ Rates \subseteq Int /\ Delays \subseteq Int
  /\ Second \in Nat \ {0} /\ Budget \in Nat \ {0} /\ MaxAge \in Nat
  /\ Unplugs \in BOOLEAN
  /\ Foreign \notin Surfaces /\ Nobody \notin Surfaces

VARIABLES
  wl_keyboard,       \* the proxy: "none", "live", or "inert" once unplugged
  xkb,               \* the xkb state: "none" or the modifiers it was given
  keymap,            \* its keymap, for the keys that repeat in it
  focused_surface, modifiers, repeat_rate, repeat_delay, repeating,
  last_input_serial, \* abstracted to whether there is one
  news,
  capable, focus, down, live,  \* the compositor: capability, focus, keys down,
                               \* surfaces not destroyed
  told_focus, paced            \* history, see below

state == <<wl_keyboard, xkb, keymap, focused_surface, modifiers, repeat_rate,
           repeat_delay, repeating, last_input_serial>>
compositor == <<capable, focus, down, live>>

\* The surface the consumer was told is focused; of the key armed last, how
\* long it is held, how often it repeated, and whether the settings it was armed
\* with still hold.
history == <<told_focus, paced>>
vars == <<state, news, compositor, history>>

Silence == [kind |-> "none"]
FocusNews(kind, s) == [kind |-> kind, surface |-> s]
KeyNews(kind, s, k, typed) ==
  [kind |-> kind, surface |-> s, key |-> k, modifiers |-> modifiers,
   typed |-> typed, count |-> 1]
IsKeyNews(n) == n.kind \in {"pressed", "released", "repeat"}

NoKey == [surface |-> Nobody]
Unpaced == [age |-> 0, fired |-> 0, delay |-> 0, steady |-> TRUE]

Init ==
  /\ wl_keyboard = "none" /\ xkb = "none" /\ keymap = {}
  /\ focused_surface = Nobody /\ modifiers = "plain"
  /\ repeat_rate = 0 /\ repeat_delay = 0      \* derive(Default)
  /\ repeating = NoKey /\ last_input_serial = FALSE
  /\ news = Silence
  /\ capable = FALSE /\ focus = Nobody /\ down = {} /\ live = Surfaces
  /\ told_focus = Nobody /\ paced = Unpaced
-----------------------------------------------------------------------------
(* wl_seat.capabilities.                                                   *)

\* A proxy is made once and never given back.
Plugged ==
  /\ ~capable /\ capable' = TRUE
  /\ wl_keyboard' = IF wl_keyboard = "none" THEN "live" ELSE wl_keyboard
  /\ news' = Silence
  /\ UNCHANGED <<xkb, keymap, focused_surface, modifiers, repeat_rate, repeat_delay,
                 repeating, last_input_serial, focus, down, live, history>>

\* The compositor lets the objects of the capability go inert: no leave, no
\* release.
Unplugged ==
  /\ Unplugs /\ capable /\ capable' = FALSE
  /\ wl_keyboard' = "inert"
  /\ focus' = Nobody /\ down' = {}
  /\ news' = Silence
  /\ UNCHANGED <<xkb, keymap, focused_surface, modifiers, repeat_rate, repeat_delay,
                 repeating, last_input_serial, live, history>>
-----------------------------------------------------------------------------
(* wl_keyboard.                                                            *)

\* A new keymap starts from no modifiers; the cached ones stay, and so does the
\* key that is armed, whether it repeats in the new one or not.
Keymap(m) ==
  /\ wl_keyboard = "live"
  /\ xkb' = "plain" /\ keymap' = m
  /\ news' = Silence
  /\ UNCHANGED <<wl_keyboard, focused_surface, modifiers, repeat_rate,
                 repeat_delay, repeating, last_input_serial, compositor, history>>

\* surface_id_by_wl finds our live surfaces; the object of a destroyed one
\* arrives as null
Found(t) == t \in live

Enter(t) ==
  /\ wl_keyboard = "live" /\ focus = Nobody
  /\ t \in live \cup {Foreign}
  /\ focus' = t
  /\ IF Found(t)
     THEN /\ focused_surface' = t /\ told_focus' = t
          /\ news' = FocusNews("focused", t)
     ELSE news' = Silence /\ UNCHANGED <<focused_surface, told_focus>>
  /\ \E held \in SUBSET Keys : down' = held
  /\ UNCHANGED <<wl_keyboard, xkb, keymap, modifiers, repeat_rate, repeat_delay,
                 repeating, last_input_serial, capable, live, paced>>

\* focus loss stops the repeat
StopOnLeave_Missing == UNCHANGED repeating

StopOnLeave == repeating' = NoKey

Leave ==
  /\ wl_keyboard = "live" /\ focus # Nobody
  /\ focus' = Nobody /\ down' = {}
  /\ IF Found(focus)
     THEN news' = FocusNews("unfocused", focus) /\ told_focus' = Nobody
     ELSE news' = Silence /\ UNCHANGED told_focus
  /\ focused_surface' = Nobody
  /\ StopOnLeave
  /\ UNCHANGED <<wl_keyboard, xkb, keymap, modifiers, repeat_rate, repeat_delay,
                 last_input_serial, capable, live, paced>>

\* A key event without a focused surface or a keymap is dropped.
Handled_Unfocused == xkb # "none"

Handled == focused_surface # Nobody /\ xkb # "none"

\* a positive rate and delay, and a key the keymap of this moment repeats
Arms(k) == repeat_rate > 0 /\ repeat_delay > 0 /\ k \in keymap

\* a key that does not repeat cancels the one that did
Rearmed(k) ==
  IF Arms(k)
  THEN [surface |-> focused_surface, key |-> k, typed |-> xkb, due |-> repeat_delay]
  ELSE NoKey

\* The serial is kept even of a press that is dropped.
Press(k) ==
  /\ wl_keyboard = "live" /\ focus # Nobody /\ k \notin down
  /\ down' = down \cup {k}
  /\ last_input_serial' = TRUE
  /\ IF Handled
     THEN /\ news' = KeyNews("pressed", focused_surface, k, xkb)
          /\ repeating' = Rearmed(k)
          /\ paced' = [Unpaced EXCEPT !.delay = repeat_delay]
     ELSE news' = Silence /\ UNCHANGED <<repeating, paced>>
  /\ UNCHANGED <<wl_keyboard, xkb, keymap, focused_surface, modifiers, repeat_rate,
                 repeat_delay, capable, focus, live, told_focus>>

\* only the release of the armed key stops the repeat
Disarmed_Never(k) == repeating

Disarmed(k) ==
  IF repeating # NoKey /\ repeating.key = k THEN NoKey ELSE repeating

Release(k) ==
  /\ wl_keyboard = "live" /\ focus # Nobody /\ k \in down
  /\ down' = down \ {k}
  /\ IF Handled
     THEN /\ news' = KeyNews("released", focused_surface, k, xkb)
          /\ repeating' = Disarmed(k)
     ELSE news' = Silence /\ UNCHANGED repeating
  /\ UNCHANGED <<wl_keyboard, xkb, keymap, focused_surface, modifiers, repeat_rate,
                 repeat_delay, last_input_serial, capable, focus, live, history>>

Modifiers(m) ==
  /\ wl_keyboard = "live" /\ focus # Nobody
  /\ IF xkb # "none" THEN xkb' = m /\ modifiers' = m
     ELSE UNCHANGED <<xkb, modifiers>>
  /\ news' = Silence
  /\ UNCHANGED <<wl_keyboard, keymap, focused_surface, repeat_rate, repeat_delay,
                 repeating, last_input_serial, compositor, history>>

\* settings that switch repeat off stop the armed key, others leave it armed
StopOnInfo_ZeroDelay(rate, delay) == rate <= 0

StopOnInfo(rate, delay) == rate <= 0 \/ delay <= 0

RepeatInfo(rate, delay) ==
  /\ wl_keyboard = "live"
  /\ repeat_rate' = rate /\ repeat_delay' = delay
  /\ repeating' = IF StopOnInfo(rate, delay) THEN NoKey ELSE repeating
  /\ paced' = [paced EXCEPT !.steady = FALSE]
  /\ news' = Silence
  /\ UNCHANGED <<wl_keyboard, xkb, keymap, focused_surface, modifiers,
                 last_input_serial, compositor, told_focus>>
-----------------------------------------------------------------------------
(* The repeat timer.                                                       *)

Tick ==
  /\ paced.age < MaxAge
  /\ repeating # NoKey
  /\ repeating' = [repeating EXCEPT !.due = @ - 1]
  /\ paced' = [paced EXCEPT !.age = @ + 1]
  /\ news' = Silence
  /\ UNCHANGED <<wl_keyboard, xkb, keymap, focused_surface, modifiers, repeat_rate,
                 repeat_delay, last_input_serial, compositor, told_focus>>

\* 1000 / rate_hz, an integer division: 0 for a rate above 1000
Period == Second \div repeat_rate

\* the ticks one drain fires: until the next is in the future or the budget is
\* spent
Fired(due) ==
  CHOOSE n \in 0..Budget :
    /\ n = Budget \/ due + n * Period > 0
    /\ \A m \in 0..(n - 1) : due + m * Period <= 0

\* the deadline advances by whole periods from the one before
Advance_FromNow(due, n) == Period

Advance(due, n) == due + n * Period

DrainKeyRepeats ==
  /\ repeating # NoKey /\ repeat_rate > 0 /\ repeating.due <= 0
  /\ LET n == Fired(repeating.due)
     IN /\ news' = [KeyNews("repeat", repeating.surface, repeating.key,
                            repeating.typed) EXCEPT !.count = n]
        /\ repeating' = [repeating EXCEPT !.due = Advance(repeating.due, n)]
        /\ paced' = [paced EXCEPT !.fired =
                       IF @ + n > MaxAge + 1 THEN MaxAge + 1 ELSE @ + n]
  /\ UNCHANGED <<wl_keyboard, xkb, keymap, focused_surface, modifiers, repeat_rate,
                 repeat_delay, last_input_serial, compositor, told_focus>>

\* The consumer destroys a surface; a leave for it follows if it had the focus.
DestroySurface(s) ==
  /\ s \in live
  /\ live' = live \ {s}
  /\ news' = Silence
  /\ UNCHANGED <<state, capable, focus, down, history>>

Next ==
  \/ Plugged \/ Unplugged \/ Leave \/ Tick \/ DrainKeyRepeats
  \/ \E m \in Keymaps : Keymap(m)
  \/ \E t \in Surfaces \cup {Foreign} : Enter(t)
  \/ \E k \in Keys : Press(k) \/ Release(k)
  \/ \E m \in Mods : Modifiers(m)
  \/ \E r \in Rates, d \in Delays : RepeatInfo(r, d)
  \/ \E s \in Surfaces : DestroySurface(s)

Spec == Init /\ [][Next]_vars
-----------------------------------------------------------------------------
(* Properties.                                                             *)

RepeatingKeys ==
  [surface : Surfaces, key : Keys, typed : Mods, due : Int] \cup {NoKey}

\* Every variable keeps its type; what is armed is on a surface of ours and was
\* translated with a keymap.
TypeOK ==
  /\ wl_keyboard \in {"none", "live", "inert"} /\ xkb \in Mods \cup {"none"}
  /\ keymap \in Keymaps \cup {{}}
  /\ focused_surface \in Surfaces \cup {Nobody} /\ modifiers \in Mods
  /\ repeat_rate \in Rates \cup {0} /\ repeat_delay \in Delays \cup {0}
  /\ repeating \in RepeatingKeys /\ last_input_serial \in BOOLEAN
  /\ capable \in BOOLEAN /\ down \subseteq Keys /\ live \subseteq Surfaces
  /\ focus \in Surfaces \cup {Foreign, Nobody}
  /\ told_focus \in Surfaces \cup {Nobody}

\* The key that repeats is held down, on the surface that has the focus
\* ("The currently-held repeatable key, if any", KeyboardState::repeating).
RepeatIsHeld ==
  repeating # NoKey =>
    /\ repeating.key \in down
    /\ repeating.surface = focused_surface /\ focused_surface = focus

\* So it is as long as the compositor serves the keyboard.
HeldWhileLive == wl_keyboard = "live" => RepeatIsHeld

\* Switched off means off: no key is armed while the rate or the delay is not
\* positive, whichever of press and repeat_info came first.
OffMeansOff == repeat_rate <= 0 \/ repeat_delay <= 0 => repeating = NoKey

\* Every key event, a repeat included, is pushed for the surface the consumer was
\* told has the focus, and so is Unfocused.  (Focused may follow on Focused: the
\* leave of a surface that was destroyed under the focus pushes nothing.)
KeysFollowFocus ==
  [][/\ IsKeyNews(news') => news'.surface = told_focus
     /\ news'.kind = "unfocused" => news'.surface = told_focus]_vars

\* The first repeat waits for the delay and each further one for a period, with
\* no drift however late a drain runs: with settings unchanged since the press
\* the next one is due delay + n periods after it, n repeats before.
RepeatsPaced ==
  repeating # NoKey /\ paced.steady /\ paced.fired <= MaxAge =>
    /\ repeating.due = paced.delay + paced.fired * Period - paced.age
    /\ paced.fired > 0 => paced.delay + (paced.fired - 1) * Period <= paced.age
=============================================================================
