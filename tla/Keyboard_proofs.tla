-------------------------- MODULE Keyboard_proofs --------------------------
(***************************************************************************)
(* What the keyboard guarantees for every set of surfaces and keys, every  *)
(* rate and delay a compositor may send, and every tick and budget.        *)
(***************************************************************************)
EXTENDS Keyboard, TLAPS, WellFoundedInduction

USE DEF Handled

-----------------------------------------------------------------------------
(* The repeat timer's arithmetic.                                          *)

\* A positive rate gives a period, which is 0 above one repeat a tick.
LEMMA PeriodIsNat ==
  ASSUME repeat_rate \in Int, repeat_rate > 0
  PROVE  Period \in Nat
  BY KeyboardAssumption DEF Period

\* A drain that finds the tick due fires at least once and at most Budget
\* times: it stops at the first tick in the future.
LEMMA FiredLeast ==
  ASSUME NEW due \in Int, due <= 0, Period \in Nat
  PROVE  /\ Fired(due) \in 1..Budget
         /\ due + (Fired(due) - 1) * Period <= 0
<1>. DEFINE stops == {n \in 0..Budget : n = Budget \/ due + n * Period > 0}
            R == OpToRel(<, Nat)
<1>. Budget \in Nat \ {0}
  BY KeyboardAssumption
<1>1. stops \subseteq Nat /\ Budget \in stops
  OBVIOUS
<1>2. PICK least \in stops : \A m \in stops : <<m, least>> \notin R
  BY <1>1, NatLessThanWellFounded, WFMin
<1>3. \A m \in stops : ~(m < least)
  BY <1>1, <1>2 DEF OpToRel
<1>4. \A m \in 0..(least - 1) : due + m * Period <= 0
  <2>. SUFFICES ASSUME NEW m \in 0..(least - 1) PROVE due + m * Period <= 0
    OBVIOUS
  <2>1. m \in 0..Budget /\ m \notin stops
    BY <1>1, <1>3
  <2>2. m * Period \in Int
    OBVIOUS
  <2>. QED
    BY <2>1, <2>2
<1>. DEFINE Stop(n) == /\ n = Budget \/ due + n * Period > 0
                       /\ \A m \in 0..(n - 1) : due + m * Period <= 0
<1>5. least \in 0..Budget /\ Stop(least)
  BY <1>4
<1>6. Fired(due) \in 0..Budget /\ Stop(Fired(due))
  BY <1>5 DEF Fired
<1>7. Fired(due) # 0
  BY <1>6
<1>. QED
  BY <1>6, <1>7
-----------------------------------------------------------------------------
(* Type correctness.                                                       *)

LEMMA NoKeyIsNone ==
  ASSUME NEW r \in [surface : Surfaces, key : Keys, typed : Mods, due : Int]
  PROVE  r # NoKey
  BY KeyboardAssumption DEF NoKey

LEMMA TypeStep == TypeOK /\ [Next]_vars => TypeOK'
<1>. SUFFICES ASSUME TypeOK, [Next]_vars PROVE TypeOK'
  OBVIOUS
<1>. USE DEF compositor, history
<1>1. CASE Plugged
  BY <1>1 DEF Plugged, TypeOK
<1>2. CASE Unplugged
  BY <1>2 DEF Unplugged, TypeOK
<1>3. ASSUME NEW m \in Keymaps, Keymap(m) PROVE TypeOK'
  BY <1>3 DEF Keymap, TypeOK, Mods
<1>4. CASE Leave
  BY <1>4 DEF Leave, StopOnLeave, TypeOK, RepeatingKeys
<1>5. CASE Tick
  <2>1. repeating' \in RepeatingKeys
    BY <1>5 DEF Tick, TypeOK, RepeatingKeys
  <2>. QED
    BY <1>5, <2>1 DEF Tick, TypeOK
<1>6. CASE DrainKeyRepeats
  <2>1. /\ repeating \in [surface : Surfaces, key : Keys, typed : Mods, due : Int]
        /\ repeating.due <= 0 /\ repeat_rate \in Int /\ repeat_rate > 0
    BY <1>6, KeyboardAssumption DEF DrainKeyRepeats, TypeOK, RepeatingKeys
  <2>2. Period \in Nat /\ Fired(repeating.due) \in Int
    BY <2>1, PeriodIsNat, FiredLeast
  <2>3. Advance(repeating.due, Fired(repeating.due)) \in Int
    BY <2>1, <2>2 DEF Advance
  <2>4. repeating' = [repeating EXCEPT !.due = Advance(repeating.due, Fired(repeating.due))]
    BY <1>6 DEF DrainKeyRepeats
  <2>5. repeating' \in RepeatingKeys
    BY <2>1, <2>3, <2>4 DEF RepeatingKeys
  <2>. QED
    BY <1>6, <2>5 DEF DrainKeyRepeats, TypeOK
<1>7. ASSUME NEW t \in Surfaces \cup {Foreign}, Enter(t) PROVE TypeOK'
  BY <1>7 DEF Enter, Found, TypeOK
<1>8. ASSUME NEW k \in Keys, Press(k) PROVE TypeOK'
  <2>1. repeating' \in RepeatingKeys
    <3>1. CASE focused_surface # Nobody /\ xkb # "none" /\ Arms(k)
      <4>1. /\ focused_surface \in Surfaces /\ xkb \in Mods
            /\ repeat_delay \in Int
        BY <3>1, KeyboardAssumption DEF Arms, TypeOK
      <4>2. repeating' = [surface |-> focused_surface, key |-> k, typed |-> xkb,
                          due |-> repeat_delay]
        BY <1>8, <3>1 DEF Press, Rearmed
      <4>. QED
        BY <4>1, <4>2 DEF RepeatingKeys
    <3>2. CASE ~(focused_surface # Nobody /\ xkb # "none" /\ Arms(k))
      BY <1>8, <3>2 DEF Press, Rearmed, RepeatingKeys, TypeOK
    <3>. QED
      BY <3>1, <3>2
  <2>. QED
    BY <1>8, <2>1 DEF Press, TypeOK
<1>9. ASSUME NEW k \in Keys, Release(k) PROVE TypeOK'
  <2>1. repeating' \in {repeating, NoKey}
    BY <1>9 DEF Release, Disarmed
  <2>. QED
    BY <1>9, <2>1 DEF Release, TypeOK, RepeatingKeys
<1>10. ASSUME NEW m \in Mods, Modifiers(m) PROVE TypeOK'
  BY <1>10 DEF Modifiers, TypeOK
<1>11. ASSUME NEW r \in Rates, NEW d \in Delays, RepeatInfo(r, d) PROVE TypeOK'
  <2>1. repeating' \in {repeating, NoKey}
    BY <1>11 DEF RepeatInfo
  <2>. QED
    BY <1>11, <2>1 DEF RepeatInfo, TypeOK, RepeatingKeys
<1>12. ASSUME NEW s \in Surfaces, DestroySurface(s) PROVE TypeOK'
  BY <1>12 DEF DestroySurface, state, TypeOK
<1>13. CASE UNCHANGED vars
  BY <1>13 DEF vars, state, TypeOK
<1>. QED
  BY <1>1, <1>2, <1>3, <1>4, <1>5, <1>6, <1>7, <1>8, <1>9, <1>10, <1>11, <1>12,
     <1>13 DEF Next

\* The keyboard state keeps its types; what is armed is on a surface of ours and
\* was translated with a keymap, whatever settings, keymaps and focus the
\* compositor sends.
THEOREM TypeCorrect == Spec => []TypeOK
<1>1. Init => TypeOK
  BY DEF Init, TypeOK, RepeatingKeys, Mods
<1>. QED
  BY <1>1, TypeStep, PTL DEF Spec
-----------------------------------------------------------------------------
(* Switched off means off.                                                 *)

\* No key is armed while repeat is switched off, and none stays armed when it
\* is: the press and the repeat_info handler check both the rate and the delay.
THEOREM RepeatStaysOff == Spec => []OffMeansOff
<1>1. Init => OffMeansOff
  BY DEF Init, OffMeansOff
<1>2. TypeOK /\ OffMeansOff /\ [Next]_vars => OffMeansOff'
  <2>. SUFFICES ASSUME TypeOK, OffMeansOff, [Next]_vars,
                       repeat_rate' <= 0 \/ repeat_delay' <= 0
                PROVE  repeating' = NoKey
    BY DEF OffMeansOff
  <2>1. CASE \E r \in Rates, d \in Delays : RepeatInfo(r, d)
    BY <2>1 DEF RepeatInfo, StopOnInfo
  <2>2. CASE ~(\E r \in Rates, d \in Delays : RepeatInfo(r, d))
    <3>1. UNCHANGED <<repeat_rate, repeat_delay>>
      BY <2>2 DEF Next, vars, state, history, Plugged, Unplugged, Keymap, Enter,
         Leave, Press, Release, Modifiers, Tick, DrainKeyRepeats, DestroySurface
    <3>2. repeating = NoKey
      BY <3>1 DEF OffMeansOff
    <3>3. CASE \E k \in Keys : Press(k)
      BY <3>1, <3>2, <3>3, KeyboardAssumption DEF Press, Rearmed, Arms, TypeOK
    <3>4. CASE ~(\E k \in Keys : Press(k))
      BY <2>2, <3>2, <3>4 DEF Next, vars, state, history, Plugged, Unplugged,
         Keymap, Enter, Leave, StopOnLeave, Release, Disarmed, Modifiers, Tick,
         DrainKeyRepeats, DestroySurface
    <3>. QED
      BY <3>3, <3>4
  <2>. QED
    BY <2>1, <2>2
<1>. QED
  BY <1>1, <1>2, TypeCorrect, PTL DEF Spec
-----------------------------------------------------------------------------
(* Focus.                                                                  *)

\* What the seat, the focus, the armed key and the consumer have to do with
\* each other.  A seat without keyboard yet has nothing; a live one focuses our
\* surface or none; an unplugged one may leave a key armed, on the surface the
\* consumer still believes focused.
FocusInv ==
  /\ wl_keyboard = "none" =>
       focus = Nobody /\ focused_surface = Nobody /\ repeating = NoKey
  /\ wl_keyboard = "live" =>
       /\ focused_surface \in {focus, Nobody}
       /\ repeating # NoKey =>
            repeating.key \in down /\ repeating.surface = focused_surface
  /\ focused_surface # Nobody => told_focus = focused_surface
  /\ repeating # NoKey => xkb # "none" /\ repeating.surface = told_focus
  /\ focus \in live => told_focus = focus

\* A key that is armed is on a surface of ours.
LEMMA ArmedSurface ==
  ASSUME TypeOK, repeating # NoKey
  PROVE  /\ repeating \in [surface : Surfaces, key : Keys, typed : Mods, due : Int]
         /\ repeating.surface \in Surfaces /\ repeating.surface # Nobody
  BY KeyboardAssumption DEF TypeOK, RepeatingKeys

LEMMA FocusStep == TypeOK /\ FocusInv /\ [Next]_vars => FocusInv'
<1>. SUFFICES ASSUME TypeOK, FocusInv, [Next]_vars PROVE FocusInv'
  OBVIOUS
<1>. USE KeyboardAssumption DEF compositor, history
<1>0. Nobody \notin live /\ Foreign \notin live /\ Nobody # Foreign
  BY DEF TypeOK, Nobody, Foreign
<1>1. CASE Plugged
  BY <1>1 DEF Plugged, FocusInv
<1>2. CASE Unplugged
  BY <1>0, <1>2 DEF Unplugged, FocusInv
<1>3. ASSUME NEW m \in Keymaps, Keymap(m) PROVE FocusInv'
  BY <1>3 DEF Keymap, FocusInv
<1>4. CASE Leave
  BY <1>0, <1>4 DEF Leave, StopOnLeave, Found, FocusInv
<1>5. CASE Tick
  <2>1. /\ repeating # NoKey /\ repeating' # NoKey
        /\ repeating'.key = repeating.key /\ repeating'.surface = repeating.surface
    BY <1>5, ArmedSurface DEF Tick, NoKey
  <2>. QED
    BY <1>5, <2>1 DEF Tick, FocusInv
<1>6. CASE DrainKeyRepeats
  <2>1. /\ repeating # NoKey /\ repeating' # NoKey
        /\ repeating'.key = repeating.key /\ repeating'.surface = repeating.surface
    BY <1>6, ArmedSurface DEF DrainKeyRepeats, NoKey
  <2>. QED
    BY <1>6, <2>1 DEF DrainKeyRepeats, FocusInv
<1>7. ASSUME NEW t \in Surfaces \cup {Foreign}, Enter(t) PROVE FocusInv'
  <2>1. wl_keyboard = "live" /\ focus = Nobody /\ focused_surface = Nobody
    BY <1>7 DEF Enter, FocusInv
  <2>2. repeating = NoKey /\ UNCHANGED <<repeating, xkb, wl_keyboard, live>>
    BY <1>7, <2>1, ArmedSurface DEF Enter, FocusInv
  <2>3. CASE Found(t)
    BY <1>7, <2>1, <2>2, <2>3 DEF Enter, FocusInv
  <2>4. CASE ~Found(t)
    BY <1>7, <2>1, <2>2, <2>4 DEF Enter, Found, FocusInv
  <2>. QED
    BY <2>3, <2>4
<1>8. ASSUME NEW k \in Keys, Press(k) PROVE FocusInv'
  <2>1. /\ wl_keyboard = "live" /\ down' = down \cup {k}
        /\ UNCHANGED <<wl_keyboard, xkb, focused_surface, focus, live, told_focus>>
    BY <1>8 DEF Press
  <2>2. CASE repeating' \in {repeating, NoKey}
    BY <2>1, <2>2 DEF FocusInv
  <2>3. CASE repeating' \notin {repeating, NoKey}
    <3>1. /\ focused_surface # Nobody /\ xkb # "none"
          /\ repeating' = [surface |-> focused_surface, key |-> k, typed |-> xkb,
                           due |-> repeat_delay]
      BY <1>8, <2>3 DEF Press, Rearmed
    <3>. QED
      BY <2>1, <3>1 DEF FocusInv
  <2>. QED
    BY <2>2, <2>3
<1>9. ASSUME NEW k \in Keys, Release(k) PROVE FocusInv'
  <2>1. /\ wl_keyboard = "live" /\ down' = down \ {k}
        /\ UNCHANGED <<wl_keyboard, xkb, focused_surface, focus, live, told_focus>>
    BY <1>9 DEF Release
  <2>2. CASE repeating = NoKey
    BY <1>9, <2>1, <2>2 DEF Release, Disarmed, FocusInv
  <2>3. CASE repeating # NoKey
    <3>1. focused_surface # Nobody /\ xkb # "none"
      BY <2>1, <2>3, ArmedSurface DEF FocusInv
    <3>2. repeating' = IF repeating.key = k THEN NoKey ELSE repeating
      BY <1>9, <2>3, <3>1 DEF Release, Disarmed
    <3>. QED
      BY <2>1, <2>3, <3>2 DEF FocusInv
  <2>. QED
    BY <2>2, <2>3
<1>10. ASSUME NEW m \in Mods, Modifiers(m) PROVE FocusInv'
  BY <1>10 DEF Modifiers, Mods, FocusInv
<1>11. ASSUME NEW r \in Rates, NEW d \in Delays, RepeatInfo(r, d) PROVE FocusInv'
  BY <1>11 DEF RepeatInfo, FocusInv
<1>12. ASSUME NEW s \in Surfaces, DestroySurface(s) PROVE FocusInv'
  BY <1>12 DEF DestroySurface, state, FocusInv
<1>13. CASE UNCHANGED vars
  BY <1>13 DEF vars, state, FocusInv
<1>. QED
  BY <1>1, <1>2, <1>3, <1>4, <1>5, <1>6, <1>7, <1>8, <1>9, <1>10, <1>11, <1>12,
     <1>13 DEF Next

THEOREM FocusCorrect == Spec => []FocusInv
<1>1. Init => FocusInv
  BY KeyboardAssumption DEF Init, FocusInv
<1>. QED
  BY <1>1, FocusStep, TypeCorrect, PTL DEF Spec

\* As long as the seat has its keyboard, what repeats is a key that is down, on
\* the surface that has the focus, for every sequence of presses and releases of
\* several keys, focus changes, keymaps and destroyed surfaces.
THEOREM RepeatsHeldKeys == Spec => []HeldWhileLive
<1>1. TypeOK /\ FocusInv => HeldWhileLive
  <2>. SUFFICES ASSUME TypeOK, FocusInv, wl_keyboard = "live", repeating # NoKey
                PROVE  /\ repeating.key \in down
                       /\ repeating.surface = focused_surface
                       /\ focused_surface = focus
    BY DEF HeldWhileLive, RepeatIsHeld
  <2>. QED
    BY ArmedSurface DEF FocusInv
<1>. QED
  BY <1>1, FocusCorrect, TypeCorrect, PTL

\* Key events, repeats included, and Unfocused go to the surface the consumer
\* was told has the focus.
THEOREM KeysGoToFocus == Spec => KeysFollowFocus
<1>1. TypeOK /\ FocusInv /\ [Next]_vars =>
        [/\ IsKeyNews(news') => news'.surface = told_focus
         /\ news'.kind = "unfocused" => news'.surface = told_focus]_vars
  <2>. SUFFICES ASSUME TypeOK, FocusInv, Next
                PROVE  /\ IsKeyNews(news') => news'.surface = told_focus
                       /\ news'.kind = "unfocused" => news'.surface = told_focus
    OBVIOUS
  <2>1. CASE Leave
    BY <2>1 DEF Leave, Found, FocusNews, Silence, IsKeyNews, FocusInv
  <2>2. CASE DrainKeyRepeats
    <3>1. news'.kind = "repeat" /\ news'.surface = repeating.surface
      BY <2>2 DEF DrainKeyRepeats, KeyNews
    <3>. QED
      BY <2>2, <3>1 DEF DrainKeyRepeats, FocusInv
  <2>3. ASSUME NEW k \in Keys, Press(k) \/ Release(k)
        PROVE  /\ IsKeyNews(news') => news'.surface = told_focus
               /\ news'.kind = "unfocused" => news'.surface = told_focus
    <3>1. \/ news' = Silence
          \/ /\ focused_surface # Nobody
             /\ \/ news' = KeyNews("pressed", focused_surface, k, xkb)
                \/ news' = KeyNews("released", focused_surface, k, xkb)
      BY <2>3 DEF Press, Release
    <3>. QED
      BY <3>1 DEF KeyNews, Silence, IsKeyNews, FocusInv
  <2>4. CASE \E t \in Surfaces \cup {Foreign} : Enter(t)
    BY <2>4 DEF Enter, FocusNews, Silence, IsKeyNews
  <2>5. CASE \/ Plugged \/ Unplugged \/ (\E m \in Keymaps : Keymap(m)) \/ Tick
             \/ (\E m \in Mods : Modifiers(m))
             \/ (\E r \in Rates, d \in Delays : RepeatInfo(r, d))
             \/ (\E s \in Surfaces : DestroySurface(s))
    <3>1. news' = Silence
      BY <2>5 DEF Plugged, Unplugged, Keymap, Tick, Modifiers, RepeatInfo,
         DestroySurface
    <3>. QED
      BY <3>1 DEF Silence, IsKeyNews
  <2>. QED
    BY <2>1, <2>2, <2>3, <2>4, <2>5 DEF Next
<1>. QED
  BY <1>1, FocusCorrect, TypeCorrect, PTL DEF Spec, KeysFollowFocus
-----------------------------------------------------------------------------
(* The pace of the repeats.                                                *)

\* The history of the key armed last is made of numbers.
PacedType ==
  /\ paced = [age |-> paced.age, fired |-> paced.fired, delay |-> paced.delay,
              steady |-> paced.steady]
  /\ paced.age \in Nat /\ paced.fired \in Nat /\ paced.delay \in Int
  /\ paced.steady \in BOOLEAN

PacedInv == PacedType /\ RepeatsPaced

\* The steps that let the timer alone, or stop it.
LEMMA PaceUntouched ==
  ASSUME PacedInv, UNCHANGED <<paced, repeat_rate>>, repeating' \in {repeating, NoKey}
  PROVE  PacedInv'
  BY DEF PacedInv, PacedType, RepeatsPaced, Period

LEMMA PacedStep == TypeOK /\ OffMeansOff /\ PacedInv /\ [Next]_vars => PacedInv'
<1>. SUFFICES ASSUME TypeOK, OffMeansOff, PacedInv, [Next]_vars PROVE PacedInv'
  OBVIOUS
<1>1. CASE Tick
  <2>1. /\ paced' = [paced EXCEPT !.age = @ + 1] /\ repeat_rate' = repeat_rate
        /\ repeating # NoKey /\ repeating' = [repeating EXCEPT !.due = @ - 1]
    BY <1>1 DEF Tick
  <2>2. repeating.due \in Int /\ repeating'.due = repeating.due - 1
    BY <2>1, ArmedSurface
  <2>3. /\ paced'.age = paced.age + 1 /\ paced'.fired = paced.fired
        /\ paced'.delay = paced.delay /\ paced'.steady = paced.steady
        /\ PacedType'
    BY <2>1 DEF PacedInv, PacedType
  <2>4. Period' = Period /\ Period \in Nat
    BY <2>1, KeyboardAssumption, PeriodIsNat DEF Period, OffMeansOff, TypeOK
  <2>. SUFFICES ASSUME paced.steady, paced.fired <= MaxAge
                PROVE  /\ repeating'.due = paced'.delay + paced'.fired * Period - paced'.age
                       /\ paced'.fired > 0 =>
                            paced'.delay + (paced'.fired - 1) * Period <= paced'.age
    BY <2>3, <2>4 DEF PacedInv, RepeatsPaced
  <2>5. /\ repeating.due = paced.delay + paced.fired * Period - paced.age
        /\ paced.fired > 0 => paced.delay + (paced.fired - 1) * Period <= paced.age
    BY <2>1 DEF PacedInv, RepeatsPaced
  <2>6. paced.fired * Period \in Int /\ (paced.fired - 1) * Period \in Int
    BY <2>4 DEF PacedInv, PacedType
  <2>. QED
    BY <2>2, <2>3, <2>5, <2>6 DEF PacedInv, PacedType
<1>2. CASE DrainKeyRepeats
  <2>. DEFINE n == Fired(repeating.due)
  <2>1. /\ repeating # NoKey /\ repeat_rate > 0 /\ repeating.due <= 0
        /\ repeat_rate' = repeat_rate
        /\ repeating' = [repeating EXCEPT !.due = Advance(repeating.due, n)]
        /\ paced' = [paced EXCEPT !.fired =
                       IF @ + n > MaxAge + 1 THEN MaxAge + 1 ELSE @ + n]
    BY <1>2 DEF DrainKeyRepeats
  <2>2. repeating.due \in Int /\ repeating'.due = repeating.due + n * Period
    BY <2>1, ArmedSurface DEF Advance
  <2>3. Period' = Period /\ Period \in Nat
    BY <2>1, KeyboardAssumption, PeriodIsNat DEF Period, TypeOK
  <2>4. n \in Nat \ {0} /\ repeating.due + (n - 1) * Period <= 0
    BY <2>1, <2>2, <2>3, FiredLeast, KeyboardAssumption
  <2>. HIDE DEF n
  <2>5. /\ paced'.age = paced.age /\ paced'.delay = paced.delay
        /\ paced'.steady = paced.steady
        /\ paced'.fired = IF paced.fired + n > MaxAge + 1 THEN MaxAge + 1
                          ELSE paced.fired + n
    BY <2>1 DEF PacedInv, PacedType
  <2>6. PacedType'
    BY <2>1, <2>4, <2>5, KeyboardAssumption DEF PacedInv, PacedType
  <2>. SUFFICES ASSUME paced.steady, paced'.fired <= MaxAge
                PROVE  /\ repeating'.due = paced'.delay + paced'.fired * Period - paced'.age
                       /\ paced'.fired > 0 =>
                            paced'.delay + (paced'.fired - 1) * Period <= paced'.age
    BY <2>3, <2>5, <2>6 DEF PacedInv, RepeatsPaced
  <2>7. paced'.fired = paced.fired + n /\ paced.fired <= MaxAge
    BY <2>4, <2>5, KeyboardAssumption DEF PacedInv, PacedType
  <2>8. repeating.due = paced.delay + paced.fired * Period - paced.age
    BY <2>1, <2>7 DEF PacedInv, RepeatsPaced
  <2>9. /\ (paced.fired + n) * Period = paced.fired * Period + n * Period
        /\ (paced.fired + n - 1) * Period = paced.fired * Period + (n - 1) * Period
        /\ paced.fired * Period \in Int /\ n * Period \in Int
        /\ (n - 1) * Period \in Int
    BY <2>3, <2>4 DEF PacedInv, PacedType
  <2>. QED
    BY <2>2, <2>4, <2>5, <2>7, <2>8, <2>9 DEF PacedInv, PacedType
<1>3. ASSUME NEW k \in Keys, Press(k) PROVE PacedInv'
  <2>1. CASE focused_surface # Nobody /\ xkb # "none"
    <3>1. /\ repeating' = Rearmed(k) /\ paced' = [Unpaced EXCEPT !.delay = repeat_delay]
          /\ repeat_rate' = repeat_rate /\ repeat_delay \in Int
      BY <1>3, <2>1, KeyboardAssumption DEF Press, TypeOK
    <3>2. /\ PacedType' /\ paced'.age = 0 /\ paced'.fired = 0
          /\ paced'.delay = repeat_delay
      BY <3>1 DEF PacedType, Unpaced
    <3>3. CASE Arms(k)
      <4>1. repeating'.due = repeat_delay /\ repeat_rate > 0
        BY <3>1, <3>3 DEF Rearmed, Arms
      <4>2. Period' = Period /\ Period \in Nat
        BY <3>1, <4>1, KeyboardAssumption, PeriodIsNat DEF Period, TypeOK
      <4>. QED
        BY <3>1, <3>2, <4>1, <4>2 DEF PacedInv, RepeatsPaced
    <3>4. CASE ~Arms(k)
      BY <3>1, <3>2, <3>4 DEF Rearmed, PacedInv, RepeatsPaced
    <3>. QED
      BY <3>3, <3>4
  <2>2. CASE ~(focused_surface # Nobody /\ xkb # "none")
    BY <1>3, <2>2, PaceUntouched DEF Press
  <2>. QED
    BY <2>1, <2>2
<1>4. ASSUME NEW r \in Rates, NEW d \in Delays, RepeatInfo(r, d) PROVE PacedInv'
  <2>1. paced' = [paced EXCEPT !.steady = FALSE]
    BY <1>4 DEF RepeatInfo
  <2>2. PacedType' /\ ~paced'.steady
    BY <2>1 DEF PacedInv, PacedType
  <2>. QED
    BY <2>2 DEF PacedInv, RepeatsPaced
<1>5. CASE \/ Plugged \/ Unplugged \/ (\E m \in Keymaps : Keymap(m)) \/ Leave
           \/ (\E t \in Surfaces \cup {Foreign} : Enter(t))
           \/ (\E k \in Keys : Release(k)) \/ (\E m \in Mods : Modifiers(m))
           \/ (\E s \in Surfaces : DestroySurface(s)) \/ UNCHANGED vars
  <2>1. UNCHANGED <<paced, repeat_rate>> /\ repeating' \in {repeating, NoKey}
    BY <1>5 DEF Plugged, Unplugged, Keymap, Leave, StopOnLeave, Enter, Release,
       Disarmed, Modifiers, DestroySurface, vars, state, history
  <2>. QED
    BY <2>1, PaceUntouched
<1>. QED
  BY <1>1, <1>2, <1>3, <1>4, <1>5 DEF Next

\* A held key repeats on time: delay + n periods after the press with n repeats
\* before it, for every rate, delay, budget and lateness of the drains.
THEOREM RepeatsOnTime == Spec => []RepeatsPaced
<1>1. Init => PacedInv
  BY DEF Init, PacedInv, PacedType, Unpaced, RepeatsPaced
<1>2. PacedInv => RepeatsPaced
  BY DEF PacedInv
<1>. QED
  BY <1>1, <1>2, PacedStep, TypeCorrect, RepeatStaysOff, PTL DEF Spec
=============================================================================
