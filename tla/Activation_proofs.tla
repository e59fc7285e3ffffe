------------------------- MODULE Activation_proofs -------------------------
(***************************************************************************)
(* Touch and activation together: types, whole gestures, and tokens that   *)
(* activate the surface they were asked for, for any number of contacts,   *)
(* surfaces and tokens, answered in any order.                             *)
(***************************************************************************)
EXTENDS Activation, TLAPS

Places == [surface : Surfaces, position : Positions]

\* The maps of the dispatcher and what the consumer was told agree contact by
\* contact, and with the compositor while the touchscreen is there.
GestureInv ==
  /\ surfaces \in [DOMAIN surfaces -> Surfaces]
  /\ positions \in [DOMAIN positions -> Positions]
  /\ contacts \in [DOMAIN contacts -> Surfaces \cup {Foreign}]
  /\ told \in [DOMAIN surfaces -> Places]
  /\ \A i \in DOMAIN surfaces :
       told[i].surface = surfaces[i] /\ told[i].position = positions[i]
  /\ wl_touch = "live" =>
       /\ DOMAIN surfaces = {i \in DOMAIN contacts : contacts[i] # Foreign}
       /\ \A i \in DOMAIN surfaces : surfaces[i] = contacts[i]
  /\ wl_touch = "none" => DOMAIN positions = {} /\ DOMAIN contacts = {}

\* The serial kept is the newest of all, so no older than the newest of ours.
SerialInv == last_input_serial = serial /\ serial \in since

TokenInv ==
  /\ pending_activation_tokens \in [DOMAIN granted -> Surfaces]
  /\ granted \in [DOMAIN granted -> [surface : Surfaces, serial : 1..MaxSerial]]
  /\ \A t \in DOMAIN granted : pending_activation_tokens[t] = granted[t].surface
  /\ DOMAIN granted \subseteq Tokens
  /\ xdg_activation \in BOOLEAN
  /\ ~xdg_activation => granted = Empty

IInv == TypeOK /\ GestureInv /\ SerialInv /\ TokenInv
-----------------------------------------------------------------------------
(* The operators on maps and events.                                       *)

\* Insert adds or replaces one entry.
LEMMA InsertIs ==
  ASSUME NEW f, NEW i, NEW v
  PROVE  /\ Insert(f, i, v) \in [DOMAIN f \cup {i} -> {f[j] : j \in DOMAIN f} \cup {v}]
         /\ DOMAIN Insert(f, i, v) = DOMAIN f \cup {i}
         /\ Insert(f, i, v)[i] = v
         /\ \A j \in DOMAIN f : j # i => Insert(f, i, v)[j] = f[j]
  BY DEF Insert

\* Without removes entries and keeps the others.
LEMMA WithoutIs ==
  ASSUME NEW f, NEW I
  PROVE  /\ Without(f, I) \in [DOMAIN f \ I -> {f[j] : j \in DOMAIN f}]
         /\ DOMAIN Without(f, I) = DOMAIN f \ I
         /\ \A j \in DOMAIN f \ I : Without(f, I)[j] = f[j]
  BY DEF Without, Restrict

\* A handler that pushes nothing tells the consumer nothing.
LEMMA PushNothing ==
  ASSUME NEW D, NEW R, told \in [D -> R], Push({})
  PROVE  news' = {} /\ told' = told
  <1>1. news' = {} /\ told' = [i \in (D \cup {}) \ {} |-> told[i]]
    BY DEF Push
  <1>2. QED BY <1>1

\* One event of a contact that goes on places it.
LEMMA PushOn ==
  ASSUME NEW ph \in {"started", "moved"}, NEW i, NEW s, NEW p,
         Push({Touched(ph, i, s, p)})
  PROVE  /\ news' = {Touched(ph, i, s, p)}
         /\ told' = Insert(told, i, [surface |-> s, position |-> p])
  <1> DEFINE e == Touched(ph, i, s, p)
             over == {x.id : x \in {y \in {e} : y.phase \in {"ended", "cancelled"}}}
             on == {y \in {e} : y.id \notin over}
  <1>1. over = {} /\ on = {e} /\ e.id = i /\ e.surface = s /\ e.position = p
    BY DEF Touched
  <1>2. ASSUME NEW j
        PROVE  (\E x \in on : x.id = j) <=> j = i
    BY <1>1
  <1>3. (CHOOSE x \in on : x.id = i) = e
    BY <1>1
  <1>4. news' = {e} /\ told' = [j \in (DOMAIN told \cup {x.id : x \in on}) \ over |->
                   IF \E x \in on : x.id = j
                   THEN LET x == CHOOSE y \in on : y.id = j
                        IN [surface |-> x.surface, position |-> x.position]
                   ELSE told[j]]
    BY DEF Push
  <1>5. (DOMAIN told \cup {x.id : x \in on}) \ over = DOMAIN told \cup {i}
    BY <1>1
  <1>6. told' = [j \in DOMAIN told \cup {i} |->
                   IF j = i THEN [surface |-> s, position |-> p] ELSE told[j]]
    <2> HIDE DEF e, over, on
    <2> QED BY <1>1, <1>2, <1>3, <1>4, <1>5
  <1> QED BY <1>4, <1>6 DEF Insert

\* Events that end contacts take them away.
LEMMA PushOver ==
  ASSUME NEW ph \in {"ended", "cancelled"}, NEW I,
         Push({Touched(ph, i, surfaces[i], positions[i]) : i \in I})
  PROVE  /\ news' = {Touched(ph, i, surfaces[i], positions[i]) : i \in I}
         /\ told' = Without(told, I)
  <1> DEFINE events == {Touched(ph, i, surfaces[i], positions[i]) : i \in I}
             over == {x.id : x \in {y \in events : y.phase \in {"ended", "cancelled"}}}
             on == {y \in events : y.id \notin over}
  <1>1. \A y \in events : y.phase = ph /\ y.id \in I
    BY DEF Touched
  <1>2. over = I
    <2>1. over \subseteq I BY <1>1
    <2>2. ASSUME NEW i \in I PROVE i \in over
      <3>1. Touched(ph, i, surfaces[i], positions[i]) \in events OBVIOUS
      <3>2. Touched(ph, i, surfaces[i], positions[i]).id = i BY DEF Touched
      <3> QED BY <1>1, <3>1, <3>2
    <2> QED BY <2>1, <2>2
  <1>3. on = {}
    BY <1>1, <1>2
  <1>4. news' = events /\ told' = [j \in (DOMAIN told \cup {x.id : x \in on}) \ over |->
                   IF \E x \in on : x.id = j
                   THEN LET x == CHOOSE y \in on : y.id = j
                        IN [surface |-> x.surface, position |-> x.position]
                   ELSE told[j]]
    BY DEF Push
  <1>5. (DOMAIN told \cup {x.id : x \in on}) \ over = DOMAIN told \ I
    BY <1>2, <1>3
  <1>6. told' = [j \in DOMAIN told \ I |-> told[j]]
    <2> HIDE DEF events, over, on
    <2> QED BY <1>3, <1>4, <1>5
  <1> QED BY <1>4, <1>6 DEF Without, Restrict

\* The serial a new event gets.
LEMMA NextSerialIs ==
  ASSUME serial \in 0..MaxSerial
  PROVE  NextSerial \in 1..MaxSerial
  <1>1. serial \in Int /\ MaxSerial \in Int /\ MaxSerial > 0
    BY TouchAssumption
  <1>2. serial % MaxSerial \in 0..(MaxSerial - 1)
    BY <1>1
  <1> QED BY <1>1, <1>2 DEF NextSerial

\* A press gets a serial of the newest.
LEMMA PressIs ==
  ASSUME serial \in 0..MaxSerial, since \subseteq 0..MaxSerial, NEW ours \in BOOLEAN, Press(ours)
  PROVE  /\ serial' \in 1..MaxSerial /\ serial' \in since'
         /\ since' \subseteq 0..MaxSerial
  <1>1. serial' \in 1..MaxSerial /\ MaxSerial \in Int
    BY NextSerialIs, TouchAssumption DEF Press
  <1>2. serial' \in 0..MaxSerial
    BY <1>1
  <1>3. since' = {serial'} \/ since' = since \cup {serial'}
    BY DEF Press
  <1> QED BY <1>1, <1>2, <1>3
-----------------------------------------------------------------------------
(* The steps.                                                              *)

Disturbed == <<positions, surfaces, contacts, told, wl_touch>>

LEMMA InitInv == InitAll => IInv
  <1> SUFFICES ASSUME InitAll PROVE IInv
    OBVIOUS
  <1> USE DEF InitAll, Init
  <1>1. DOMAIN Empty = {} /\ \A R : Empty \in [{} -> R]
    BY DEF Empty
  <1>2. TypeOK
    <2>1. 0 \in 0..MaxSerial
      BY TouchAssumption
    <2>2. DOMAIN surfaces = {} /\ DOMAIN positions = {} /\ DOMAIN contacts = {}
      BY <1>1
    <2> QED BY <2>1, <2>2 DEF TypeOK
  <1>3. GestureInv
    BY <1>1 DEF GestureInv
  <1>4. TokenInv
    BY <1>1 DEF TokenInv
  <1> QED BY <1>2, <1>3, <1>4 DEF IInv, SerialInv

\* A contact starts on a surface of ours, or on another and is not followed.
LEMMA DownKeeps ==
  ASSUME IInv, NEW i \in Ids, NEW t \in Surfaces \cup {Foreign}, NEW p \in Positions,
         Down(i, t, p)
  PROVE  TypeOK' /\ GestureInv' /\ SerialInv'
  <1> USE DEF IInv, TypeOK, GestureInv, SerialInv
  <1>1. /\ wl_touch = "live" /\ wl_touch' = "live" /\ capable' = capable /\ live' = live
        /\ i \notin DOMAIN contacts /\ i \notin DOMAIN surfaces
        /\ contacts' = Insert(contacts, i, t)
    BY DEF Down
  <1>2. /\ serial' \in 1..MaxSerial /\ last_input_serial' = serial'
        /\ serial' \in since' /\ since' \subseteq 0..MaxSerial
    BY PressIs DEF Down, KeepSerial
  <1>3. CASE Found(t)
    <2>1. /\ positions' = Insert(positions, i, p)
          /\ surfaces' = Insert(surfaces, i, t)
          /\ Push({Touched("started", i, t, p)})
      BY <1>3 DEF Down
    <2>2. told' = Insert(told, i, [surface |-> t, position |-> p])
      BY <2>1, PushOn
    <2>3. t \in Surfaces /\ t # Foreign
      BY <1>3, TouchAssumption DEF Found
    <2>4. TypeOK'
      BY <1>1, <1>2, <2>1, <2>3 DEF Insert
    <2>5. GestureInv'
      BY <1>1, <2>1, <2>2, <2>3 DEF Insert, Places
    <2> QED BY <1>2, <2>4, <2>5
  <1>4. CASE ~Found(t)
    <2>1. Push({}) /\ positions' = positions /\ surfaces' = surfaces
      BY <1>4 DEF Down
    <2>2. told' = told
      BY <2>1, PushNothing
    <2>3. t \notin live
      BY <1>4 DEF Found
    <2>4. t = Foreign
      BY <2>3 DEF Down
    <2>5. TypeOK'
      BY <1>1, <1>2, <2>1 DEF Insert
    <2>6. GestureInv'
      BY <1>1, <2>1, <2>2, <2>4 DEF Insert
    <2> QED BY <1>2, <2>5, <2>6
  <1> QED BY <1>3, <1>4

\* A move keeps the place, of contacts that are not followed too.
LEMMA MotionKeeps ==
  ASSUME IInv, NEW i \in Ids, NEW p \in Positions, Motion(i, p)
  PROVE  TypeOK' /\ GestureInv' /\ SerialInv'
  <1> USE DEF IInv, TypeOK, GestureInv, SerialInv
  <1>1. /\ positions' = Insert(positions, i, p)
        /\ UNCHANGED <<wl_touch, surfaces, last_input_serial, capable, contacts, live, serial, since>>
    BY DEF Motion, KeepPosition
  <1>2. TypeOK'
    BY <1>1 DEF Insert
  <1>3. CASE i \in DOMAIN surfaces
    <2>1. told' = Insert(told, i, [surface |-> surfaces[i], position |-> p])
      BY <1>3, PushOn DEF Motion
    <2> QED BY <1>1, <1>2, <1>3, <2>1 DEF Insert, Places
  <1>4. CASE i \notin DOMAIN surfaces
    <2>1. told' = told
      BY <1>4, PushNothing DEF Motion
    <2>2. \A j \in DOMAIN surfaces : positions'[j] = positions[j]
      <3>1. DOMAIN surfaces \subseteq DOMAIN positions
        OBVIOUS
      <3> QED BY <1>1, <1>4, <3>1 DEF Insert
    <2>3. positions' \in [DOMAIN positions' -> Positions]
      BY <1>1 DEF Insert
    <2>4. wl_touch # "none"
      BY DEF Motion
    <2> QED BY <1>1, <1>2, <1>4, <2>1, <2>2, <2>3, <2>4
  <1> QED BY <1>3, <1>4

\* The end of some contacts, as up and cancel do it.
LEMMA EndKeeps ==
  ASSUME IInv, NEW I, NEW ph \in {"ended", "cancelled"}, wl_touch = "live",
         Forget(I \cap DOMAIN surfaces), contacts' = Without(contacts, I),
         Push({Touched(ph, i, surfaces[i], positions[i]) : i \in I \cap DOMAIN surfaces}),
         UNCHANGED <<wl_touch, last_input_serial, capable, live, serial, since>>
  PROVE  TypeOK' /\ GestureInv' /\ SerialInv'
  <1> USE DEF IInv, TypeOK, GestureInv, SerialInv
  <1> DEFINE J == I \cap DOMAIN surfaces
  <1>1. told' = Without(told, J)
    BY PushOver
  <1>2. positions' = Without(positions, J) /\ surfaces' = Without(surfaces, J)
    BY DEF Forget
  <1>3. TypeOK'
    BY <1>2 DEF Without, Restrict
  <1>4. GestureInv'
    BY <1>1, <1>2 DEF Without, Restrict, Places
  <1> QED BY <1>3, <1>4

LEMMA UpKeeps ==
  ASSUME IInv, NEW i \in Ids, Up(i)
  PROVE  TypeOK' /\ GestureInv' /\ SerialInv'
  <1> DEFINE J == {i} \cap DOMAIN surfaces
             Ended == {Touched("ended", j, surfaces[j], positions[j]) : j \in J}
  <1>1. wl_touch = "live" /\ contacts' = Without(contacts, {i})
        /\ UNCHANGED <<wl_touch, last_input_serial, capable, live, serial, since>>
    BY DEF Up
  <1>2. CASE i \in DOMAIN surfaces
    <2>1. J = {i} /\ Ended = {Touched("ended", i, surfaces[i], positions[i])}
      BY <1>2
    <2>2. Forget(J) /\ Push(Ended)
      BY <1>2, <2>1 DEF Up
    <2> QED BY <1>1, <2>2, EndKeeps
  <1>3. CASE i \notin DOMAIN surfaces
    <2>1. Push({}) /\ UNCHANGED <<positions, surfaces>>
      BY <1>3 DEF Up
    <2>2. told' = told
      BY <2>1, PushNothing DEF IInv, GestureInv
    <2> QED BY <1>1, <1>3, <2>1, <2>2
         DEF IInv, TypeOK, GestureInv, SerialInv, Without, Restrict
  <1> QED BY <1>2, <1>3

LEMMA CancelKeeps ==
  ASSUME IInv, Cancel
  PROVE  TypeOK' /\ GestureInv' /\ SerialInv'
  <1> DEFINE I == DOMAIN contacts
  <1>1. I \cap DOMAIN surfaces = DOMAIN surfaces
    BY DEF IInv, GestureInv, Cancel
  <1>2. contacts' = Without(contacts, I)
    BY DEF Cancel, Without, Restrict, Empty
  <1>3. Forget(I \cap DOMAIN surfaces)
    BY <1>1 DEF Cancel, Active
  <1>4. Push({Touched("cancelled", i, surfaces[i], positions[i]) : i \in I \cap DOMAIN surfaces})
    BY <1>1 DEF Cancel, Active
  <1>5. wl_touch = "live" /\ UNCHANGED <<wl_touch, last_input_serial, capable, live, serial, since>>
    BY DEF Cancel
  <1> QED BY <1>2, <1>3, <1>4, <1>5, EndKeeps

\* The other steps push nothing and leave the maps alone.
LEMMA QuietKeeps ==
  ASSUME IInv,
         Plugged \/ Unplugged \/ (\E s \in Surfaces : DestroySurface(s))
           \/ (\E ours \in BOOLEAN : OtherInput(ours)) \/ NoInput
  PROVE  TypeOK' /\ GestureInv' /\ SerialInv'
  <1> USE DEF IInv, TypeOK, GestureInv, SerialInv
  <1>1. Push({})
    BY DEF Plugged, Unplugged, DestroySurface, OtherInput, NoInput
  <1>2. told' = told
    BY <1>1, PushNothing
  <1>3. CASE Plugged
    BY <1>2, <1>3 DEF Plugged
  <1>4. CASE Unplugged
    BY <1>2, <1>4 DEF Unplugged, Empty
  <1>5. CASE \E s \in Surfaces : DestroySurface(s)
    BY <1>2, <1>5 DEF DestroySurface, state
  <1>6. CASE \E ours \in BOOLEAN : OtherInput(ours)
    BY <1>2, <1>6, PressIs DEF OtherInput
  <1>7. CASE NoInput
    BY <1>2, <1>7 DEF NoInput, state
  <1> QED BY <1>3, <1>4, <1>5, <1>6, <1>7

\* Every step keeps gestures and serial.
LEMMA GesturesKept ==
  ASSUME IInv, [NextAll]_allVars
  PROVE  TypeOK' /\ GestureInv' /\ SerialInv'
  <1>1. CASE TouchStep
    BY <1>1, DownKeeps, MotionKeeps, UpKeeps, CancelKeeps, QuietKeeps DEF TouchStep, Next
  <1>2. CASE \E ours \in BOOLEAN : OtherInput(ours)
    BY <1>2, QuietKeeps
  <1>3. CASE \E s \in Toplevels : RequestActivation(s) \/ SetActivationToken(s)
    BY <1>3, QuietKeeps DEF RequestActivation, SetActivationToken
  <1>4. CASE \E t \in Tokens : Done(t)
    BY <1>4, QuietKeeps DEF Done
  <1>5. CASE UNCHANGED allVars
    BY <1>5 DEF allVars, vars, state, IInv, TypeOK, GestureInv, SerialInv
  <1> QED BY <1>1, <1>2, <1>3, <1>4, <1>5 DEF NextAll

\* Every step keeps the tokens.
LEMMA TokensKept ==
  ASSUME IInv, [NextAll]_allVars
  PROVE  TokenInv'
  <1> USE DEF IInv, TokenInv
  <1>1. CASE UNCHANGED activation
    BY <1>1 DEF activation
  <1>2. ASSUME NEW s \in Toplevels, RequestActivation(s)
        PROVE  TokenInv'
    <2>1. CASE UNCHANGED <<pending_activation_tokens, granted>>
      BY <1>2, <2>1 DEF RequestActivation
    <2>2. ASSUME NEW t \in Tokens \ DOMAIN granted, Keep(t, s), xdg_activation,
                 last_input_serial # 0,
                 granted' = Insert(granted, t, [surface |-> s, serial |-> last_input_serial])
          PROVE  TokenInv'
      <3>1. s \in Surfaces /\ last_input_serial \in 1..MaxSerial
        BY <2>2, ActivationAssumption DEF TypeOK
      <3>2. xdg_activation' = xdg_activation
        BY <1>2 DEF RequestActivation
      <3> QED BY <2>2, <3>1, <3>2 DEF Keep, Insert
    <2> QED BY <1>2, <2>1, <2>2 DEF RequestActivation
  <1>3. ASSUME NEW t \in Tokens, Done(t)
        PROVE  TokenInv'
    BY <1>3 DEF Done, Forgotten, Without, Restrict, Empty
  <1> QED BY <1>1, <1>2, <1>3
       DEF NextAll, TouchStep, OtherInput, SetActivationToken, allVars, activation

LEMMA Invariance == SpecAll => []IInv
  <1>1. IInv /\ [NextAll]_allVars => IInv'
    BY GesturesKept, TokensKept DEF IInv
  <1> QED BY InitInv, <1>1, PTL DEF SpecAll
-----------------------------------------------------------------------------
(* Theorems.                                                               *)

\* The maps of the touch dispatcher keep their types, and a contact with a
\* surface has a position (TouchState).
THEOREM TypeCorrect == SpecAll => []TypeOK
  BY Invariance, PTL DEF IInv

\* While the touchscreen stays, the contacts known are those down on a surface
\* of ours, for the dispatcher as for the consumer (TouchState::surfaces).
THEOREM KnownContacts == SpecAll => []ContactsKnown
  <1>1. IInv => ContactsKnown
    BY DEF IInv, GestureInv, ContactsKnown
  <1> QED BY Invariance, <1>1, PTL

\* The map of tokens holds those that are owed an answer and nothing else
\* (State::pending_activation_tokens).
THEOREM TokensNotLost == SpecAll => []TokensAccounted
  <1>1. IInv => TokensAccounted
    BY DEF IInv, TokenInv, TokensAccounted
  <1> QED BY Invariance, <1>1, PTL

\* The events of one handler belong to a whole gesture.
GestureStep ==
  \A e \in news' :
    IF e.phase = "started" THEN e.id \notin DOMAIN told
    ELSE /\ e.id \in DOMAIN told /\ e.surface = told[e.id].surface
         /\ e.phase # "moved" => e.position = told[e.id].position

LEMMA GestureSteps ==
  ASSUME IInv, [NextAll]_allVars
  PROVE  GestureStep \/ UNCHANGED vars
  <1> USE DEF GestureStep
  <1>1. ASSUME Push({}) PROVE GestureStep
    BY <1>1 DEF Push
  <1>2. ASSUME NEW i \in Ids, NEW t \in Surfaces \cup {Foreign}, NEW p \in Positions,
               Down(i, t, p)
        PROVE  GestureStep
    <2>1. CASE Found(t)
      <3>1. news' = {Touched("started", i, t, p)}
        BY <1>2, <2>1 DEF Down, Push
      <3>2. i \notin DOMAIN told
        BY <1>2 DEF Down, IInv, GestureInv
      <3> QED BY <3>1, <3>2 DEF Touched
    <2>2. CASE ~Found(t)
      BY <1>1, <1>2, <2>2 DEF Down
    <2> QED BY <2>1, <2>2
  <1>3. ASSUME NEW i \in Ids, NEW p \in Positions, Motion(i, p)
        PROVE  GestureStep
    <2>1. CASE i \in DOMAIN surfaces
      <3>1. news' = {Touched("moved", i, surfaces[i], p)}
        BY <1>3, <2>1 DEF Motion, Push
      <3>2. i \in DOMAIN told /\ told[i].surface = surfaces[i]
        BY <2>1 DEF IInv, GestureInv
      <3> QED BY <3>1, <3>2 DEF Touched
    <2>2. CASE i \notin DOMAIN surfaces
      BY <1>1, <1>3, <2>2 DEF Motion
    <2> QED BY <2>1, <2>2
  <1>4. ASSUME NEW ph \in {"ended", "cancelled"}, NEW I \in SUBSET DOMAIN surfaces,
               Push({Touched(ph, i, surfaces[i], positions[i]) : i \in I})
        PROVE  GestureStep
    <2>1. news' = {Touched(ph, i, surfaces[i], positions[i]) : i \in I}
      BY <1>4 DEF Push
    <2>2. \A i \in I : /\ i \in DOMAIN told /\ told[i].surface = surfaces[i]
                       /\ told[i].position = positions[i]
      BY DEF IInv, GestureInv
    <2> QED BY <2>1, <2>2 DEF Touched
  <1>5. ASSUME NEW i \in Ids, Up(i)
        PROVE  GestureStep
    <2>1. CASE i \in DOMAIN surfaces
      <3>1. {Touched("ended", j, surfaces[j], positions[j]) : j \in {i}}
              = {Touched("ended", i, surfaces[i], positions[i])}
        OBVIOUS
      <3>2. Push({Touched("ended", j, surfaces[j], positions[j]) : j \in {i}})
        BY <1>5, <2>1, <3>1 DEF Up
      <3> QED BY <1>4, <2>1, <3>2
    <2>2. CASE i \notin DOMAIN surfaces
      BY <1>1, <1>5, <2>2 DEF Up
    <2> QED BY <2>1, <2>2
  <1>6. ASSUME Cancel PROVE GestureStep
    BY <1>4, <1>6 DEF Cancel, Active
  <1>7. CASE TouchStep
    BY <1>1, <1>2, <1>3, <1>5, <1>6, <1>7
       DEF TouchStep, Next, Plugged, Unplugged, DestroySurface
  <1>8. CASE \/ \E ours \in BOOLEAN : OtherInput(ours)
             \/ \E s \in Toplevels : RequestActivation(s) \/ SetActivationToken(s)
             \/ \E t \in Tokens : Done(t)
    BY <1>1, <1>8 DEF OtherInput, RequestActivation, SetActivationToken, Done, NoInput
  <1> QED BY <1>7, <1>8 DEF NextAll, allVars

\* The consumer is told of whole gestures, whatever surfaces come and go under
\* them (wl_touch.down, motion, up, cancel).
THEOREM WholeGestures == SpecAll => GesturesWhole
  <1>1. IInv /\ [NextAll]_allVars => GestureStep \/ UNCHANGED vars
    BY GestureSteps
  <1> QED BY Invariance, <1>1, PTL DEF SpecAll, GesturesWhole, GestureStep

\* What a step may do about activation.
ActivationStep ==
  LET answered == DOMAIN granted \ DOMAIN granted'
  IN /\ \A t \in answered :
          outcome' = IF granted[t].surface \in live
                     THEN Activate(t, granted[t].surface) ELSE Quiet
     /\ outcome'.did = "activated" =>
          outcome'.token \in answered \cup {Handed}

InputStep ==
  /\ outcome'.did = "requested" =>
       granted'[outcome'.token].serial \in since \ {0}
  /\ outcome'.did = "NoInputSerial" => 0 \in since

LEMMA ActivationSteps ==
  ASSUME IInv, [NextAll]_allVars
  PROVE  (ActivationStep /\ InputStep) \/ UNCHANGED allVars
  <1> USE DEF ActivationStep, InputStep
  <1>1. CASE TouchStep \/ (\E ours \in BOOLEAN : OtherInput(ours))
    BY <1>1 DEF TouchStep, OtherInput, activation, Quiet
  <1>2. ASSUME NEW s \in Toplevels, RequestActivation(s)
        PROVE  ActivationStep /\ InputStep
    <2>1. ASSUME NEW why \in {"NoInputSerial", "Unsupported"}, outcome' = Err(why),
                 why = "NoInputSerial" => last_input_serial = 0, UNCHANGED granted
          PROVE  ActivationStep /\ InputStep
      BY <2>1 DEF Err, IInv, SerialInv
    <2>2. ASSUME NEW t \in Tokens \ DOMAIN granted, outcome' = Requested(t),
                 last_input_serial # 0,
                 granted' = Insert(granted, t, [surface |-> s, serial |-> last_input_serial])
          PROVE  ActivationStep /\ InputStep
      <3>1. outcome'.did = "requested" /\ outcome'.token = t
        BY <2>2 DEF Requested
      <3>2. DOMAIN granted \ DOMAIN granted' = {}
        BY <2>2 DEF Insert
      <3>3. granted'[t].serial = last_input_serial
        BY <2>2 DEF Insert
      <3>4. last_input_serial \in since \ {0}
        BY <2>2 DEF IInv, SerialInv
      <3> QED BY <3>1, <3>2, <3>3, <3>4
    <2> QED BY <1>2, <2>1, <2>2 DEF RequestActivation
  <1>3. ASSUME NEW t \in Tokens, Done(t)
        PROVE  ActivationStep /\ InputStep
    <2>1. DOMAIN granted \ DOMAIN granted' = {t}
      BY <1>3 DEF Done, Without, Restrict
    <2>2. outcome' = Sent(t, granted[t].surface)
      BY <1>3 DEF Done, IInv, TokenInv
    <2> QED BY <2>1, <2>2 DEF Sent, Activate, Quiet
  <1>4. ASSUME NEW s \in Toplevels, SetActivationToken(s)
        PROVE  ActivationStep /\ InputStep
    BY <1>4 DEF SetActivationToken, activation, Activate, Err
  <1> QED BY <1>1, <1>2, <1>3, <1>4 DEF NextAll

\* A token activates the surface it was asked for or, that being dropped, none
\* (the done of xdg_activation_token_v1).
THEOREM RightSurface == SpecAll => ActivatesRequester
  <1>1. IInv /\ [NextAll]_allVars => ActivationStep \/ UNCHANGED allVars
    BY ActivationSteps
  <1> QED BY Invariance, <1>1, PTL DEF SpecAll, ActivatesRequester, ActivationStep

\* A token is asked for with a serial no older than that of the newest press on
\* a surface of ours, of any of the three devices, and after one it is never
\* refused for want of a serial (State::last_input_serial).
THEOREM NewestInput == SpecAll => NewestInputServes
  <1>1. IInv /\ [NextAll]_allVars => InputStep \/ UNCHANGED allVars
    BY ActivationSteps
  <1> QED BY Invariance, <1>1, PTL DEF SpecAll, NewestInputServes, InputStep
=============================================================================
