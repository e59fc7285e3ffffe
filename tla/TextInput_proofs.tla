------------------------- MODULE TextInput_proofs -------------------------
(***************************************************************************)
(* A done hands over the batch it closes, for any number of events in      *)
(* flight, and what a call of Ime sets is applied, for any number of       *)
(* requests and of calls at once.                                          *)
(***************************************************************************)
EXTENDS TextInput, TLAPS

EditKinds == {"delete", "commit", "preedit"}
Places == Surfaces \cup {Foreign, Nowhere}

Events ==
  [event : {"enter"}, surface : Surfaces \cup {Foreign}] \cup [event : {"leave"}]
    \cup [event : {"delete"}, value : Deletes] \cup [event : {"commit"}, value : Commits]
    \cup [event : {"preedit"}, value : Preedits]
    \cup [event : {"done"}, batch : Batches, surface : Places]

Requests ==
  [request : {"enable", "disable", "other", "commit"}]
    \cup [request : {"content"}, purpose : Purposes \cup {Nothing}, hint : Hints \cup {Nothing}]

\* What is pending after an event, and where the text input is.
AfterEvent(b, e) ==
  IF e.event = "done" THEN NoEdits
  ELSE IF e.event \in EditKinds THEN [b EXCEPT ![e.event] = e.value] ELSE b

PlaceAfter(s, e) ==
  IF e.event = "enter" THEN e.surface
  ELSE IF e.event = "leave" THEN Nowhere ELSE s

\* The events in flight lead from what we hold to what the compositor holds:
\* view[n] will be pending, and at[n] the place of the text input, once n of
\* them are dispatched.  A done finds there what it says.
Line(view, at) ==
  /\ view[0] = pending /\ view[Len(wire)] = batch
  /\ at[Len(wire)] = entered
  /\ focused_surface = at[0] \/ (focused_surface = Nowhere /\ at[0] \notin live)
  /\ \A n \in 1..Len(wire) :
       /\ view[n] = AfterEvent(view[n - 1], wire[n])
       /\ at[n] = PlaceAfter(at[n - 1], wire[n])
       /\ wire[n].event = "done" =>
            wire[n].batch = view[n - 1] /\ wire[n].surface = at[n - 1]

LineInv ==
  \E view \in [0..Len(wire) -> Batches], at \in [0..Len(wire) -> Places] : Line(view, at)

\* A setting in flight is followed by a commit, or one is still to come.
Followed ==
  \A i \in 1..Len(requests) :
    requests[i] # Commit =>
      calling > 0 \/ \E j \in i..Len(requests) : requests[j] = Commit

\* If no calls overlapped, by its own: commits and settings take turns.
Paired ==
  ~overlap =>
    /\ calling <= 1
    /\ calling = 1 => requests = <<>> \/ requests[Len(requests)] # Commit
    /\ \A i \in 1..Len(requests) :
         requests[i] # Commit =>
           IF i = Len(requests) THEN calling = 1 ELSE requests[i + 1] = Commit

\* A text input that is nowhere is off.
CallInv ==
  /\ Followed
  /\ Paired
  /\ SettingsApplied
  /\ entered = Nowhere => buffered = Off /\ applied = Off

WireInv == wire \in Seq(Events) /\ requests \in Seq(Requests)

IInv == TypeOK /\ WireInv /\ CallInv /\ LineInv
-----------------------------------------------------------------------------
(* The events in flight.                                                   *)

\* An edit keeps a batch a batch.
LEMMA EditTyped ==
  ASSUME NEW b \in Batches,
         NEW e \in [event : {"delete"}, value : Deletes] \cup
                   [event : {"commit"}, value : Commits] \cup
                   [event : {"preedit"}, value : Preedits]
  PROVE  e.event \in EditKinds /\ [b EXCEPT ![e.event] = e.value] \in Batches
  <1>1. CASE e \in [event : {"delete"}, value : Deletes]
    <2>1. e.event = "delete" /\ e.value \in Deletes BY <1>1
    <2>2. [b EXCEPT !["delete"] = e.value] \in Batches BY <2>1 DEF Batches
    <2> QED BY <2>1, <2>2 DEF EditKinds
  <1>2. CASE e \in [event : {"commit"}, value : Commits]
    <2>1. e.event = "commit" /\ e.value \in Commits BY <1>2
    <2>2. [b EXCEPT !["commit"] = e.value] \in Batches BY <2>1 DEF Batches
    <2> QED BY <2>1, <2>2 DEF EditKinds
  <1>3. CASE e \in [event : {"preedit"}, value : Preedits]
    <2>1. e.event = "preedit" /\ e.value \in Preedits BY <1>3
    <2>2. [b EXCEPT !["preedit"] = e.value] \in Batches BY <2>1 DEF Batches
    <2> QED BY <2>1, <2>2 DEF EditKinds
  <1> QED BY <1>1, <1>2, <1>3

LEMMA EventTyped ==
  ASSUME NEW b \in Batches, NEW s \in Places, NEW e \in Events
  PROVE  /\ e.event \in EditKinds \cup {"enter", "leave", "done"}
         /\ AfterEvent(b, e) \in Batches
         /\ PlaceAfter(s, e) \in Places
  <1>1. CASE e \in [event : {"delete"}, value : Deletes] \cup
                   [event : {"commit"}, value : Commits] \cup
                   [event : {"preedit"}, value : Preedits]
    <2>1. e.event \in EditKinds /\ [b EXCEPT ![e.event] = e.value] \in Batches
      BY <1>1, EditTyped
    <2>2. AfterEvent(b, e) = [b EXCEPT ![e.event] = e.value]
      BY <2>1 DEF AfterEvent, EditKinds
    <2> QED BY <2>1, <2>2 DEF PlaceAfter, EditKinds
  <1>2. CASE e \in [event : {"enter"}, surface : Surfaces \cup {Foreign}]
    BY <1>2 DEF AfterEvent, PlaceAfter, EditKinds, Places
  <1>3. CASE e \in [event : {"leave"}]
    BY <1>3 DEF AfterEvent, PlaceAfter, EditKinds, Places
  <1>4. CASE e \in [event : {"done"}, batch : Batches, surface : Places]
    <2>1. NoEdits \in Batches BY DEF NoEdits, Batches
    <2> QED BY <1>4, <2>1 DEF AfterEvent, PlaceAfter
  <1> QED BY <1>1, <1>2, <1>3, <1>4 DEF Events

\* The compositor sends one event more.
LEMMA Sending ==
  ASSUME IInv, NEW e \in Events, wire' = Append(wire, e),
         UNCHANGED <<client, live>>,
         batch' = AfterEvent(batch, e), entered' = PlaceAfter(entered, e),
         e.event = "done" => e.batch = batch /\ e.surface = entered
  PROVE  LineInv'
  <1>1. PICK view \in [0..Len(wire) -> Batches], at \in [0..Len(wire) -> Places] :
             Line(view, at)
    BY DEF IInv, LineInv
  <1> DEFINE m == Len(wire)
             view2 == [n \in 0..m + 1 |-> IF n = m + 1 THEN batch' ELSE view[n]]
             at2 == [n \in 0..m + 1 |-> IF n = m + 1 THEN entered' ELSE at[n]]
  <1>2. /\ m \in Nat /\ Len(wire') = m + 1 /\ wire'[m + 1] = e
        /\ \A n \in 1..m : wire'[n] = wire[n]
    BY DEF IInv, WireInv
  <1>3. batch' \in Batches /\ entered' \in Places
    BY EventTyped DEF IInv, TypeOK, Places
  <1>4. view2 \in [0..m + 1 -> Batches] /\ at2 \in [0..m + 1 -> Places]
    BY <1>2, <1>3
  <1>5. /\ view2[0] = view[0] /\ view2[m + 1] = batch'
        /\ at2[0] = at[0] /\ at2[m + 1] = entered'
        /\ \A n \in 0..m : view2[n] = view[n] /\ at2[n] = at[n]
    BY <1>2
  <1>6. ASSUME NEW n \in 1..m + 1
        PROVE  /\ view2[n] = AfterEvent(view2[n - 1], wire'[n])
               /\ at2[n] = PlaceAfter(at2[n - 1], wire'[n])
               /\ wire'[n].event = "done" =>
                    wire'[n].batch = view2[n - 1] /\ wire'[n].surface = at2[n - 1]
    <2>1. CASE n = m + 1
      <3>1. n - 1 = m BY <1>2, <2>1
      <3>2. view2[n - 1] = batch /\ at2[n - 1] = entered
        BY <1>1, <1>2, <1>5, <3>1 DEF Line
      <3> HIDE DEF view2, at2
      <3> QED BY <1>2, <1>5, <2>1, <3>2
    <2>2. CASE n \in 1..m
      <3>1. n - 1 \in 0..m /\ n \in 0..m BY <1>2, <2>2
      <3>2. view2[n - 1] = view[n - 1] /\ at2[n - 1] = at[n - 1]
            /\ view2[n] = view[n] /\ at2[n] = at[n]
        BY <1>5, <3>1
      <3> HIDE DEF view2, at2
      <3> QED BY <1>1, <1>2, <2>2, <3>2 DEF Line
    <2> QED BY <1>2, <2>1, <2>2
  <1>7. view2[0] = pending' /\ (focused_surface' = at2[0]
                                 \/ (focused_surface' = Nowhere /\ at2[0] \notin live'))
    BY <1>1, <1>5 DEF Line, client
  <1> HIDE DEF view2, at2
  <1>8. PICK v \in [0..Len(wire') -> Batches], a \in [0..Len(wire') -> Places] :
             v = view2 /\ a = at2
    BY <1>2, <1>4
  <1>9. Line(v, a)'
    BY <1>2, <1>5, <1>6, <1>7, <1>8 DEF Line
  <1> QED BY <1>9 DEF LineInv

\* We dispatch the first of them.
LEMMA Receiving ==
  ASSUME IInv, wire # <<>>, wire' = Tail(wire), UNCHANGED <<compositor, live>>,
         pending' = AfterEvent(pending, Head(wire)),
         focused_surface' = IF Head(wire).event = "enter" THEN Found(Head(wire).surface)
                            ELSE IF Head(wire).event = "leave" THEN Nowhere
                            ELSE focused_surface
  PROVE  LineInv'
  <1>1. PICK view \in [0..Len(wire) -> Batches], at \in [0..Len(wire) -> Places] :
             Line(view, at)
    BY DEF IInv, LineInv
  <1> DEFINE m == Len(wire)
             view2 == [n \in 0..m - 1 |-> view[n + 1]]
             at2 == [n \in 0..m - 1 |-> at[n + 1]]
  <1>2. /\ m \in Nat \ {0} /\ Len(wire') = m - 1 /\ Head(wire) = wire[1]
        /\ \A n \in 1..m - 1 : wire'[n] = wire[n + 1]
    BY DEF IInv, WireInv
  <1>3. view2 \in [0..m - 1 -> Batches] /\ at2 \in [0..m - 1 -> Places]
    BY <1>2
  <1>4. \A n \in 0..m - 1 : view2[n] = view[n + 1] /\ at2[n] = at[n + 1]
    OBVIOUS
  <1>5. view2[m - 1] = view[m] /\ at2[m - 1] = at[m]
        /\ view2[0] = view[1] /\ at2[0] = at[1]
    BY <1>2, <1>4
  <1>6. ASSUME NEW n \in 1..m - 1
        PROVE  /\ view2[n] = AfterEvent(view2[n - 1], wire'[n])
               /\ at2[n] = PlaceAfter(at2[n - 1], wire'[n])
               /\ wire'[n].event = "done" =>
                    wire'[n].batch = view2[n - 1] /\ wire'[n].surface = at2[n - 1]
    <2>1. n - 1 \in 0..m - 1 /\ n \in 0..m - 1 /\ n + 1 \in 1..m /\ (n + 1) - 1 = n
          /\ (n - 1) + 1 = n
      BY <1>2
    <2>2. view2[n - 1] = view[n] /\ at2[n - 1] = at[n]
          /\ view2[n] = view[n + 1] /\ at2[n] = at[n + 1]
      BY <1>4, <2>1
    <2>3. wire'[n] = wire[n + 1]
      BY <1>2
    <2>4. /\ view[n + 1] = AfterEvent(view[n], wire[n + 1])
          /\ at[n + 1] = PlaceAfter(at[n], wire[n + 1])
          /\ wire[n + 1].event = "done" =>
               wire[n + 1].batch = view[n] /\ wire[n + 1].surface = at[n]
      BY <1>1, <2>1 DEF Line
    <2> HIDE DEF view2, at2
    <2> QED BY <2>2, <2>3, <2>4
  <1>7. /\ view[1] = AfterEvent(view[0], wire[1])
        /\ at[1] = PlaceAfter(at[0], wire[1])
    BY <1>1, <1>2 DEF Line
  <1>8. view2[0] = pending'
    BY <1>1, <1>2, <1>5, <1>7 DEF Line
  <1>9. focused_surface' = at2[0] \/ (focused_surface' = Nowhere /\ at2[0] \notin live')
    BY <1>1, <1>2, <1>5, <1>7 DEF Line, PlaceAfter, Found
  <1>10. view2[m - 1] = batch' /\ at2[m - 1] = entered'
    BY <1>1, <1>5 DEF Line, compositor
  <1> HIDE DEF view2, at2
  <1>11. PICK v \in [0..Len(wire') -> Batches], a \in [0..Len(wire') -> Places] :
             v = view2 /\ a = at2
    BY <1>2, <1>3
  <1>12. Line(v, a)'
    BY <1>2, <1>6, <1>8, <1>9, <1>10, <1>11 DEF Line
  <1> QED BY <1>12 DEF LineInv

\* A surface is destroyed, or nothing happens to the events.
LEMMA Destroying ==
  ASSUME IInv, UNCHANGED <<wire, client, entered, batch>>, live' \subseteq live
  PROVE  LineInv'
  <1>1. PICK view \in [0..Len(wire) -> Batches], at \in [0..Len(wire) -> Places] :
             Line(view, at)
    BY DEF IInv, LineInv
  <1>2. Line(view, at)'
    BY <1>1 DEF Line, client
  <1> QED BY <1>2 DEF LineInv
-----------------------------------------------------------------------------
(* The steps.                                                              *)

LEMMA InitInv == Init => IInv
  <1> SUFFICES ASSUME Init PROVE IInv
    OBVIOUS
  <1>1. NoEdits \in Batches /\ Off \in Settings
    BY DEF NoEdits, Batches, Off, Settings
  <1>2. TypeOK
    <2>1. 0 \in 0..MaxCalls
      BY TextInputAssumption
    <2>2. calling \in 0..MaxCalls /\ overlap \in BOOLEAN
      BY <2>1 DEF Init
    <2>3. Len(wire) <= MaxWire /\ Len(requests) <= MaxRequests
      BY TextInputAssumption DEF Init
    <2> QED BY <1>1, <2>2, <2>3 DEF Init, TypeOK
  <1>3. WireInv /\ CallInv
    BY DEF Init, WireInv, CallInv, Followed, Paired, SettingsApplied
  <1>4. PICK v \in [0..Len(wire) -> Batches], a \in [0..Len(wire) -> Places] :
             v = [n \in 0..0 |-> NoEdits] /\ a = [n \in 0..0 |-> Nowhere]
    BY <1>1 DEF Init, Places
  <1>5. Line(v, a)
    BY <1>4 DEF Init, Line
  <1> QED BY <1>2, <1>3, <1>4, <1>5 DEF IInv, LineInv

\* Steps that send no request and serve none.
LEMMA CallsKept ==
  ASSUME IInv, UNCHANGED <<requests, calls>>,
         \/ UNCHANGED <<buffered, applied>> /\ entered' # Nowhere
         \/ UNCHANGED <<buffered, applied, entered>>
         \/ buffered' = Off /\ applied' = Off
  PROVE  CallInv'
  <1>1. requests' = requests /\ calling' = calling /\ overlap' = overlap
    BY DEF calls
  <1>2. Followed' /\ Paired'
    BY <1>1 DEF IInv, CallInv, Followed, Paired
  <1>3. SettingsApplied'
    BY <1>1 DEF IInv, CallInv, SettingsApplied
  <1> QED BY <1>2, <1>3 DEF IInv, CallInv

\* One event more is sent, of its type.
LEMMA SendKeeps ==
  ASSUME IInv, NEW e \in Events, Send(e),
         batch' = AfterEvent(batch, e), entered' = PlaceAfter(entered, e),
         e.event = "done" => e.batch = batch /\ e.surface = entered,
         \/ UNCHANGED <<buffered, applied>> /\ entered' # Nowhere
         \/ UNCHANGED <<buffered, applied, entered>>
         \/ buffered' = Off /\ applied' = Off
  PROVE  IInv'
  <1>1. /\ wire' = Append(wire, e) /\ Len(wire) < MaxWire
        /\ UNCHANGED <<client, requests, calls, live>>
    BY DEF Send
  <1>2. LineInv'
    BY <1>1, Sending
  <1>3. WireInv' /\ Len(wire') <= MaxWire
    BY <1>1, TextInputAssumption DEF IInv, WireInv
  <1>4. Off \in Settings
    BY DEF Off, Settings
  <1>5. batch' \in Batches /\ entered' \in Surfaces \cup {Foreign, Nowhere}
    BY EventTyped DEF IInv, TypeOK, Places
  <1>6. TypeOK'
    BY <1>1, <1>3, <1>4, <1>5 DEF IInv, TypeOK, client, calls
  <1>7. CallInv'
    BY <1>1, CallsKept
  <1> QED BY <1>2, <1>3, <1>6, <1>7 DEF IInv

LEMMA CompositorKeeps ==
  ASSUME IInv,
         \/ \E t \in Surfaces \cup {Foreign} : SendEnter(t)
         \/ SendLeave \/ SendDone
         \/ \E v \in Deletes : SendEdit("delete", v)
         \/ \E v \in Commits : SendEdit("commit", v)
         \/ \E v \in Preedits : SendEdit("preedit", v)
  PROVE  IInv'
  <1>1. ASSUME NEW t \in Surfaces \cup {Foreign}, SendEnter(t) PROVE IInv'
    <2> DEFINE e == [event |-> "enter", surface |-> t]
    <2>1. e \in Events BY DEF Events
    <2>2. AfterEvent(batch, e) = batch /\ PlaceAfter(entered, e) = t
      BY DEF AfterEvent, PlaceAfter, EditKinds
    <2>3. t # Nowhere BY TextInputAssumption DEF Foreign, Nowhere
    <2>4. Send(e) /\ batch' = batch /\ entered' = t /\ UNCHANGED <<buffered, applied>>
      BY <1>1 DEF SendEnter
    <2>5. e.event # "done" OBVIOUS
    <2> HIDE DEF e
    <2> QED BY <2>1, <2>2, <2>3, <2>4, <2>5, SendKeeps
  <1>2. ASSUME SendLeave PROVE IInv'
    <2> DEFINE e == [event |-> "leave"]
    <2>1. e \in Events BY DEF Events
    <2>2. AfterEvent(batch, e) = batch /\ PlaceAfter(entered, e) = Nowhere
      BY DEF AfterEvent, PlaceAfter, EditKinds
    <2>3. Send(e) /\ batch' = batch /\ entered' = Nowhere /\ buffered' = Off /\ applied' = Off
      BY <1>2 DEF SendLeave
    <2>4. e.event # "done" OBVIOUS
    <2> HIDE DEF e
    <2> QED BY <2>1, <2>2, <2>3, <2>4, SendKeeps
  <1>3. ASSUME SendDone PROVE IInv'
    <2> DEFINE e == [event |-> "done", batch |-> batch, surface |-> entered]
    <2>1. e \in Events BY DEF Events, IInv, TypeOK, Places
    <2>2. AfterEvent(batch, e) = NoEdits /\ PlaceAfter(entered, e) = entered
      BY DEF AfterEvent, PlaceAfter
    <2>3. Send(e) /\ batch' = NoEdits /\ UNCHANGED <<entered, buffered, applied>>
      BY <1>3 DEF SendDone
    <2>4. e.batch = batch /\ e.surface = entered OBVIOUS
    <2> HIDE DEF e
    <2> QED BY <2>1, <2>2, <2>3, <2>4, SendKeeps
  <1>4. ASSUME NEW k \in EditKinds, NEW v, SendEdit(k, v),
               [event |-> k, value |-> v] \in Events
        PROVE  IInv'
    <2> DEFINE e == [event |-> k, value |-> v]
    <2>1. AfterEvent(batch, e) = [batch EXCEPT ![k] = v] /\ PlaceAfter(entered, e) = entered
      BY DEF AfterEvent, PlaceAfter, EditKinds
    <2>2. Send(e) /\ batch' = [batch EXCEPT ![k] = v] /\ UNCHANGED <<entered, buffered, applied>>
      BY <1>4 DEF SendEdit
    <2>3. e.event # "done" BY DEF EditKinds
    <2>4. e \in Events BY <1>4
    <2> HIDE DEF e
    <2> QED BY <2>1, <2>2, <2>3, <2>4, SendKeeps
  <1>5. ASSUME NEW v \in Deletes, SendEdit("delete", v) PROVE IInv'
    BY <1>4, <1>5 DEF Events, EditKinds
  <1>6. ASSUME NEW v \in Commits, SendEdit("commit", v) PROVE IInv'
    BY <1>4, <1>6 DEF Events, EditKinds
  <1>7. ASSUME NEW v \in Preedits, SendEdit("preedit", v) PROVE IInv'
    BY <1>4, <1>7 DEF Events, EditKinds
  <1> QED BY <1>1, <1>2, <1>3, <1>5, <1>6, <1>7

\* The dispatcher takes the first event.
LEMMA DispatchKeeps ==
  ASSUME IInv,
         Enter \/ Leave \/ Done \/ (\E k \in EditKinds : ReceiveEdit(k))
  PROVE  IInv'
  <1> DEFINE e == Head(wire)
  <1>1. /\ wire # <<>> /\ wire' = Tail(wire) /\ UNCHANGED <<requests, calls, compositor, live>>
    BY DEF Enter, Leave, Done, ReceiveEdit, Receive
  <1>2. e \in Events /\ wire' \in Seq(Events) /\ Len(wire') <= MaxWire
    BY <1>1, TextInputAssumption DEF IInv, WireInv, TypeOK
  <1>3. /\ pending' = AfterEvent(pending, e)
        /\ focused_surface' = IF e.event = "enter" THEN Found(e.surface)
                              ELSE IF e.event = "leave" THEN Nowhere ELSE focused_surface
    <2>1. CASE Enter
      BY <2>1 DEF Enter, Receive, AfterEvent, EditKinds
    <2>2. CASE Leave
      BY <2>2 DEF Leave, Receive, AfterEvent, EditKinds
    <2>3. CASE Done
      BY <2>3 DEF Done, Receive, AfterEvent, Taken
    <2>4. ASSUME NEW k \in EditKinds, ReceiveEdit(k)
          PROVE  /\ pending' = AfterEvent(pending, e)
                 /\ focused_surface' = IF e.event = "enter" THEN Found(e.surface)
                                       ELSE IF e.event = "leave" THEN Nowhere ELSE focused_surface
      BY <2>4 DEF ReceiveEdit, Receive, KeepEdit, AfterEvent, EditKinds
    <2> QED BY <2>1, <2>2, <2>3, <2>4
  <1>4. LineInv'
    BY <1>1, <1>3, Receiving
  <1>5. pending' \in Batches /\ focused_surface' \in Surfaces \cup {Nowhere}
    <2>1. pending' \in Batches
      BY <1>2, <1>3, EventTyped DEF IInv, TypeOK, Places
    <2>2. Found(e.surface) \in Surfaces \cup {Nowhere}
      BY DEF Found, IInv, TypeOK
    <2> QED BY <1>3, <2>1, <2>2 DEF IInv, TypeOK
  <1>6. TypeOK' /\ WireInv'
    BY <1>1, <1>2, <1>5 DEF IInv, TypeOK, WireInv, compositor, calls
  <1>7. CallInv'
    BY <1>1, CallsKept DEF compositor
  <1> QED BY <1>4, <1>6, <1>7 DEF IInv

\* One request more, first or second of a call.
LEMMA RequestKeeps ==
  ASSUME IInv, NEW r \in Requests, Request(r)
  PROVE  /\ LineInv' /\ WireInv' /\ Len(requests') <= MaxRequests
         /\ UNCHANGED <<focused_surface, pending, wire, entered, buffered, applied, batch, live>>
         /\ Len(requests) \in Nat /\ Len(requests') = Len(requests) + 1
         /\ requests'[Len(requests) + 1] = r
         /\ \A i \in 1..Len(requests) : requests'[i] = requests[i]
         /\ Head(requests') = IF requests = <<>> THEN r ELSE Head(requests)
         /\ requests' # <<>>
  <1>1. /\ requests' = Append(requests, r) /\ Len(requests) + 1 <= MaxRequests
        /\ UNCHANGED <<client, wire, compositor, live>>
    BY TextInputAssumption DEF Request, IInv, WireInv
  <1>2. /\ requests \in Seq(Requests) /\ requests' \in Seq(Requests)
        /\ Len(requests') = Len(requests) + 1 /\ Len(requests) \in Nat
        /\ requests'[Len(requests) + 1] = r
        /\ \A i \in 1..Len(requests) : requests'[i] = requests[i]
    BY <1>1 DEF IInv, WireInv
  <1>3. LineInv'
    BY <1>1, Destroying DEF compositor
  <1>4. Head(requests') = (IF requests = <<>> THEN r ELSE Head(requests)) /\ requests' # <<>>
    <2>1. Head(requests') = requests'[1] /\ requests' # <<>>
      BY <1>2
    <2>2. CASE requests = <<>>
      BY <1>2, <2>1, <2>2
    <2>3. CASE requests # <<>>
      <3>1. 1 \in 1..Len(requests) /\ Head(requests) = requests[1]
        BY <1>2, <2>3
      <3> QED BY <1>2, <2>1, <2>3, <3>1
    <2> QED BY <2>2, <2>3
  <1> QED BY <1>1, <1>2, <1>3, <1>4 DEF client, compositor, IInv, WireInv

\* A call sends its setting.
LEMMA SetKeeps ==
  ASSUME IInv, NEW r \in Requests, r # Commit, Set(r)
  PROVE  IInv'
  <1>1. /\ calling < MaxCalls /\ calling' = calling + 1 /\ Request(r)
        /\ overlap' = (overlap \/ calling > 0) /\ calling \in Nat
        /\ overlap \in BOOLEAN /\ MaxCalls \in Nat
    BY TextInputAssumption DEF Set, IInv, TypeOK
  <1> DEFINE m == Len(requests)
  <1>2. /\ LineInv' /\ WireInv' /\ Len(requests') <= MaxRequests
        /\ UNCHANGED <<focused_surface, pending, wire, entered, buffered, applied, batch, live>>
        /\ m \in Nat /\ Len(requests') = m + 1 /\ requests'[m + 1] = r
        /\ \A i \in 1..m : requests'[i] = requests[i]
        /\ Head(requests') = (IF requests = <<>> THEN r ELSE Head(requests))
        /\ requests' # <<>>
    BY <1>1, RequestKeeps
  <1> HIDE DEF m
  <1>3. TypeOK'
    BY <1>1, <1>2 DEF IInv, TypeOK
  <1>4. calling' > 0
    BY <1>1
  <1>5. Followed'
    BY <1>4 DEF Followed
  <1>6. ~overlap' => calling = 0 /\ ~overlap /\ calling' = 1
    <2>1. calling > 0 \/ (calling = 0 /\ calling' = 1)
      BY <1>1
    <2> QED BY <1>1, <2>1, Zenon
  <1>7. Paired'
    <2> SUFFICES ASSUME ~overlap' PROVE Paired'
      BY DEF Paired
    <2>1. requests'[Len(requests')] # Commit
      BY <1>2
    <2>2. ASSUME NEW i \in 1..Len(requests'), requests'[i] # Commit, i # Len(requests')
          PROVE  requests'[i + 1] = Commit
      <3>1. i \in 1..m /\ requests[i] # Commit
        BY <1>2, <2>2
      <3>2. i # m /\ requests[i + 1] = Commit
        BY <1>6, <3>1 DEF IInv, CallInv, Paired, m
      <3>3. i + 1 \in 1..m
        BY <1>2, <3>1, <3>2
      <3> QED BY <1>2, <3>2, <3>3
    <2> QED BY <1>6, <2>1, <2>2 DEF Paired
  <1>8. SettingsApplied'
    <2>1. ASSUME ~overlap' PROVE buffered = applied \/ Head(requests') = Commit
      BY <1>2, <1>6, <2>1 DEF IInv, CallInv, SettingsApplied
    <2> QED BY <1>2, <1>4, <2>1 DEF SettingsApplied
  <1> QED BY <1>2, <1>3, <1>5, <1>7, <1>8 DEF IInv, CallInv

\* A call sends its commit.
LEMMA EndCallKeeps ==
  ASSUME IInv, EndCall
  PROVE  IInv'
  <1>1. /\ calling > 0 /\ calling' = calling - 1 /\ Request(Commit)
        /\ overlap' = overlap /\ calling \in Nat /\ calling <= MaxCalls
        /\ overlap \in BOOLEAN /\ MaxCalls \in Nat
    BY TextInputAssumption DEF EndCall, IInv, TypeOK
  <1> DEFINE m == Len(requests)
  <1>2. /\ LineInv' /\ WireInv' /\ Len(requests') <= MaxRequests
        /\ UNCHANGED <<focused_surface, pending, wire, entered, buffered, applied, batch, live>>
        /\ m \in Nat /\ Len(requests') = m + 1 /\ requests'[m + 1] = Commit
        /\ \A i \in 1..m : requests'[i] = requests[i]
        /\ Head(requests') = (IF requests = <<>> THEN Commit ELSE Head(requests))
        /\ requests' # <<>>
    <2>1. Commit \in Requests
      BY DEF Commit, Requests
    <2> QED BY <1>1, <2>1, RequestKeeps
  <1> HIDE DEF m
  <1>3. TypeOK'
    BY <1>1, <1>2 DEF IInv, TypeOK
  <1>4. m + 1 \in 1..Len(requests') /\ \A i \in 1..Len(requests') : m + 1 \in i..Len(requests')
    BY <1>2
  <1>5. Followed'
    BY <1>2, <1>4 DEF Followed
  <1>6. Paired'
    <2> SUFFICES ASSUME ~overlap' PROVE Paired'
      BY DEF Paired
    <2>1. calling = 1 /\ calling' = 0
      BY <1>1 DEF IInv, CallInv, Paired
    <2>2. ASSUME NEW i \in 1..Len(requests'), requests'[i] # Commit
          PROVE  i # Len(requests') /\ requests'[i + 1] = Commit
      <3>1. i \in 1..m /\ requests[i] # Commit
        BY <1>2, <2>2
      <3>2. CASE i = m
        BY <1>2, <3>1, <3>2
      <3>3. CASE i # m
        <4>1. requests[i + 1] = Commit /\ i + 1 \in 1..m
          BY <1>1, <1>2, <3>1, <3>3 DEF IInv, CallInv, Paired, m
        <4> QED BY <1>2, <3>1, <4>1
      <3> QED BY <3>2, <3>3
    <2> QED BY <2>1, <2>2 DEF Paired
  <1>7. SettingsApplied'
    <2>1. \E i \in 1..Len(requests') : requests'[i] = Commit
      BY <1>2, <1>4
    <2>2. buffered = applied \/ overlap \/ Head(requests') = Commit
      BY <1>2 DEF IInv, CallInv, SettingsApplied
    <2> QED BY <1>1, <1>2, <2>1, <2>2 DEF SettingsApplied
  <1> QED BY <1>2, <1>3, <1>5, <1>6, <1>7 DEF IInv, CallInv

LEMMA ImeKeeps ==
  ASSUME IInv,
         \/ Enable \/ Disable \/ SetOther \/ EndCall
         \/ \E p \in Purposes, h \in Hints : SetPurpose(p) \/ SetHint(h) \/ SetContentType(p, h)
  PROVE  IInv'
  <1>1. CASE Enable \/ Disable \/ SetOther
    BY <1>1, SetKeeps DEF Enable, Disable, SetOther, Requests, Commit
  <1>2. ASSUME NEW p \in Purposes \cup {Nothing}, NEW h \in Hints \cup {Nothing}, Content(p, h)
        PROVE  IInv'
    <2>1. [request |-> "content", purpose |-> p, hint |-> h] \in Requests
      BY DEF Requests
    <2>2. [request |-> "content", purpose |-> p, hint |-> h] # Commit
      BY DEF Commit
    <2> QED BY <1>2, <2>1, <2>2, SetKeeps DEF Content
  <1> QED BY <1>1, <1>2, EndCallKeeps DEF SetPurpose, SetHint, SetContentType

\* The compositor takes the first request.
LEMMA ServeKeeps ==
  ASSUME IInv, ServeRequest
  PROVE  IInv'
  <1> DEFINE r == Head(requests)
  <1>1. /\ requests # <<>> /\ requests' = Tail(requests)
        /\ UNCHANGED <<client, wire, calling, entered, batch, live>>
        /\ overlap' = (overlap /\ (calling > 0 \/ requests' # <<>>))
    BY DEF ServeRequest
  <1>2. /\ r \in Requests /\ r = requests[1] /\ requests' \in Seq(Requests)
        /\ Len(requests') = Len(requests) - 1 /\ Len(requests) \in Nat \ {0}
        /\ \A i \in 1..Len(requests') : requests'[i] = requests[i + 1]
    <2>1. requests \in Seq(Requests) /\ requests # <<>> /\ requests' = Tail(requests)
      BY <1>1 DEF IInv, WireInv
    <2> HIDE DEF r
    <2>2. Len(requests) \in Nat \ {0} /\ requests[1] \in Requests /\ r = requests[1]
      BY <2>1 DEF r
    <2>3. requests' \in Seq(Requests) /\ Len(requests') = Len(requests) - 1
      BY <2>1
    <2>4. \A i \in 1..(Len(requests) - 1) : requests'[i] = requests[i + 1]
      BY <2>1, <2>2
    <2> QED BY <2>2, <2>3, <2>4
  <1>6. calling \in Nat /\ overlap \in BOOLEAN /\ overlap' \in BOOLEAN
    BY <1>1 DEF IInv, TypeOK
  <1>8. r # Commit => calling > 0 \/ \E i \in 1..Len(requests') : requests'[i] = Commit
    <2> SUFFICES ASSUME r # Commit, ~(calling > 0)
                 PROVE  \E i \in 1..Len(requests') : requests'[i] = Commit
      OBVIOUS
    <2>1. PICK j \in 1..Len(requests) : requests[j] = Commit
      BY <1>2 DEF IInv, CallInv, Followed
    <2>2. j - 1 \in 1..Len(requests') /\ requests'[j - 1] = requests[j]
      BY <1>2, <2>1
    <2> QED BY <2>1, <2>2
  <1>9. r # Commit /\ ~overlap =>
          IF requests' = <<>> THEN calling = 1 ELSE Head(requests') = Commit
    <2> SUFFICES ASSUME r # Commit, ~overlap
                 PROVE  IF requests' = <<>> THEN calling = 1 ELSE Head(requests') = Commit
      OBVIOUS
    <2>1. IF 1 = Len(requests) THEN calling = 1 ELSE requests[2] = Commit
      BY <1>2 DEF IInv, CallInv, Paired
    <2>2. CASE Len(requests) = 1
      BY <1>2, <2>1, <2>2
    <2>3. CASE Len(requests) # 1
      <3>1. 1 \in 1..Len(requests') /\ requests'[1] = Commit
        BY <1>2, <2>1, <2>3
      <3> QED BY <1>2, <3>1
    <2> QED BY <2>2, <2>3
  <1>10. Followed'
    <2> SUFFICES ASSUME NEW i \in 1..Len(requests'), requests'[i] # Commit, ~(calling > 0)
                 PROVE  \E j \in i..Len(requests') : requests'[j] = Commit
      BY <1>1 DEF Followed
    <2>1. i + 1 \in 1..Len(requests) /\ requests[i + 1] # Commit
      BY <1>2
    <2>2. PICK j \in i + 1..Len(requests) : requests[j] = Commit
      BY <2>1 DEF IInv, CallInv, Followed
    <2>3. j - 1 \in i..Len(requests') /\ requests'[j - 1] = requests[j]
      BY <1>2, <2>1, <2>2
    <2> QED BY <2>2, <2>3
  <1>11. Paired'
    <2> SUFFICES ASSUME ~overlap' PROVE Paired'
      BY DEF Paired
    <2>1. CASE calling = 0 /\ requests' = <<>>
      <3>1. calling' = 0 /\ Len(requests') = 0
        BY <1>1, <2>1
      <3>2. calling' <= 1 /\ calling' # 1 /\ 1..Len(requests') = {}
        BY <3>1
      <3> QED BY <3>2 DEF Paired
    <2>2. CASE ~overlap
      <3>1. calling' <= 1
        BY <1>1, <2>2 DEF IInv, CallInv, Paired
      <3>2. ASSUME calling' = 1, requests' # <<>> PROVE requests'[Len(requests')] # Commit
        <4>1. requests[Len(requests)] # Commit
          BY <1>1, <2>2, <3>2 DEF IInv, CallInv, Paired
        <4>2. Len(requests') \in 1..Len(requests') /\ Len(requests') + 1 = Len(requests)
          BY <1>2, <3>2
        <4> QED BY <1>2, <4>1, <4>2
      <3>3. ASSUME NEW i \in 1..Len(requests'), requests'[i] # Commit
            PROVE  IF i = Len(requests') THEN calling' = 1 ELSE requests'[i + 1] = Commit
        <4>1. i + 1 \in 1..Len(requests) /\ requests[i + 1] # Commit
          BY <1>2, <3>3
        <4>2. IF i + 1 = Len(requests) THEN calling = 1 ELSE requests[(i + 1) + 1] = Commit
          BY <2>2, <4>1 DEF IInv, CallInv, Paired
        <4>3. CASE i = Len(requests')
          BY <1>1, <1>2, <4>2, <4>3
        <4>4. CASE i # Len(requests')
          <5>1. i + 1 \in 1..Len(requests') /\ i + 1 # Len(requests)
            BY <1>2, <4>4
          <5> QED BY <1>2, <4>2, <4>4, <5>1
        <4> QED BY <4>3, <4>4
      <3> QED BY <3>1, <3>2, <3>3 DEF Paired
    <2>3. calling > 0 \/ calling = 0
      BY <1>6
    <2>4. ~overlap \/ (calling = 0 /\ requests' = <<>>)
      BY <1>1, <2>3, Zenon
    <2> QED BY <2>1, <2>2, <2>4, Zenon
  <1>7. Len(requests') <= MaxRequests
    BY <1>2, TextInputAssumption DEF IInv, TypeOK
  <1>3. LineInv'
    BY <1>1, Destroying
  <1>4. CASE entered = Nowhere
    <2>1. UNCHANGED <<buffered, applied>>
      BY <1>4 DEF ServeRequest
    <2>2. buffered = applied
      BY <1>4 DEF IInv, CallInv
    <2>3. TypeOK' /\ WireInv'
      <3>1. TypeOK'
        BY <1>1, <1>6, <1>7, <2>1 DEF IInv, TypeOK, client
      <3> QED BY <1>1, <1>2, <3>1 DEF IInv, WireInv
    <2>4. CallInv'
      BY <1>1, <1>10, <1>11, <2>1, <2>2 DEF IInv, CallInv, SettingsApplied
    <2> QED BY <1>3, <2>3, <2>4 DEF IInv
  <1>5. CASE entered # Nowhere
    <2>1. /\ buffered' = CASE r.request = "enable" -> [Off EXCEPT !.enabled = TRUE]
                    [] r.request = "disable" -> [buffered EXCEPT !.enabled = FALSE]
                    [] r.request = "content" ->
                         [buffered EXCEPT !.purpose = r.purpose, !.hint = r.hint]
                    [] OTHER -> buffered
          /\ applied' = IF r.request = "commit" THEN buffered ELSE applied
      BY <1>5 DEF ServeRequest
    <2>2. buffered' \in Settings
      <3>1. CASE r.request = "enable"
        BY <2>1, <3>1 DEF Off, Settings
      <3>2. CASE r.request = "disable"
        BY <2>1, <3>2 DEF Settings, IInv, TypeOK
      <3>3. CASE r.request = "content"
        <4>1. r.purpose \in Purposes \cup {Nothing} /\ r.hint \in Hints \cup {Nothing}
          BY <1>2, <3>3 DEF Requests
        <4>2. buffered' = [buffered EXCEPT !.purpose = r.purpose, !.hint = r.hint]
          BY <2>1, <3>3
        <4> QED BY <4>1, <4>2 DEF Settings, IInv, TypeOK
      <3>4. CASE r.request \notin {"enable", "disable", "content"}
        BY <2>1, <3>4 DEF IInv, TypeOK
      <3> QED BY <3>1, <3>2, <3>3, <3>4
    <2>3. TypeOK' /\ WireInv'
      <3>1. applied' \in Settings
        BY <2>1 DEF IInv, TypeOK
      <3>2. TypeOK'
        BY <1>1, <1>6, <1>7, <2>2, <3>1 DEF IInv, TypeOK, client
      <3> QED BY <1>1, <1>2, <3>2 DEF IInv, WireInv
    <2>4. CallInv'
      <3>1. CASE r = Commit
        <4>1. r.request = "commit"
          BY <3>1 DEF Commit
        <4>2. buffered' = applied'
          BY <2>1, <4>1
        <4> QED BY <1>1, <1>5, <1>10, <1>11, <4>2 DEF CallInv, SettingsApplied
      <3>2. CASE r # Commit
        <4>1. calling' > 0 \/ \E i \in 1..Len(requests') : requests'[i] = Commit
          BY <1>1, <1>8, <3>2
        <4>2. overlap' \/ (IF requests' = <<>> THEN calling' = 1 ELSE Head(requests') = Commit)
          <5>1. CASE overlap /\ ~overlap'
            <6>1. ~(calling > 0) /\ requests' = <<>>
              BY <1>1, <5>1
            <6>2. Len(requests') = 0
              BY <6>1
            <6> QED BY <1>8, <3>2, <6>1, <6>2
          <5>2. CASE ~overlap
            BY <1>1, <1>9, <3>2, <5>2
          <5> QED BY <1>6, <5>1, <5>2
        <4>3. SettingsApplied'
          BY <4>1, <4>2 DEF SettingsApplied
        <4> QED BY <1>1, <1>5, <1>10, <1>11, <4>3 DEF CallInv
      <3> QED BY <3>1, <3>2
    <2> QED BY <1>3, <2>3, <2>4 DEF IInv
  <1> QED BY <1>4, <1>5

LEMMA DestroyKeeps ==
  ASSUME IInv, NEW s \in Surfaces, DestroySurface(s)
  PROVE  IInv'
  <1>1. /\ live' \subseteq live
        /\ UNCHANGED <<focused_surface, pending, wire, requests, calling, overlap, entered,
                       buffered, applied, batch>>
    BY DEF DestroySurface, client, calls, compositor
  <1>2. LineInv'
    BY <1>1, Destroying DEF client
  <1>3. TypeOK'
    BY <1>1 DEF IInv, TypeOK
  <1>4. CallInv'
    BY <1>1, CallsKept DEF calls
  <1> QED BY <1>1, <1>2, <1>3, <1>4 DEF IInv, WireInv

LEMMA Invariance == Spec => []IInv
  <1>1. ASSUME IInv, [Next]_vars PROVE IInv'
    <2>1. CASE UNCHANGED vars
      <3>1. UNCHANGED <<focused_surface, pending, wire, requests, calling, overlap, entered,
                        buffered, applied, batch, live>>
        BY <2>1 DEF vars, client, calls, compositor
      <3>2. LineInv'
        BY <1>1, <3>1, Destroying DEF client
      <3>3. CallInv'
        BY <1>1, <3>1, CallsKept DEF calls
      <3> QED BY <1>1, <3>1, <3>2, <3>3 DEF IInv, TypeOK, WireInv
    <2> QED BY <1>1, <2>1, CompositorKeeps, DispatchKeeps, ImeKeeps, ServeKeeps, DestroyKeeps
         DEF Next, EditKinds
  <1> QED BY InitInv, <1>1, PTL DEF Spec
-----------------------------------------------------------------------------
(* Theorems.                                                               *)

\* The variables keep their types: the text input is never thought to be on a
\* surface that is not ours (TextInputState::focused_surface).
THEOREM TypeCorrect == Spec => []TypeOK
  BY Invariance, PTL DEF IInv

\* What a call of Ime sets is applied, by its own commit unless calls of several
\* threads overlapped (Ime::enable and the others).
THEOREM SettingsAreApplied == Spec => []SettingsApplied
  <1>1. IInv => SettingsApplied
    BY DEF IInv, CallInv
  <1> QED BY Invariance, <1>1, PTL

\* What a done may hand over.
DoneStep ==
  LET done == Head(wire)
      whole == Edits(done.surface, done.batch)
  IN IF Done THEN IF done.surface \in live THEN news' = whole
                  ELSE /\ news' \in {<<>>, whole}
                       /\ done.surface \notin Surfaces => news' = <<>>
     ELSE news' = <<>>

LEMMA DoneSteps ==
  ASSUME IInv, [Next]_vars
  PROVE  DoneStep \/ UNCHANGED vars
  <1>1. ASSUME Done PROVE DoneStep
    <2> DEFINE done == Head(wire)
    <2>1. PICK view \in [0..Len(wire) -> Batches], at \in [0..Len(wire) -> Places] :
               Line(view, at)
      BY DEF IInv, LineInv
    <2>2. wire # <<>> /\ done.event = "done" /\ 1 \in 1..Len(wire) /\ wire[1] = done
      BY <1>1 DEF Done, Receive, IInv, WireInv
    <2>3. done.batch = pending /\ done.surface = at[0]
      <3>1. wire[1].batch = view[1 - 1] /\ wire[1].surface = at[1 - 1]
        BY <2>1, <2>2 DEF Line
      <3> QED BY <2>1, <2>2, <3>1 DEF Line
    <2>4. focused_surface = at[0] \/ (focused_surface = Nowhere /\ at[0] \notin live)
      BY <2>1 DEF Line
    <2>5. news' = IF focused_surface = Nowhere THEN <<>> ELSE Edits(focused_surface, pending)
      BY <1>1 DEF Done
    <2>6. Nowhere \notin Surfaces /\ live \subseteq Surfaces
          /\ focused_surface \in Surfaces \cup {Nowhere}
      BY TextInputAssumption DEF IInv, TypeOK
    <2> HIDE DEF done
    <2>7. IF done.surface \in live THEN news' = Edits(done.surface, done.batch)
          ELSE /\ news' \in {<<>>, Edits(done.surface, done.batch)}
               /\ done.surface \notin Surfaces => news' = <<>>
      BY <2>3, <2>4, <2>5, <2>6
    <2> QED BY <1>1, <2>7 DEF DoneStep, done
  <1>2. ASSUME ~Done, Next PROVE news' = <<>>
    BY <1>2 DEF Next, SendEnter, SendLeave, SendDone, SendEdit, Send, ServeRequest,
       Enter, Leave, ReceiveEdit, Enable, Disable, SetOther, EndCall, SetPurpose, SetHint,
       SetContentType, Content, Set, Request, DestroySurface
  <1> QED BY <1>1, <1>2 DEF DoneStep

\* A done hands over its own batch, whole, in order, to the surface the text
\* input was on, or loses it whole with that surface (zwp_text_input_v3.done).
THEOREM BatchesAreWhole == Spec => BatchWhole
  <1>1. IInv /\ [Next]_vars => DoneStep \/ UNCHANGED vars
    BY DoneSteps
  <1> QED BY Invariance, <1>1, PTL DEF Spec, BatchWhole, DoneStep
=============================================================================
