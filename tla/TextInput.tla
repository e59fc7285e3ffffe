----------------------------- MODULE TextInput -----------------------------
(***************************************************************************)
(* The input method: the dispatcher of zwp_text_input_v3 over              *)
(* TextInputState (src/connection.rs), and the calls of Ime (src/ime.rs),  *)
(* which all go to the one proxy of the seat, from any thread: a call is   *)
(* two requests, and what another thread calls may come between them.      *)
(*                                                                         *)
(* Events and requests are in flight in wire and requests.  The compositor *)
(* keeps what the requests set apart (buffered) until their commit applies *)
(* it; a done carries, as history, the edits sent since the done before it *)
(* and the surface the text input was on when it was sent.                 *)
(*                                                                         *)
(* Without a text input manager there is no proxy and nothing happens;     *)
(* here there is one.  Left out: TextInputState.enabled, only ever set to  *)
(* false, and last_done_serial, never read.                                *)
(***************************************************************************)
EXTENDS Integers, Sequences

\* A definition Name_Slip is Name as a slip of the programmer would make it;
\* nothing here uses it: put in the place of Name, it must break the property
\* the README lists it under.

CONSTANTS
  Surfaces,        \* surfaces with an entry in surface_id_by_wl
  Deletes, Commits, Preedits,  \* what an edit of each kind may carry
  Purposes, Hints, \* content purposes and hints that are set
  MaxWire,         \* bound: events in flight
  MaxRequests,     \* bound: requests in flight
  MaxCalls         \* bound: calls at once

Foreign == "foreign"   \* a surface an embedder made on our connection
Nowhere == "nowhere"
Nothing == 0           \* no edit; ContentPurpose::Normal; ContentHint none

ASSUME TextInputAssumption ==
  /\ {Foreign, Nowhere} \cap Surfaces = {}
  /\ Deletes \cup Commits \cup Preedits \subseteq Nat \ {Nothing}
  /\ Purposes \cup Hints \subseteq Nat
  /\ MaxWire \in Nat /\ MaxRequests \in Nat /\ MaxCalls \in Nat

VARIABLES
  focused_surface,
  pending,           \* pending_delete, pending_commit and pending_preedit
  news,              \* what the last handler pushed, oldest first
  wire, requests,    \* in flight to us, and to the compositor
  calling,           \* calls of Ime that sent their setting and not yet their
                     \* commit
  overlap,           \* history: did calls overlap since all was last quiet?
  entered, buffered, applied, batch, live
                     \* the compositor: where the text input is, what requests
                     \* set and what a commit applied, edits since the last
                     \* done; and the surfaces not destroyed

client == <<focused_surface, pending>>
compositor == <<entered, buffered, applied, batch>>
calls == <<calling, overlap>>
vars == <<client, news, wire, requests, calls, compositor, live>>

Kinds == <<"delete", "commit", "preedit">>
NoEdits == [delete |-> Nothing, commit |-> Nothing, preedit |-> Nothing]
Off == [enabled |-> FALSE, purpose |-> Nothing, hint |-> Nothing]

Edit(s, k, v) == [surface |-> s, kind |-> k, value |-> v]

Init ==
  /\ focused_surface = Nowhere /\ pending = NoEdits /\ news = <<>>
  /\ wire = <<>> /\ requests = <<>> /\ calling = 0 /\ overlap = FALSE
  /\ entered = Nowhere /\ buffered = Off /\ applied = Off /\ batch = NoEdits
  /\ live = Surfaces
-----------------------------------------------------------------------------
(* The compositor.                                                         *)

Send(e) ==
  /\ Len(wire) < MaxWire
  /\ wire' = Append(wire, e)
  /\ news' = <<>>
  /\ UNCHANGED <<client, requests, calls, live>>

SendEnter(t) ==
  /\ entered = Nowhere /\ t \in live \cup {Foreign}
  /\ entered' = t
  /\ Send([event |-> "enter", surface |-> t])
  /\ UNCHANGED <<buffered, applied, batch>>

\* The text input is off on the surface entered next.
SendLeave ==
  /\ entered # Nowhere
  /\ entered' = Nowhere /\ buffered' = Off /\ applied' = Off
  /\ Send([event |-> "leave"])
  /\ UNCHANGED batch

SendEdit(k, v) ==
  /\ applied.enabled
  /\ batch' = [batch EXCEPT ![k] = v]
  /\ Send([event |-> k, value |-> v])
  /\ UNCHANGED <<entered, buffered, applied>>

\* The focus may have moved since the edits.
SendDone ==
  /\ entered # Nowhere \/ batch # NoEdits
  /\ batch' = NoEdits
  /\ Send([event |-> "done", batch |-> batch, surface |-> entered])
  /\ UNCHANGED <<entered, buffered, applied>>

\* Nothing is taken while no surface is entered; enable resets the rest.
ServeRequest ==
  /\ requests # <<>>
  /\ requests' = Tail(requests)
  /\ LET r == Head(requests)
     IN IF entered = Nowhere THEN UNCHANGED <<buffered, applied>>
        ELSE /\ buffered' =
                  CASE r.request = "enable" -> [Off EXCEPT !.enabled = TRUE]
                    [] r.request = "disable" -> [buffered EXCEPT !.enabled = FALSE]
                    [] r.request = "content" ->
                         [buffered EXCEPT !.purpose = r.purpose, !.hint = r.hint]
                    [] OTHER -> buffered
             /\ applied' = IF r.request = "commit" THEN buffered ELSE applied
  /\ news' = <<>>
  /\ overlap' = (overlap /\ (calling > 0 \/ requests' # <<>>))
  /\ UNCHANGED <<client, wire, calling, entered, batch, live>>
-----------------------------------------------------------------------------
(* The dispatcher.                                                         *)

Receive(event) ==
  /\ wire # <<>> /\ Head(wire).event = event
  /\ wire' = Tail(wire)
  /\ UNCHANGED <<requests, calls, compositor, live>>

\* surface_id_by_wl finds our live surfaces; the object of a destroyed one
\* arrives as null
Found_Unchecked(t) == t

Found(t) == IF t \in live THEN t ELSE Nowhere

Enter ==
  /\ Receive("enter")
  /\ focused_surface' = Found(Head(wire).surface)
  /\ news' = <<>> /\ UNCHANGED pending

\* What is pending stays.
Leave ==
  /\ Receive("leave")
  /\ focused_surface' = Nowhere
  /\ news' = <<>> /\ UNCHANGED pending

\* DeleteSurroundingText, CommitString and PreeditString: the last one wins
KeepEdit(k, v) == pending' = [pending EXCEPT ![k] = v]

ReceiveEdit(k) ==
  /\ Receive(k)
  /\ KeepEdit(k, Head(wire).value)
  /\ news' = <<>> /\ UNCHANGED focused_surface

\* The edits in e, as events for s
Edits(s, e) ==
  LET all == [i \in 1..3 |-> Edit(s, Kinds[i], e[Kinds[i]])]
      There(x) == x.value # Nothing
  IN SelectSeq(all, There)

\* What is pending is dropped when nothing has the focus.
Taken_OnlyFocused == IF focused_surface = Nowhere THEN pending ELSE NoEdits

Taken == NoEdits

Done ==
  /\ Receive("done")
  /\ news' = IF focused_surface = Nowhere THEN <<>> ELSE Edits(focused_surface, pending)
  /\ pending' = Taken
  /\ UNCHANGED focused_surface
-----------------------------------------------------------------------------
(* Ime, the same proxy whatever surface it was taken from.                 *)

Request(r) ==
  /\ Len(requests) < MaxRequests
  /\ requests' = Append(requests, r)
  /\ news' = <<>>
  /\ UNCHANGED <<client, wire, compositor, live>>

\* The first of a call's two requests.  The proxy is shared without a lock: the
\* calls of other threads go on before its commit.
Set(r) ==
  /\ calling < MaxCalls
  /\ Request(r)
  /\ calling' = calling + 1
  /\ overlap' = (overlap \/ calling > 0)

Commit == [request |-> "commit"]

\* The second ends the call.
EndCall ==
  /\ calling > 0
  /\ Request(Commit)
  /\ calling' = calling - 1 /\ UNCHANGED overlap

Enable == Set([request |-> "enable"])
Disable == Set([request |-> "disable"])

\* set_cursor_rect and set_surrounding_text, whose values are left out
SetOther == Set([request |-> "other"])

\* purpose and hint travel together, whichever of them is set
Content_NoCommit(p, h) ==
  /\ Request([request |-> "content", purpose |-> p, hint |-> h])
  /\ UNCHANGED calls

Content(p, h) == Set([request |-> "content", purpose |-> p, hint |-> h])

SetPurpose(p) == Content(p, Nothing)
SetHint(h) == Content(Nothing, h)
SetContentType(p, h) == Content(p, h)

DestroySurface(s) ==
  /\ s \in live
  /\ live' = live \ {s}
  /\ news' = <<>>
  /\ UNCHANGED <<client, wire, requests, calls, compositor>>

Next ==
  \/ \E t \in Surfaces \cup {Foreign} : SendEnter(t)
  \/ SendLeave \/ SendDone \/ ServeRequest
  \/ \E v \in Deletes : SendEdit("delete", v)
  \/ \E v \in Commits : SendEdit("commit", v)
  \/ \E v \in Preedits : SendEdit("preedit", v)
  \/ Enter \/ Leave \/ Done
  \/ \E k \in {"delete", "commit", "preedit"} : ReceiveEdit(k)
  \/ Enable \/ Disable \/ SetOther \/ EndCall
  \/ \E p \in Purposes, h \in Hints :
       SetPurpose(p) \/ SetHint(h) \/ SetContentType(p, h)
  \/ \E s \in Surfaces : DestroySurface(s)

Spec == Init /\ [][Next]_vars
-----------------------------------------------------------------------------
(* Properties.                                                             *)

Settings == [enabled : BOOLEAN, purpose : Purposes \cup {Nothing},
             hint : Hints \cup {Nothing}]
Batches == [delete : Deletes \cup {Nothing}, commit : Commits \cup {Nothing},
            preedit : Preedits \cup {Nothing}]

\* Every variable keeps its type, and the text input is never thought to be on
\* a surface that is not ours.
TypeOK ==
  /\ focused_surface \in Surfaces \cup {Nowhere}
  /\ pending \in Batches /\ batch \in Batches
  /\ entered \in Surfaces \cup {Foreign, Nowhere}
  /\ buffered \in Settings /\ applied \in Settings
  /\ live \subseteq Surfaces
  /\ Len(wire) <= MaxWire /\ Len(requests) <= MaxRequests
  /\ calling \in 0..MaxCalls /\ overlap \in BOOLEAN

\* A done hands over the batch it closes and nothing else: the last edit of
\* each kind sent since the done before it, once, delete before commit before
\* preedit ("drained into WindowEvent::Ime on done"), to the surface the text
\* input was on when the done was sent.  A batch is lost whole, and only if
\* that surface is not ours or was destroyed; then none of it comes with a
\* later batch.  No other event hands over an edit.
BatchWhole ==
  [][LET done == Head(wire)
         whole == Edits(done.surface, done.batch)
     IN IF Done THEN IF done.surface \in live THEN news' = whole
                     ELSE /\ news' \in {<<>>, whole}
                          /\ done.surface \notin Surfaces => news' = <<>>
        ELSE news' = <<>>]_vars

\* Wherever the focus moved meanwhile: whatever the calls of Ime set is applied
\* by a commit in flight or by that of a call not yet over, so with no call
\* going on and all requests served nothing is left for a later call, which
\* another surface may make.  As long as no calls overlapped, each is whole: what
\* it set is applied by its own commit, the very next request.  Of two threads
\* that call at once, the commit of one may apply what the other set.
SettingsApplied ==
  /\ \/ buffered = applied \/ calling > 0
     \/ \E i \in 1..Len(requests) : requests[i] = Commit
  /\ \/ buffered = applied \/ overlap
     \/ IF requests = <<>> THEN calling = 1 ELSE Head(requests) = Commit
=============================================================================
