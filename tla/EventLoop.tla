----------------------------- MODULE EventLoop -----------------------------
(***************************************************************************)
(* EventLoop::run_app (src/event_loop.rs): one thread that hands a         *)
(* consumer its callbacks, around a Wayland socket, a user-event channel,  *)
(* the request_redraw flags and the key-repeat timer.                      *)
(*                                                                         *)
(* A message of the compositor carries its number n: it is a ping, or it   *)
(* makes exactly one window event (press and release are the key events    *)
(* that arm and stop the repeat timer, input is any other).  Time is       *)
(* abstract: a wait_until deadline is "past" or "future" when the pump is  *)
(* reached, and a drain of the repeat timer finds any number of due ticks. *)
(*                                                                         *)
(* A lost connection ends in a fatal error of the wl_display: after it the *)
(* library reads and dispatches nothing more, whatever it still holds.     *)
(***************************************************************************)
EXTENDS Integers, Sequences, FiniteSets

\* A definition Name_Slip is Name as a slip of the programmer would make it;
\* nothing here uses it: put in the place of Name, it must break the property
\* the README lists it under.

CONSTANTS
  Surfaces,        \* the surfaces of the consumer
  WireKinds,       \* what the compositor may send
  MaxWire,         \* bound: messages the compositor sends
  MaxUsers,        \* bound: user events waiting in the channel at once
  MaxTicks,        \* the catch-up budget of drain_key_repeats (32 in the code)
  RedrawFrom,      \* where the consumer calls request_redraw from
  Deadlines,       \* what the consumer passes to wait_until ("none": no call)
  SharedDisplay    \* does another library read the same wl_display?

Kinds == {"ping", "press", "release", "input"}
Callers == {"resumed", "user_event", "input", "press", "release", "repeat",
            "redraw", "about_to_wait", "thread"}

ASSUME ConstantsAssumption ==
  /\ IsFiniteSet(Surfaces)
  /\ WireKinds \subseteq Kinds
  /\ MaxWire \in Nat /\ MaxUsers \in Nat /\ MaxTicks \in Nat
  /\ RedrawFrom \subseteq Callers
  /\ Deadlines \subseteq {"none", "future", "past"}
  /\ SharedDisplay \in BOOLEAN

Messages == [kind : Kinds, n : 1..MaxWire]
Events == [kind : Kinds \ {"ping"}, n : 1..MaxWire]
            \cup [kind : {"redraw"}, surface : Surfaces]
            \cup [kind : {"repeat"}]

VARIABLES
  pc,              \* where run_app is
  exit_requested, needs_redraw, wait_until,
  repeating,       \* is a key armed in KeyboardState.repeating?
  pending_events,  \* State.pending_events
  drained,         \* the events run_app took and has not handed over yet
  cap,             \* what is left of blocking_pump's timeout
  queue,           \* read from the socket, not dispatched
  failed,          \* has the wl_display had its fatal error?
  outgoing,        \* pings whose pong is written and not flushed
  socket, connected, key_down, sent,     \* the compositor's side
  users,                                 \* the user-event channel
  seen, answered, unanswered, view_down  \* history, see below

loop == <<pc, exit_requested, wait_until, repeating, pending_events, drained,
          cap, outgoing>>
wire == <<socket, failed, connected, key_down, sent>>

\* What the outside saw so far: the messages whose event was handed over, the
\* pings answered, the surfaces that asked for a redraw and had none since, and
\* whether the consumer believes the key is down.
history == <<seen, answered, unanswered, view_down>>
vars == <<loop, needs_redraw, queue, wire, users, history>>

RedrawEvent(s) == [kind |-> "redraw", surface |-> s]
RepeatEvent == [kind |-> "repeat"]

Init ==
  /\ pc = "resumed"
  /\ exit_requested = FALSE /\ needs_redraw = {} /\ wait_until = "none"
  /\ repeating = FALSE
  /\ pending_events = <<>> /\ drained = <<>> /\ queue = <<>> /\ socket = <<>>
  /\ cap = "zero" /\ outgoing = {} /\ users = 0
  /\ connected = TRUE /\ failed = FALSE /\ key_down = FALSE /\ sent = 0
  /\ seen = {} /\ answered = {} /\ unanswered = {} /\ view_down = FALSE
-----------------------------------------------------------------------------
(* What a callback may do to the loop before it returns.                   *)

\* wait_until keeps the earlier of the two deadlines
Sooner(a, b) ==
  IF "past" \in {a, b} THEN "past"
  ELSE IF "future" \in {a, b} THEN "future" ELSE "none"

\* request_redraw() raises flags and lowers none.
RequestRedraws_Overwrites(caller, asked) ==
  /\ asked # {} => caller \in RedrawFrom
  /\ needs_redraw' = asked

RequestRedraws(caller, asked) ==
  /\ asked # {} => caller \in RedrawFrom
  /\ needs_redraw' = needs_redraw \cup asked

\* served: the surfaces this very callback redraws
Callback(caller, served) ==
  /\ exit_requested' \in {exit_requested, TRUE}
  /\ \E d \in Deadlines : wait_until' = Sooner(wait_until, d)
  /\ \E asked \in SUBSET Surfaces :
       /\ RequestRedraws(caller, asked)
       /\ unanswered' = (unanswered \ served) \cup asked

\* run_app looks at the exit flag after each user event and each window event.
AfterCallback_Unchecked(next) == pc' = next

AfterCallback(next) == pc' = IF exit_requested' THEN "exiting" ELSE next

Resumed ==
  /\ pc = "resumed"
  /\ Callback("resumed", {})
  /\ pc' = "top"
  /\ UNCHANGED <<repeating, pending_events, drained, cap, outgoing, queue,
                 wire, users, seen, answered, view_down>>

Top ==
  /\ pc = "top"
  /\ pc' = IF exit_requested THEN "exiting" ELSE "user"
  /\ UNCHANGED <<exit_requested, wait_until, repeating, pending_events, drained,
                 cap, outgoing, needs_redraw, queue, wire, users, history>>

UserEvent_Unguarded ==
  /\ pc = "user"
  /\ users' = users - 1
  /\ Callback("user_event", {})
  /\ AfterCallback("user")
  /\ UNCHANGED <<repeating, pending_events, drained, cap, outgoing, queue,
                 wire, seen, answered, view_down>>

UserEvent ==
  /\ pc = "user" /\ users > 0
  /\ users' = users - 1
  /\ Callback("user_event", {})
  /\ AfterCallback("user")
  /\ UNCHANGED <<repeating, pending_events, drained, cap, outgoing, queue,
                 wire, seen, answered, view_down>>

UsersDrained ==
  /\ pc = "user" /\ users = 0
  /\ pc' = "flush"
  /\ UNCHANGED <<exit_requested, wait_until, repeating, pending_events, drained,
                 cap, outgoing, needs_redraw, queue, wire, users, history>>

\* A failed flush is logged and forgotten.
Flush ==
  /\ pc = "flush"
  /\ pc' = "redraw"
  /\ IF connected
     THEN answered' = answered \cup outgoing /\ outgoing' = {}
     ELSE UNCHANGED <<answered, outgoing>>
  /\ UNCHANGED <<exit_requested, wait_until, repeating, pending_events, drained,
                 cap, needs_redraw, queue, wire, users, seen, unanswered,
                 view_down>>
-----------------------------------------------------------------------------
(* The two drains that run before the pump.                                *)

\* the orders in which a hash map may visit the members of a set
Orders(S) ==
  {o \in [1..Cardinality(S) -> S] : \A i, j \in DOMAIN o : o[i] = o[j] => i = j}

ClearFlags_Forgotten == UNCHANGED needs_redraw

ClearFlags == needs_redraw' = {}

DrainRedrawRequests ==
  /\ pc = "redraw"
  /\ pc' = "repeat"
  /\ \E o \in Orders(needs_redraw) :
       pending_events' = pending_events \o [i \in DOMAIN o |-> RedrawEvent(o[i])]
  /\ ClearFlags
  /\ UNCHANGED <<exit_requested, wait_until, repeating, drained, cap, outgoing,
                 queue, wire, users, history>>

DrainKeyRepeats ==
  /\ pc = "repeat"
  /\ pc' = "timeout"
  /\ \E due \in 0..(IF repeating THEN MaxTicks ELSE 0) :
       pending_events' = pending_events \o [i \in 1..due |-> RepeatEvent]
  /\ UNCHANGED <<exit_requested, wait_until, repeating, drained, cap, outgoing,
                 needs_redraw, queue, wire, users, history>>

\* The next tick of a held key may already be due again.
ComputeTimeout ==
  /\ pc = "timeout"
  /\ pc' = "pump"
  /\ wait_until' = "none"
  /\ cap' \in IF wait_until = "past" THEN {"zero"}
              ELSE IF repeating THEN {"zero", "positive"} ELSE {"positive"}
  /\ UNCHANGED <<exit_requested, repeating, pending_events, drained, outgoing,
                 needs_redraw, queue, wire, users, history>>
-----------------------------------------------------------------------------
(* blocking_pump.                                                          *)

IsKey(m) == m.kind \in {"press", "release"}

\* A ping is answered by a pong, and makes no event.
Pong_Skipped(m) == UNCHANGED outgoing

Pong(m) == outgoing' = outgoing \cup {m.n}

PushEvent_Front(m) == pending_events' = <<m>> \o pending_events

PushEvent(m) == pending_events' = Append(pending_events, m)

\* A press arms the repeat timer and a release stops it.
RepeatingAfter_NoStop(m) == repeating \/ m.kind = "press"

RepeatingAfter(m) == IF IsKey(m) THEN m.kind = "press" ELSE repeating

\* The dispatchers of connection.rs on one message.
Dispatch(m) ==
  /\ IF m.kind = "ping"
     THEN Pong(m) /\ UNCHANGED pending_events
     ELSE PushEvent(m) /\ UNCHANGED outgoing
  /\ repeating' = RepeatingAfter(m)

\* dispatch_pending: what was read, message by message.  It never reads the
\* socket itself.  After the fatal error it fails, the queue stays as it is, and
\* the pump drops the error.
DispatchPending ==
  /\ pc \in {"pump", "dispatch"} /\ queue # <<>> /\ ~failed
  /\ Dispatch(Head(queue))
  /\ queue' = Tail(queue)
  /\ UNCHANGED <<pc, exit_requested, wait_until, drained, cap, needs_redraw, wire,
                 users, history>>

\* The two early returns leave the socket alone as well.  prepare_read refuses
\* while the queue holds something, and the pump goes round again.
PumpCheck ==
  /\ pc = "pump" /\ (queue = <<>> \/ failed)
  /\ pc' = IF pending_events # <<>> THEN "take"
           ELSE IF queue # <<>> THEN "pump"
           ELSE IF cap = "zero" THEN "take" ELSE "poll"
  /\ UNCHANGED <<exit_requested, wait_until, repeating, pending_events, drained,
                 cap, outgoing, needs_redraw, queue, wire, users, history>>

\* What a read finds, by whoever.  On a lost connection it is the end of the
\* file, or the compositor's wl_display.error behind the messages.
ReadSocket ==
  /\ queue' = queue \o socket
  /\ socket' = <<>>
  /\ failed' \in IF connected THEN {FALSE}
                 ELSE IF socket = <<>> THEN {TRUE} ELSE BOOLEAN

\* poll(2) says POLLIN: read, and dispatch to the end.  A lost connection is
\* readable too: the read fails and its error is dropped.
PumpRead ==
  /\ pc = "poll" /\ (socket # <<>> \/ ~connected)
  /\ IF failed THEN UNCHANGED <<queue, socket, failed>> ELSE ReadSocket
  /\ pc' = "dispatch"
  /\ UNCHANGED <<exit_requested, wait_until, repeating, pending_events, drained,
                 cap, outgoing, needs_redraw, connected, key_down, sent, users,
                 history>>

PumpDispatched ==
  /\ pc = "dispatch" /\ (queue = <<>> \/ failed)
  /\ pc' = "take"
  /\ UNCHANGED <<exit_requested, wait_until, repeating, pending_events, drained,
                 cap, outgoing, needs_redraw, queue, wire, users, history>>

\* poll(2) counts whole milliseconds: it times out past the deadline, or within
\* its last millisecond, which the pump spins through (bound: once).
PumpTimeout_Never == FALSE

PumpTimeout ==
  /\ pc = "poll" /\ socket = <<>> /\ connected
  /\ pc' \in {"take", "pump"}
  /\ cap' = IF cap = "positive" /\ pc' = "pump" THEN "last" ELSE "zero"
  /\ UNCHANGED <<exit_requested, wait_until, repeating, pending_events, drained,
                 outgoing, needs_redraw, queue, wire, users, history>>
-----------------------------------------------------------------------------
(* Delivery.                                                               *)

TakePending_Copies == drained' = pending_events /\ UNCHANGED pending_events

TakePending == drained' = pending_events /\ pending_events' = <<>>

Take ==
  /\ pc = "take"
  /\ pc' = "deliver"
  /\ TakePending
  /\ UNCHANGED <<exit_requested, wait_until, repeating, cap, outgoing,
                 needs_redraw, queue, wire, users, history>>

Deliver ==
  /\ pc = "deliver" /\ drained # <<>>
  /\ LET e == Head(drained)
     IN /\ Callback(e.kind, IF e.kind = "redraw" THEN {e.surface} ELSE {})
        /\ seen' = IF e.kind \in Kinds THEN seen \cup {e.n} ELSE seen
        /\ view_down' = IF IsKey(e) THEN e.kind = "press" ELSE view_down
  /\ drained' = Tail(drained)
  /\ AfterCallback("deliver")
  /\ UNCHANGED <<repeating, pending_events, cap, outgoing, queue, wire, users,
                 answered>>

Delivered ==
  /\ pc = "deliver" /\ drained = <<>>
  /\ pc' = "about_to_wait"
  /\ UNCHANGED <<exit_requested, wait_until, repeating, pending_events, drained,
                 cap, outgoing, needs_redraw, queue, wire, users, history>>

AboutToWait ==
  /\ pc = "about_to_wait"
  /\ Callback("about_to_wait", {})
  /\ pc' = "top"
  /\ UNCHANGED <<repeating, pending_events, drained, cap, outgoing, queue,
                 wire, users, seen, answered, view_down>>

Exiting ==
  /\ pc = "exiting"
  /\ pc' = "returned"
  /\ UNCHANGED <<exit_requested, wait_until, repeating, pending_events, drained,
                 cap, outgoing, needs_redraw, queue, wire, users, history>>
-----------------------------------------------------------------------------
(* Everyone else.                                                          *)

\* A key is pressed when it is up and released when it is down.
CompositorSends(kind) ==
  /\ connected /\ sent < MaxWire
  /\ kind = "press" => ~key_down
  /\ kind = "release" => key_down
  /\ key_down' = IF kind = "press" THEN TRUE
                 ELSE IF kind = "release" THEN FALSE ELSE key_down
  /\ sent' = sent + 1
  /\ socket' = Append(socket, [kind |-> kind, n |-> sent + 1])
  /\ UNCHANGED <<loop, needs_redraw, queue, failed, connected, users, history>>

\* It dies, or it ends the connection over a protocol error.
CompositorDies ==
  /\ connected
  /\ connected' = FALSE
  /\ UNCHANGED <<loop, needs_redraw, queue, socket, failed, key_down, sent, users,
                 history>>

ProxySend ==
  /\ pc # "returned" /\ users < MaxUsers
  /\ users' = users + 1
  /\ UNCHANGED <<loop, needs_redraw, queue, wire, history>>

\* Surface handles are Send + Sync: any thread may raise the flag.
ThreadRequestsRedraw(s) ==
  /\ RequestRedraws("thread", {s})
  /\ unanswered' = unanswered \cup {s}
  /\ UNCHANGED <<loop, queue, wire, users, seen, answered, view_down>>

\* A GPU driver or an embedder that reads the shared socket fills our queue too.
\* While run_app is prepared to read, the other reader waits for it.
OtherReaderReads ==
  /\ SharedDisplay /\ (socket # <<>> \/ ~connected) /\ ~failed /\ pc # "poll"
  /\ ReadSocket
  /\ UNCHANGED <<loop, needs_redraw, connected, key_down, sent, users, history>>
-----------------------------------------------------------------------------
RunApp ==
  \/ Resumed \/ Top \/ UserEvent \/ UsersDrained \/ Flush
  \/ DrainRedrawRequests \/ DrainKeyRepeats \/ ComputeTimeout
  \/ DispatchPending \/ PumpCheck \/ PumpRead \/ PumpDispatched \/ PumpTimeout
  \/ Take \/ Deliver \/ Delivered \/ AboutToWait \/ Exiting

Environment ==
  \/ \E kind \in WireKinds : CompositorSends(kind)
  \/ CompositorDies
  \/ ProxySend
  \/ \E s \in Surfaces : ThreadRequestsRedraw(s)
  \/ OtherReaderReads

\* run_app returned: the process may stop here, and nowhere else.
Terminated == pc = "returned" /\ UNCHANGED vars

Next == RunApp \/ Environment \/ Terminated

\* Only the thread inside run_app is sure to run: poll(2) returns by its
\* timeout and callbacks return.
Spec == Init /\ [][Next]_vars /\ WF_vars(RunApp)
-----------------------------------------------------------------------------
(* Properties.                                                             *)

Phases == {"resumed", "top", "user", "flush", "redraw", "repeat", "timeout",
           "pump", "poll", "dispatch", "take", "deliver", "about_to_wait", "exiting",
           "returned"}

\* Every variable keeps its type.
TypeOK ==
  /\ pc \in Phases
  /\ exit_requested \in BOOLEAN /\ repeating \in BOOLEAN
  /\ connected \in BOOLEAN /\ failed \in BOOLEAN
  /\ key_down \in BOOLEAN /\ view_down \in BOOLEAN
  /\ needs_redraw \subseteq Surfaces /\ unanswered \subseteq Surfaces
  /\ wait_until \in {"none", "future", "past"}
  /\ cap \in {"zero", "last", "positive"}
  /\ pending_events \in Seq(Events) /\ drained \in Seq(Events)
  /\ queue \in Seq(Messages) /\ socket \in Seq(Messages)
  /\ sent \in 0..MaxWire /\ users \in 0..MaxUsers
  /\ outgoing \subseteq 1..MaxWire
  /\ seen \subseteq 1..MaxWire /\ answered \subseteq 1..MaxWire

\* What is on its way to the consumer, oldest first, and the messages in a line.
Pipeline == drained \o pending_events \o queue \o socket
Numbers(line, kinds) ==
  {line[i].n : i \in {j \in DOMAIN line : line[j].kind \in kinds}}

\* No message of the compositor is lost, doubled or overtaken between the
\* socket and the handler: it is under way, handed over, waits for its pong to
\* be flushed or is answered, in one of these and only one; what is under way is
\* in the order it was sent, after everything handed over (run_app,
\* blocking_pump and the two takes between).
InOrderOnce ==
  LET under_way == Numbers(Pipeline, Kinds)
  IN /\ 1..sent = under_way \cup seen \cup outgoing \cup answered
     /\ under_way \cap (seen \cup outgoing \cup answered) = {}
     /\ seen \cap (outgoing \cup answered) = {} /\ outgoing \cap answered = {}
     /\ \A i, j \in DOMAIN Pipeline :
          i < j /\ Pipeline[i].kind \in Kinds /\ Pipeline[j].kind \in Kinds =>
            Pipeline[i].n < Pipeline[j].n
     /\ \A n \in seen, m \in under_way : n < m

\* A request_redraw() the consumer or another thread made is not forgotten:
\* until its surface is redrawn the flag is up or the event is queued.
NoLostRedraw ==
  \A s \in unanswered :
    \/ s \in needs_redraw
    \/ \E i \in DOMAIN (drained \o pending_events) :
          (drained \o pending_events)[i] = RedrawEvent(s)

\* A repeat event is handed over only while the key event handed over last is
\* a press: the release the dispatcher saw cannot be overtaken by ticks queued
\* before or after it.
RepeatOnlyWhileDown ==
  pc = "deliver" /\ drained # <<>> /\ Head(drained) = RepeatEvent => view_down

\* Once exit() was called no callback runs but exiting, and the events taken
\* and not handed over stay so: the handler's exiting() promises that "No further
\* callbacks will fire", where exit() itself says that the loop exits "after the
\* current iteration".
NoCallbackAfterExit ==
  [][exit_requested =>
       /\ pc' \in {pc, "exiting", "returned"}
       /\ drained' = drained /\ users' >= users /\ wait_until' = wait_until]_vars

\* What the consumer of this run did not see yet.
Waiting(n) == n \in 1..sent /\ n \notin seen \cup answered
Stopped == pc \in {"exiting", "returned"}
Redrawing(s) ==
  pc = "deliver" /\ drained # <<>> /\ Head(drained) = RedrawEvent(s)

\* exit() makes run_app return, whatever is queued or keeps arriving.
ExitReturns == exit_requested ~> pc = "returned"

\* The pump goes round and round: after the fatal error nothing empties the
\* queue that makes prepare_read refuse (the "continue" of blocking_pump).
Jammed == pc = "pump" /\ failed /\ queue # <<>> /\ pending_events = <<>>

\* A user event is picked up although the socket stays silent, as blocking_pump
\* is capped for: the pump sleeps through no send for ever.  That the fatal
\* error leaves messages in the queue is the one way it can miss it.
UserEventServed ==
  (users > 0) ~> ((pc = "user" /\ users > 0) \/ Stopped \/ Jammed)

\* As long as the user channel is drained again and again, a flagged surface
\* gets its RedrawRequested.
RedrawServed ==
  []<>(pc = "flush") =>
    \A s \in Surfaces : (s \in needs_redraw) ~> (Redrawing(s) \/ Stopped)

\* When nobody asks for a redraw any more, the loop stops sending them: a flag
\* that was drained is down.
RedrawsQuiesce ==
  \A s \in Surfaces :
    <>[](s \notin unanswered) => <>[](~Redrawing(s))

\* As long as the pump gets to poll(2) again and again, every message sent is
\* handed over, or answered when it is a ping.
ServedIfPolling ==
  []<>(pc = "poll") =>
    \A n \in 1..MaxWire : Waiting(n) ~> (~Waiting(n) \/ Stopped \/ ~connected)

\* The same when only the user channel is known to be drained: whatever the
\* consumer does from its callbacks, pings are answered and input is handed
\* over (the comment on xdg_wm_base.ping says why a pong may not fail;
\* wait_until says that real input preempts the sleep).
MessageServed ==
  []<>(pc = "flush") =>
    \A n \in 1..MaxWire : Waiting(n) ~> (~Waiting(n) \/ Stopped \/ ~connected)

\* An I/O failure on the Wayland socket reaches the consumer: run_app, the only
\* call it waits in, returns.
ConnectionLossReported == ~connected ~> pc = "returned"

\* run_app implements the inbox: the events in drained, pending_events, the
\* queue and the socket.
Delivery ==
  INSTANCE EventDelivery WITH
    posted <- sent,
    inbox <- Numbers(Pipeline, Kinds \ {"ping"}),
    last <- IF seen = {} THEN 0 ELSE CHOOSE n \in seen : \A m \in seen : m <= n,
    phase <- IF pc = "returned" THEN "returned"
             ELSE IF exit_requested THEN "exiting" ELSE "running"
DeliverySpec == Delivery!Spec
=============================================================================
