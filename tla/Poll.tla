-------------------------------- MODULE Poll --------------------------------
(***************************************************************************)
(* EventLoop::poll (src/event_loop.rs): the driver a consumer with a loop  *)
(* of its own calls instead of run_app.  One call returns one event or     *)
(* None; pc says how far it is, and others act between its steps.  A       *)
(* message of the compositor carries its number and makes one window       *)
(* event, or is a ping.                                                    *)
(***************************************************************************)
EXTENDS Integers, Sequences, SequencesExt

\* A definition Name_Slip is Name as a slip of the programmer would make it;
\* nothing here uses it: put in the place of Name, it must break the property
\* the README lists it under.

CONSTANTS
  MaxWire,         \* bound: messages the compositor sends
  MaxUsers         \* bound: user events sent

ASSUME PollAssumption == MaxWire \in Nat /\ MaxUsers \in Nat

Kinds == {"ping", "input"}
Messages == [kind : Kinds, n : 1..MaxWire]
Inputs == [kind : {"input"}, n : 1..MaxWire]

VARIABLES
  pc,              \* where poll() is; "out" between two calls
  pending_events,  \* State.pending_events
  got,             \* what the last call returned
  outgoing,        \* pings whose pong is written and not flushed
  queue,           \* read from the socket, not dispatched
  socket, sent,    \* the compositor's side
  connected,       \* ... is still there
  failed,          \* libwayland met a fatal error of the wl_display
  users, posted,   \* the user-event channel; user events sent so far
  seen, answered,  \* history: messages returned, pings answered
  before, raced    \* history, see below

\* What had been sent when the call under way, or the last one, found no user
\* event, and whether another reader took the socket since.
call == <<before, raced>>
link == <<connected, failed>>
vars == <<pc, pending_events, got, outgoing, queue, socket, sent, users, posted,
          seen, answered, call, link>>

Nothing == [kind |-> "none"]
UserEvent == [kind |-> "user"]

Init ==
  /\ pc = "out" /\ got = Nothing
  /\ users = 0 /\ posted = 0 /\ sent = 0
  /\ pending_events = <<>> /\ queue = <<>> /\ socket = <<>>
  /\ outgoing = {} /\ seen = {} /\ answered = {}
  /\ before = [sent |-> 0, posted |-> 0] /\ raced = FALSE
  /\ connected = TRUE /\ failed = FALSE
-----------------------------------------------------------------------------
(* poll().                                                                 *)

\* A user event goes first, and then the socket is left alone.
PollUser ==
  /\ pc = "out" /\ users > 0
  /\ users' = users - 1
  /\ got' = UserEvent
  /\ UNCHANGED <<pc, pending_events, outgoing, queue, socket, sent, posted,
                 seen, answered, call, link>>

NoUserEvent ==
  /\ pc = "out" /\ users = 0
  /\ pc' = "buffered"
  /\ before' = [sent |-> sent, posted |-> posted] /\ raced' = FALSE
  /\ UNCHANGED <<pending_events, got, outgoing, queue, socket, sent, users, posted,
                 seen, answered, link>>

\* The dispatchers on one message: a ping writes a pong, any other message
\* pushes its event.
Dispatch_PingsToo(m) ==
  pending_events' = Append(pending_events, m) /\ UNCHANGED outgoing

Dispatch(m) ==
  IF m.kind = "ping"
  THEN outgoing' = outgoing \cup {m.n} /\ UNCHANGED pending_events
  ELSE pending_events' = Append(pending_events, m) /\ UNCHANGED outgoing

\* dispatch_pending, before the flush and after the read: message by message
\* what is queued, and never the socket itself.  After the fatal error it fails,
\* the queue stays as it is, and poll() goes on.
DispatchPending ==
  /\ pc \in {"buffered", "read"} /\ queue # <<>> /\ ~failed
  /\ Dispatch(Head(queue))
  /\ queue' = Tail(queue)
  /\ UNCHANGED <<pc, got, socket, sent, users, posted, seen, answered, call, link>>

\* No more can be dispatched.
Dispatched == queue = <<>> \/ failed

\* pending_events.pop(): the youngest first
Pop_NotRemoved ==
  IF pending_events = <<>>
  THEN got' = Nothing /\ UNCHANGED <<pending_events, seen>>
  ELSE /\ got' = Last(pending_events)
       /\ seen' = seen \cup {Last(pending_events).n}
       /\ UNCHANGED pending_events

Pop ==
  IF pending_events = <<>>
  THEN got' = Nothing /\ UNCHANGED <<pending_events, seen>>
  ELSE /\ got' = Last(pending_events)
       /\ seen' = seen \cup {Last(pending_events).n}
       /\ pending_events' = Front(pending_events)

\* What was queued already is enough: no flush and no read.
PopBuffered ==
  /\ pc = "buffered" /\ Dispatched /\ pending_events # <<>>
  /\ pc' = "out"
  /\ Pop
  /\ UNCHANGED <<outgoing, queue, socket, sent, users, posted, answered, call, link>>

NothingBuffered ==
  /\ pc = "buffered" /\ Dispatched /\ pending_events = <<>>
  /\ pc' = "flush"
  /\ UNCHANGED <<pending_events, got, outgoing, queue, socket, sent, users, posted,
                 seen, answered, call, link>>

Flush_Skipped == UNCHANGED <<outgoing, answered>>

\* An error of the flush is dropped.
Flush ==
  IF connected
  THEN answered' = answered \cup outgoing /\ outgoing' = {}
  ELSE UNCHANGED <<outgoing, answered>>

PollFlush ==
  /\ pc = "flush"
  /\ pc' = "prepare"
  /\ Flush
  /\ UNCHANGED <<pending_events, got, queue, socket, sent, users, posted, seen, call,
                 link>>

\* A read takes all there is.  It meets the end of a lost connection when there
\* is nothing else, or an error the compositor sent last along with the rest.
Read ==
  /\ queue' = queue \o socket /\ socket' = <<>>
  /\ failed' \in IF connected THEN {failed}
                 ELSE IF socket = <<>> THEN {TRUE} ELSE {failed, TRUE}

\* prepare_read, and the read if poll(2) says POLLIN, as it does of a lost
\* connection; an error of the read is dropped.  Another reader that comes in
\* between waits for this one, so the two are one step.
ReadSocket_Undispatched == pc' = "pop" /\ Read

ReadSocket ==
  /\ pc' = IF socket = <<>> /\ connected THEN "pop" ELSE "read"
  /\ Read

PollRead ==
  /\ pc = "prepare" /\ queue = <<>>
  /\ ReadSocket
  /\ UNCHANGED <<pending_events, got, outgoing, sent, users, posted, seen, answered,
                 call, connected>>

\* prepare_read refuses: another reader filled the queue after it was found empty,
\* or the queue could not be dispatched.
ReadRefused ==
  /\ pc = "prepare" /\ queue # <<>>
  /\ pc' = "pop"
  /\ UNCHANGED <<pending_events, got, outgoing, queue, socket, sent, users, posted,
                 seen, answered, call, link>>

PopLast ==
  /\ pc = "pop" \/ (pc = "read" /\ Dispatched)
  /\ pc' = "out"
  /\ Pop
  /\ UNCHANGED <<outgoing, queue, socket, sent, users, posted, answered, call, link>>
-----------------------------------------------------------------------------
CompositorSends(kind) ==
  /\ connected /\ sent < MaxWire
  /\ sent' = sent + 1
  /\ socket' = Append(socket, [kind |-> kind, n |-> sent + 1])
  /\ UNCHANGED <<pc, pending_events, got, outgoing, queue, users, posted, seen,
                 answered, call, link>>

\* The compositor dies, or ends the connection after an error.
ConnectionLost ==
  /\ connected
  /\ connected' = FALSE
  /\ UNCHANGED <<pc, pending_events, got, outgoing, queue, socket, sent, users, posted,
                 seen, answered, call, failed>>

\* A GPU driver or an embedder that reads the shared socket fills our queue.
OtherReaderReads ==
  /\ socket # <<>> \/ ~connected
  /\ Read
  /\ raced' = TRUE
  /\ UNCHANGED <<pc, pending_events, got, outgoing, sent, users, posted, seen,
                 answered, before, connected>>

SendEvent ==
  /\ posted < MaxUsers
  /\ posted' = posted + 1 /\ users' = users + 1
  /\ UNCHANGED <<pc, pending_events, got, outgoing, queue, socket, sent, seen,
                 answered, call, link>>

PollCall ==
  \/ PollUser \/ NoUserEvent \/ DispatchPending \/ PopBuffered \/ NothingBuffered
  \/ PollFlush \/ PollRead \/ ReadRefused \/ PopLast

Next ==
  \/ PollCall
  \/ \E kind \in Kinds : CompositorSends(kind)
  \/ ConnectionLost \/ OtherReaderReads \/ SendEvent

\* The consumer keeps calling poll(): that is what drives the loop.
Spec == Init /\ [][Next]_vars /\ WF_vars(PollCall)
-----------------------------------------------------------------------------
(* Properties.                                                             *)

\* What is on its way to the consumer, oldest first, and the messages in a line.
Pipeline == pending_events \o queue \o socket
Numbers(line, kinds) ==
  {line[i].n : i \in {j \in DOMAIN line : line[j].kind \in kinds}}
Increasing(line) == \A i, j \in DOMAIN line : i < j => line[i].n < line[j].n

\* Every variable keeps its type.
TypeOK ==
  /\ pc \in {"out", "buffered", "flush", "prepare", "read", "pop"}
  /\ got \in {Nothing, UserEvent} \cup Inputs
  /\ users \in 0..MaxUsers /\ posted \in 0..MaxUsers /\ sent \in 0..MaxWire
  /\ pending_events \in Seq(Inputs)
  /\ queue \in Seq(Messages) /\ socket \in Seq(Messages)
  /\ outgoing \subseteq 1..MaxWire /\ answered \subseteq 1..MaxWire
  /\ seen \subseteq 1..MaxWire
  /\ before \in [sent : 0..MaxWire, posted : 0..MaxUsers] /\ raced \in BOOLEAN
  /\ connected \in BOOLEAN /\ failed \in BOOLEAN

\* poll() loses no message, returns none and answers none twice, whoever reads
\* the socket between which of its steps and at whichever of its three returns
\* it leaves: a message is under way, returned, waits for its pong to be flushed
\* or is answered, in one of these and only one, and what is under way is in the
\* order it was sent.  What a fatal error left in the queue stays under way.
EachOnce ==
  LET under_way == Numbers(Pipeline, Kinds)
  IN /\ 1..sent = under_way \cup seen \cup outgoing \cup answered
     /\ under_way \cap (seen \cup outgoing \cup answered) = {}
     /\ seen \cap (outgoing \cup answered) = {} /\ outgoing \cap answered = {}
     /\ Increasing(Pipeline)

\* None means that nothing is left of what was there when the call began
\* ("Returns None when no events are queued"): no user event, no event
\* dispatched, no message in the socket, and in the queue only if another
\* reader put it there during the call, or if a fatal error of the wl_display
\* left it there for good, of which None says nothing.
NoneMeansEmpty ==
  [][pc # "out" /\ pc' = "out" /\ got' = Nothing =>
       /\ users' = posted' - before.posted
       /\ pending_events' = <<>>
       /\ \A n \in Numbers(socket', Kinds) : n > before.sent
       /\ raced \/ failed \/ \A n \in Numbers(queue', Kinds) : n > before.sent]_vars

\* Every message is returned, or answered when it is a ping, once the user
\* events run out, unless the connection is lost first.
Served(n) == n \in seen \cup answered \/ ~connected
AllServed == \A n \in 1..MaxWire : (sent >= n) ~> Served(n)

\* poll() hands over "the next pending event": the oldest.
OldestFirst ==
  [][\A n \in seen' \ seen : \A m \in Numbers(Pipeline, {"input"}) : n <= m]_vars
=============================================================================
