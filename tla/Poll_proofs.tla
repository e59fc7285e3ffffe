---------------------------- MODULE Poll_proofs ----------------------------
(***************************************************************************)
(* What poll() guarantees for any number of messages and user events, and  *)
(* wherever between its steps another reader takes the socket: nothing is  *)
(* lost or returned twice, None means that nothing is left, and a call     *)
(* comes to its end.                                                       *)
(***************************************************************************)
EXTENDS Poll, TLAPS, SequenceTheorems

USE PollAssumption

LEMMA KindsOfMessages ==
  /\ Inputs \subseteq Messages /\ Seq(Inputs) \subseteq Seq(Messages)
  /\ \A m \in Messages : m.kind \in Kinds /\ m.n \in 1..MaxWire
  /\ \A m \in Messages : m.kind # "ping" => m \in Inputs
  /\ \A m \in Inputs : m # Nothing
  <1>1. Inputs \subseteq Messages
    BY DEF Inputs, Messages, Kinds
  <1>2. \A m \in Messages : m.kind \in Kinds /\ m.n \in 1..MaxWire
    BY DEF Messages
  <1>3. \A m \in Messages : m.kind # "ping" => m \in Inputs
    BY DEF Inputs, Messages, Kinds
  <1>4. \A m \in Inputs : m # Nothing
    BY DEF Inputs, Nothing
  <1> QED BY <1>1, <1>2, <1>3, <1>4, SeqMonotonic
-----------------------------------------------------------------------------
(* Lines.                                                                  *)

\* A line with one item more in the middle: a place of the short line is a
\* place of the long one.
LEMMA Middle ==
  ASSUME NEW a \in Seq(Messages), NEW m \in Messages, NEW b \in Seq(Messages)
  PROVE  LET long == a \o <<m>> \o b
             short == a \o b
         IN /\ Len(a) \in Nat /\ Len(b) \in Nat
            /\ DOMAIN long = 1..(Len(a) + 1 + Len(b)) /\ long[Len(a) + 1] = m
            /\ DOMAIN short = 1..(Len(a) + Len(b))
            /\ \A i \in 1..Len(a) : long[i] = short[i]
            /\ \A i \in (Len(a) + 1)..(Len(a) + Len(b)) : long[i + 1] = short[i]
  OBVIOUS

\* Taking an item out of a line keeps its order and takes out one number.
LEMMA OneLess ==
  ASSUME NEW a \in Seq(Messages), NEW m \in Messages, NEW b \in Seq(Messages),
         Increasing(a \o <<m>> \o b)
  PROVE  /\ Increasing(a \o b)
         /\ Numbers(a \o <<m>> \o b, Kinds) = Numbers(a \o b, Kinds) \cup {m.n}
         /\ m.n \notin Numbers(a \o b, Kinds)
  <1> DEFINE long == a \o <<m>> \o b
             short == a \o b
             up(i) == IF i \in 1..Len(a) THEN i ELSE i + 1
  <1>1. /\ Len(a) \in Nat /\ Len(b) \in Nat
        /\ DOMAIN long = 1..(Len(a) + 1 + Len(b)) /\ long[Len(a) + 1] = m
        /\ DOMAIN short = 1..(Len(a) + Len(b))
        /\ \A i \in 1..Len(a) : long[i] = short[i]
        /\ \A i \in (Len(a) + 1)..(Len(a) + Len(b)) : long[i + 1] = short[i]
    BY Middle
  <1>2. Increasing(long) /\ long \in Seq(Messages) /\ short \in Seq(Messages)
    OBVIOUS
  <1> HIDE DEF long, short
  <1>3. \A i \in DOMAIN short :
          up(i) \in DOMAIN long /\ long[up(i)] = short[i] /\ up(i) # Len(a) + 1
    BY <1>1
  <1>4. \A i, j \in DOMAIN short : i < j => up(i) < up(j)
    BY <1>1
  <1>5. \A k \in DOMAIN long : k = Len(a) + 1 \/ \E i \in DOMAIN short : k = up(i)
    <2> SUFFICES ASSUME NEW k \in DOMAIN long, k # Len(a) + 1
                 PROVE  \E i \in DOMAIN short : k = up(i)
      OBVIOUS
    <2>1. CASE k \in 1..Len(a)
      BY <1>1, <2>1
    <2>2. CASE k \notin 1..Len(a)
      <3>1. k - 1 \in DOMAIN short /\ k - 1 \notin 1..Len(a) /\ k = (k - 1) + 1
        BY <1>1, <2>2
      <3> QED BY <3>1
    <2> QED BY <2>1, <2>2
  <1> HIDE DEF up
  <1>6. Increasing(short)
    BY <1>2, <1>3, <1>4 DEF Increasing
  <1>7. /\ \A i \in DOMAIN long : long[i].kind \in Kinds
        /\ \A i \in DOMAIN short : short[i].kind \in Kinds
    BY <1>2, ElementOfSeq, KindsOfMessages
  <1>8. Numbers(long, Kinds) = Numbers(short, Kinds) \cup {m.n}
    <2>1. Len(a) + 1 \in DOMAIN long
      BY <1>1
    <2> QED BY <1>1, <1>3, <1>5, <1>7, <2>1 DEF Numbers
  <1>9. m.n \notin Numbers(short, Kinds)
    <2> SUFFICES ASSUME NEW i \in DOMAIN short PROVE short[i].n # m.n
      BY DEF Numbers
    <2>1. /\ Len(a) + 1 \in DOMAIN long /\ up(i) \in DOMAIN long /\ up(i) # Len(a) + 1
          /\ DOMAIN long \subseteq Int
      BY <1>1, <1>3
    <2>2. up(i) < Len(a) + 1 \/ Len(a) + 1 < up(i)
      BY <2>1
    <2>3. \A k \in DOMAIN long : long[k].n \in Int
      BY <1>2, ElementOfSeq, KindsOfMessages
    <2>4. long[up(i)].n < m.n \/ m.n < long[up(i)].n
      BY <1>1, <1>2, <2>1, <2>2 DEF Increasing
    <2> QED BY <1>1, <1>3, <2>1, <2>3, <2>4
  <1> QED BY <1>6, <1>8, <1>9 DEF long, short

LEMMA NumbersAppended ==
  ASSUME NEW line \in Seq(Messages), NEW m \in Messages
  PROVE  Numbers(Append(line, m), Kinds) = Numbers(line, Kinds) \cup {m.n}
  <1>1. /\ Len(line) \in Nat /\ DOMAIN line = 1..Len(line)
        /\ DOMAIN Append(line, m) = 1..(Len(line) + 1)
        /\ \A i \in 1..Len(line) : Append(line, m)[i] = line[i]
        /\ Append(line, m)[Len(line) + 1] = m
    OBVIOUS
  <1>2. m.kind \in Kinds /\ \A i \in DOMAIN line : line[i].kind \in Kinds
    BY ElementOfSeq, KindsOfMessages
  <1> QED BY <1>1, <1>2 DEF Numbers

\* A message younger than all the others goes to the end.
LEMMA OneMore ==
  ASSUME NEW line \in Seq(Messages), NEW m \in Messages, Increasing(line),
         \A n \in Numbers(line, Kinds) : n < m.n
  PROVE  /\ Increasing(Append(line, m))
         /\ Numbers(Append(line, m), Kinds) = Numbers(line, Kinds) \cup {m.n}
  <1>1. /\ Len(line) \in Nat /\ DOMAIN line = 1..Len(line)
        /\ DOMAIN Append(line, m) = 1..(Len(line) + 1)
        /\ \A i \in 1..Len(line) : Append(line, m)[i] = line[i]
        /\ Append(line, m)[Len(line) + 1] = m
    OBVIOUS
  <1>2. \A i \in DOMAIN line : line[i].kind \in Kinds
    BY ElementOfSeq, KindsOfMessages
  <1>3. \A i \in DOMAIN line : line[i].n < m.n
    BY <1>2 DEF Numbers
  <1>4. Increasing(Append(line, m))
    BY <1>1, <1>3 DEF Increasing
  <1> QED BY <1>4, NumbersAppended
-----------------------------------------------------------------------------
(* Types.                                                                  *)

\* What a pop leaves and returns.
LEMMA Popped ==
  ASSUME NEW events \in Seq(Inputs), events # <<>>
  PROVE  /\ Last(events) \in Inputs /\ Front(events) \in Seq(Inputs)
         /\ events = Front(events) \o <<Last(events)>>
  BY DEF Last, Front

\* No more user events wait than were sent: what keeps users in its range.  And
\* the read that meets the fatal error is the last that finds anything.
TypeInv ==
  /\ TypeOK
  /\ users <= posted
  /\ failed => ~connected /\ socket = <<>>

LEMMA TypeStep == TypeInv /\ [Next]_vars => TypeInv'
  <1> SUFFICES ASSUME TypeInv, [Next]_vars PROVE TypeInv'
    OBVIOUS
  <1> USE DEF TypeInv, TypeOK, call, link
  <1>1. CASE PollUser
    BY <1>1 DEF PollUser
  <1>2. CASE NoUserEvent
    BY <1>2 DEF NoUserEvent
  <1>3. CASE DispatchPending
    <2>1. /\ queue # <<>> /\ Head(queue) \in Messages /\ Tail(queue) \in Seq(Messages)
          /\ queue' = Tail(queue) /\ Dispatch(Head(queue))
          /\ UNCHANGED <<pc, got, socket, sent, users, posted, seen, answered, call, link>>
      BY <1>3 DEF DispatchPending
    <2>2. /\ Head(queue).n \in 1..MaxWire
          /\ Head(queue).kind # "ping" => Head(queue) \in Inputs
      BY <2>1, KindsOfMessages
    <2>3. pending_events' \in Seq(Inputs) /\ outgoing' \subseteq 1..MaxWire
      <3>1. CASE Head(queue).kind = "ping"
        BY <2>1, <2>2, <3>1 DEF Dispatch
      <3>2. CASE Head(queue).kind # "ping"
        <4>1. Append(pending_events, Head(queue)) \in Seq(Inputs)
          BY <2>2, <3>2, AppendProperties
        <4> QED BY <2>1, <3>2, <4>1 DEF Dispatch
      <3> QED BY <3>1, <3>2
    <2> QED BY <2>1, <2>3
  <1>4. CASE PopBuffered \/ PopLast
    <2>1. /\ Pop /\ pc' = "out"
          /\ UNCHANGED <<outgoing, queue, socket, sent, users, posted, answered, call, link>>
      BY <1>4 DEF PopBuffered, PopLast
    <2>2. CASE pending_events = <<>>
      BY <2>1, <2>2 DEF Pop
    <2>3. CASE pending_events # <<>>
      <3>1. /\ got' \in Inputs /\ pending_events' \in Seq(Inputs)
            /\ seen' = seen \cup {Last(pending_events).n} /\ Last(pending_events) \in Inputs
        BY <2>1, <2>3, Popped DEF Pop
      <3>2. Last(pending_events).n \in 1..MaxWire
        BY <3>1, KindsOfMessages
      <3> QED BY <2>1, <3>1, <3>2
    <2> QED BY <2>2, <2>3
  <1>5. CASE NothingBuffered
    BY <1>5 DEF NothingBuffered
  <1>6. CASE PollFlush
    BY <1>6 DEF PollFlush, Flush
  <1>7. CASE PollRead
    <2>1. queue' \in Seq(Messages) /\ socket' \in Seq(Messages)
      BY <1>7, ConcatProperties DEF PollRead, ReadSocket, Read
    <2> QED BY <1>7, <2>1 DEF PollRead, ReadSocket, Read
  <1>8. CASE ReadRefused
    BY <1>8 DEF ReadRefused
  <1>9. ASSUME NEW kind \in Kinds, CompositorSends(kind) PROVE TypeInv'
    <2>1. [kind |-> kind, n |-> sent + 1] \in Messages
      BY <1>9 DEF CompositorSends, Messages
    <2>2. socket' \in Seq(Messages)
      BY <1>9, <2>1, AppendProperties DEF CompositorSends
    <2> QED BY <1>9, <2>2 DEF CompositorSends
  <1>10. CASE OtherReaderReads
    <2>1. queue' \in Seq(Messages) /\ socket' \in Seq(Messages)
      BY <1>10, ConcatProperties DEF OtherReaderReads, Read
    <2> QED BY <1>10, <2>1 DEF OtherReaderReads, Read
  <1>11. CASE SendEvent
    BY <1>11 DEF SendEvent
  <1>12. CASE UNCHANGED vars
    BY <1>12 DEF vars
  <1>13. CASE ConnectionLost
    BY <1>13 DEF ConnectionLost
  <1> QED
    BY <1>13, <1>1, <1>2, <1>3, <1>4, <1>5, <1>6, <1>7, <1>8, <1>9, <1>10, <1>11, <1>12
    DEF Next, PollCall

LEMMA TypeAlways == Spec => []TypeInv
  <1>1. Init => TypeInv
    <2> SUFFICES ASSUME Init PROVE TypeInv
      OBVIOUS
    <2>1. /\ pending_events \in Seq(Inputs) /\ queue \in Seq(Messages)
          /\ socket \in Seq(Messages)
      BY EmptySeq DEF Init
    <2>2. before \in [sent : 0..MaxWire, posted : 0..MaxUsers]
      BY DEF Init
    <2>3. /\ users \in 0..MaxUsers /\ posted \in 0..MaxUsers /\ sent \in 0..MaxWire
          /\ users <= posted /\ (failed => ~connected /\ socket = <<>>)
      BY DEF Init
    <2>4. /\ pc = "out" /\ got = Nothing /\ raced = FALSE /\ connected = TRUE /\ failed = FALSE
          /\ outgoing = {} /\ answered = {} /\ seen = {}
      BY DEF Init
    <2> QED BY <2>1, <2>2, <2>3, <2>4 DEF TypeInv, TypeOK
  <1> QED BY <1>1, TypeStep, PTL DEF Spec

\* The variables of poll() keep their types: what is dispatched is input, and no
\* ping is returned.
THEOREM TypeCorrect == Spec => []TypeOK
  <1>1. TypeInv => TypeOK
    BY DEF TypeInv
  <1> QED BY <1>1, TypeAlways, PTL
-----------------------------------------------------------------------------
(* Each message once.                                                      *)

\* All that was sent is in one of the four sets, and in only one.
Apart(line, handled, pongs, acked, total) ==
  /\ 1..total = line \cup handled \cup pongs \cup acked
  /\ line \cap (handled \cup pongs \cup acked) = {}
  /\ handled \cap (pongs \cup acked) = {} /\ pongs \cap acked = {}

\* n is under way and is returned, or dispatched as a ping.
LEMMA ApartMove ==
  ASSUME NEW line, NEW handled, NEW pongs, NEW acked, NEW total, NEW n, NEW rest,
         line = rest \cup {n}, n \notin rest, Apart(line, handled, pongs, acked, total)
  PROVE  /\ Apart(rest, handled \cup {n}, pongs, acked, total)
         /\ Apart(rest, handled, pongs \cup {n}, acked, total)
  BY DEF Apart

LEMMA ApartSend ==
  ASSUME NEW line, NEW handled, NEW pongs, NEW acked, NEW total \in Nat,
         Apart(line, handled, pongs, acked, total)
  PROVE  Apart(line \cup {total + 1}, handled, pongs, acked, total + 1)
  <1>1. 1..(total + 1) = (1..total) \cup {total + 1} /\ total + 1 \notin 1..total
    OBVIOUS
  <1> QED BY <1>1 DEF Apart

LEMMA OnceInParts ==
  EachOnce <=> /\ Increasing(Pipeline)
               /\ Apart(Numbers(Pipeline, Kinds), seen, outgoing, answered, sent)
  BY DEF EachOnce, Apart

LEMMA OnceAgain ==
  ASSUME Increasing(Pipeline'),
         Apart(Numbers(Pipeline', Kinds), seen', outgoing', answered', sent')
  PROVE  EachOnce'
  BY DEF EachOnce, Apart, Numbers, Increasing

LEMMA Lines ==
  ASSUME TypeOK
  PROVE  /\ pending_events \in Seq(Messages) /\ queue \in Seq(Messages)
         /\ socket \in Seq(Messages) /\ Pipeline \in Seq(Messages)
  <1>1. /\ pending_events \in Seq(Messages) /\ queue \in Seq(Messages)
        /\ socket \in Seq(Messages)
    BY KindsOfMessages DEF TypeOK
  <1> QED BY <1>1 DEF Pipeline

\* A message dispatched goes from the head of the queue to the end of the events,
\* which leaves the line as it is, or leaves the line.
LEMMA DispatchInLine ==
  ASSUME TypeOK, queue # <<>>
  PROVE  /\ Head(queue) \in Messages
         /\ Pipeline = pending_events \o <<Head(queue)>> \o (Tail(queue) \o socket)
         /\ Append(pending_events, Head(queue)) \o Tail(queue) \o socket = Pipeline
         /\ pending_events \o Tail(queue) \o socket =
              pending_events \o (Tail(queue) \o socket)
         /\ Tail(queue) \o socket \in Seq(Messages)
  <1> DEFINE head == Head(queue)
             tail == Tail(queue)
  <1>1. head \in Messages /\ tail \in Seq(Messages) /\ queue = <<head>> \o tail
    BY Lines
  <1>2. pending_events \in Seq(Messages) /\ socket \in Seq(Messages)
    BY Lines
  <1> HIDE DEF head, tail
  <1>3. pending_events \o (<<head>> \o tail) \o socket =
          pending_events \o <<head>> \o (tail \o socket)
    BY <1>1, <1>2
  <1>4. Append(pending_events, head) \o tail \o socket =
          pending_events \o <<head>> \o (tail \o socket)
    BY <1>1, <1>2
  <1>5. pending_events \o tail \o socket = pending_events \o (tail \o socket)
    BY <1>1, <1>2
  <1>6. tail \o socket \in Seq(Messages)
    BY <1>1, <1>2
  <1> QED BY <1>1, <1>3, <1>4, <1>5, <1>6 DEF head, tail, Pipeline

\* The event popped leaves the middle of the line.
LEMMA PopInLine ==
  ASSUME TypeOK, pending_events # <<>>
  PROVE  /\ Last(pending_events) \in Messages /\ Front(pending_events) \in Seq(Messages)
         /\ queue \o socket \in Seq(Messages)
         /\ Pipeline = Front(pending_events) \o <<Last(pending_events)>> \o (queue \o socket)
         /\ Front(pending_events) \o queue \o socket =
              Front(pending_events) \o (queue \o socket)
  <1> DEFINE front == Front(pending_events)
             last == Last(pending_events)
  <1>1. /\ last \in Messages /\ front \in Seq(Messages) /\ pending_events = front \o <<last>>
    BY Popped, KindsOfMessages DEF TypeOK
  <1>2. queue \in Seq(Messages) /\ socket \in Seq(Messages)
    BY Lines
  <1> HIDE DEF front, last
  <1>3. (front \o <<last>>) \o queue \o socket = front \o <<last>> \o (queue \o socket)
    BY <1>1, <1>2
  <1>4. front \o queue \o socket = front \o (queue \o socket)
    BY <1>1, <1>2
  <1>5. queue \o socket \in Seq(Messages)
    BY <1>2
  <1> QED BY <1>1, <1>3, <1>4, <1>5 DEF front, last, Pipeline

\* The moves that change nothing of the line: a read, by whomever, and the rest.
LEMMA LineStays ==
  ASSUME EachOnce, Pipeline' = Pipeline, UNCHANGED <<seen, outgoing, answered, sent>>
  PROVE  EachOnce'
  BY DEF EachOnce, Increasing, Numbers

LEMMA ReadsKeepLine ==
  ASSUME TypeOK, PollRead \/ OtherReaderReads
  PROVE  Pipeline' = Pipeline
  <1> USE Lines
  <1>1. CASE PollRead
    <2>1. pending_events \o (queue \o socket) \o <<>> = pending_events \o queue \o socket
      OBVIOUS
    <2> QED BY <1>1, <2>1 DEF PollRead, ReadSocket, Read, Pipeline
  <1>2. CASE OtherReaderReads
    <2>1. pending_events \o (queue \o socket) \o <<>> = pending_events \o queue \o socket
      OBVIOUS
    <2> QED BY <1>2, <2>1 DEF OtherReaderReads, Read, Pipeline
  <1> QED BY <1>1, <1>2

LEMMA DispatchKeepsOnce == TypeOK /\ EachOnce /\ DispatchPending => EachOnce'
  <1> SUFFICES ASSUME TypeOK, EachOnce, DispatchPending PROVE EachOnce'
    OBVIOUS
  <1> DEFINE m == Head(queue)
             rest == Tail(queue) \o socket
  <1>1. /\ queue # <<>> /\ queue' = Tail(queue) /\ Dispatch(m)
        /\ UNCHANGED <<socket, seen, answered, sent>>
    BY DEF DispatchPending
  <1>2. CASE m.kind # "ping"
    <2>1. pending_events' = Append(pending_events, m) /\ outgoing' = outgoing
      BY <1>1, <1>2 DEF Dispatch
    <2>2. Pipeline' = Pipeline
      BY <1>1, <2>1, DispatchInLine DEF Pipeline
    <2> QED BY <1>1, <2>1, <2>2, LineStays
  <1>3. CASE m.kind = "ping"
    <2>1. pending_events' = pending_events /\ outgoing' = outgoing \cup {m.n}
      BY <1>1, <1>3 DEF Dispatch
    <2>2. /\ m \in Messages /\ rest \in Seq(Messages) /\ pending_events \in Seq(Messages)
          /\ Pipeline = pending_events \o <<m>> \o rest /\ Pipeline' = pending_events \o rest
      BY <1>1, <2>1, DispatchInLine, Lines DEF Pipeline
    <2> HIDE DEF m, rest
    <2>3. Increasing(Pipeline)
      BY DEF EachOnce
    <2>4. /\ Increasing(Pipeline')
          /\ Numbers(Pipeline, Kinds) = Numbers(Pipeline', Kinds) \cup {m.n}
          /\ m.n \notin Numbers(Pipeline', Kinds)
      BY <2>2, <2>3, OneLess
    <2>5. Apart(Numbers(Pipeline', Kinds), seen', outgoing', answered', sent')
      BY <1>1, <2>1, <2>4, OnceInParts, ApartMove
    <2> QED BY <2>4, <2>5, OnceAgain
  <1> QED BY <1>2, <1>3

LEMMA PopKeepsOnce ==
  TypeOK /\ EachOnce /\ (PopBuffered \/ PopLast) => EachOnce'
  <1> SUFFICES ASSUME TypeOK, EachOnce, PopBuffered \/ PopLast PROVE EachOnce'
    OBVIOUS
  <1> DEFINE m == Last(pending_events)
             front == Front(pending_events)
             rest == queue \o socket
  <1>1. Pop /\ UNCHANGED <<outgoing, queue, socket, sent, answered>>
    BY DEF PopBuffered, PopLast
  <1>2. CASE pending_events = <<>>
    BY <1>1, <1>2, LineStays DEF Pop, Pipeline
  <1>3. CASE pending_events # <<>>
    <2>1. pending_events' = front /\ seen' = seen \cup {m.n}
      BY <1>1, <1>3 DEF Pop
    <2>2. /\ m \in Messages /\ rest \in Seq(Messages) /\ front \in Seq(Messages)
          /\ Pipeline = front \o <<m>> \o rest /\ Pipeline' = front \o rest
      BY <1>1, <1>3, <2>1, PopInLine DEF Pipeline
    <2> HIDE DEF m, front, rest
    <2>3. Increasing(Pipeline)
      BY DEF EachOnce
    <2>4. /\ Increasing(Pipeline')
          /\ Numbers(Pipeline, Kinds) = Numbers(Pipeline', Kinds) \cup {m.n}
          /\ m.n \notin Numbers(Pipeline', Kinds)
      BY <2>2, <2>3, OneLess
    <2>5. Apart(Numbers(Pipeline', Kinds), seen', outgoing', answered', sent')
      BY <1>1, <2>1, <2>4, OnceInParts, ApartMove
    <2> QED BY <2>4, <2>5, OnceAgain
  <1> QED BY <1>2, <1>3

LEMMA SendKeepsOnce ==
  ASSUME TypeOK, EachOnce, NEW kind \in Kinds, CompositorSends(kind)
  PROVE  EachOnce'
  <1> DEFINE m == [kind |-> kind, n |-> sent + 1]
  <1>1. /\ sent' = sent + 1 /\ socket' = Append(socket, m)
        /\ UNCHANGED <<pending_events, queue, seen, outgoing, answered>>
    BY DEF CompositorSends
  <1>2. m \in Messages /\ m.n = sent + 1
    BY DEF CompositorSends, Messages, TypeOK
  <1> HIDE DEF m
  <1>3. Pipeline' = Append(Pipeline, m) /\ Pipeline \in Seq(Messages)
    BY <1>1, <1>2, Lines DEF Pipeline
  <1>4. Increasing(Pipeline) /\ \A n \in Numbers(Pipeline, Kinds) : n < m.n
    <2>1. Numbers(Pipeline, Kinds) \subseteq 1..sent /\ sent \in Nat
      BY DEF EachOnce, TypeOK
    <2> QED BY <1>2, <2>1 DEF EachOnce
  <1>5. Increasing(Pipeline') /\ Numbers(Pipeline', Kinds) = Numbers(Pipeline, Kinds) \cup {m.n}
    BY <1>2, <1>3, <1>4, OneMore
  <1>6. Apart(Numbers(Pipeline', Kinds), seen', outgoing', answered', sent')
    BY <1>1, <1>2, <1>5, OnceInParts, ApartSend DEF TypeOK
  <1> QED BY <1>5, <1>6, OnceAgain

LEMMA OnceStep == TypeOK /\ EachOnce /\ [Next]_vars => EachOnce'
  <1> SUFFICES ASSUME TypeOK, EachOnce, [Next]_vars PROVE EachOnce'
    OBVIOUS
  <1>1. CASE PollUser \/ NoUserEvent \/ NothingBuffered \/ ReadRefused \/ SendEvent
               \/ ConnectionLost \/ UNCHANGED vars
    <2>1. UNCHANGED <<pending_events, queue, socket, seen, outgoing, answered, sent>>
      BY <1>1 DEF PollUser, NoUserEvent, NothingBuffered, ReadRefused, SendEvent,
         ConnectionLost, vars
    <2> QED BY <2>1, LineStays DEF Pipeline
  <1>2. CASE PollRead \/ OtherReaderReads
    <2>1. UNCHANGED <<seen, outgoing, answered, sent>>
      BY <1>2 DEF PollRead, OtherReaderReads
    <2> QED BY <1>2, <2>1, ReadsKeepLine, LineStays
  <1>3. CASE PollFlush
    <2>1. Pipeline' = Pipeline /\ UNCHANGED <<seen, sent>>
      BY <1>3 DEF PollFlush, Pipeline
    <2>2. CASE connected
      <3>1. answered' = answered \cup outgoing /\ outgoing' = {}
        BY <1>3, <2>2 DEF PollFlush, Flush
      <3> QED BY <2>1, <3>1 DEF EachOnce, Increasing, Numbers
    <2>3. CASE ~connected
      BY <1>3, <2>1, <2>3, LineStays DEF PollFlush, Flush
    <2> QED BY <2>2, <2>3
  <1> QED
    BY <1>1, <1>2, <1>3, DispatchKeepsOnce, PopKeepsOnce, SendKeepsOnce DEF Next, PollCall

\* poll() loses no message and returns or answers none twice, and what waits is
\* in the order it was sent, for any number of messages, wherever in the call
\* another reader takes the socket.
THEOREM ReturnedOnce == Spec => []EachOnce
  <1>1. Init => EachOnce
    BY DEF Init, EachOnce, Pipeline, Numbers, Increasing
  <1>2. TypeInv => TypeOK
    BY DEF TypeInv
  <1> QED BY <1>1, <1>2, OnceStep, TypeAlways, PTL DEF Spec
-----------------------------------------------------------------------------
(* None.                                                                   *)

\* What the socket holds came after the call began.
Later == \A n \in Numbers(socket, Kinds) : n > before.sent

\* A call past its first dispatch has no event waiting until it has read; what
\* is queued then another reader put there, or it cannot be dispatched.  Whoever
\* read, the socket holds only what came since.
CallInv ==
  pc # "out" =>
    /\ users = posted - before.posted /\ before.sent <= sent
    /\ pc \in {"flush", "prepare", "pop"} =>
         pending_events = <<>> /\ (raced \/ failed \/ queue = <<>>)
    /\ raced \/ pc \in {"read", "pop"} => Later

LEMMA NothingIsLater ==
  /\ Numbers(<<>>, Kinds) = {}
  /\ socket' = <<>> => Later'
  BY DEF Later, Numbers

LEMMA CallStep == TypeInv /\ CallInv /\ [Next]_vars => CallInv'
  <1> SUFFICES ASSUME TypeInv, CallInv, [Next]_vars PROVE CallInv'
    OBVIOUS
  <1>0. TypeOK
    BY DEF TypeInv
  <1>1. CASE PollUser \/ PopBuffered \/ PopLast
    BY <1>1 DEF PollUser, PopBuffered, PopLast, CallInv
  <1>2. CASE NoUserEvent
    BY <1>0, <1>2 DEF NoUserEvent, CallInv, TypeOK
  <1>3. CASE DispatchPending
    <2>1. pc \in {"buffered", "read"} /\ UNCHANGED <<pc, socket, sent, users, posted, call, link>>
      BY <1>3 DEF DispatchPending
    <2>2. Later => Later'
      BY <2>1 DEF Later, call, Numbers
    <2> QED BY <2>1, <2>2 DEF CallInv, call, link
  <1>4. CASE NothingBuffered \/ PollFlush \/ ReadRefused
    <2>1. /\ pc # "out" /\ UNCHANGED <<pending_events, queue, socket, sent, users, posted, call>>
          /\ pc' \in {"flush", "prepare"} \/ (pc' = "pop" /\ pc = "prepare" /\ queue # <<>>)
          /\ pending_events = <<>> /\ (raced \/ failed \/ queue = <<>>) /\ failed' = failed
      BY <1>4 DEF NothingBuffered, Dispatched, PollFlush, ReadRefused, CallInv, link
    <2>2. Later => Later'
      BY <2>1 DEF Later, call, Numbers
    <2>3. failed => Later
      BY NothingIsLater DEF TypeInv, Later
    <2> QED BY <2>1, <2>2, <2>3 DEF CallInv, call
  <1>5. CASE PollRead
    <2>1. /\ pc = "prepare" /\ pc' = (IF socket = <<>> /\ connected THEN "pop" ELSE "read")
          /\ socket = <<>> => queue' = <<>>
          /\ socket' = <<>>
          /\ UNCHANGED <<pending_events, sent, users, posted, call>>
      BY <1>0, <1>5 DEF PollRead, ReadSocket, Read, TypeOK
    <2>2. Later'
      BY <2>1, NothingIsLater
    <2> QED BY <2>1, <2>2 DEF CallInv, call
  <1>6. ASSUME NEW kind \in Kinds, CompositorSends(kind) PROVE CallInv'
    <2> DEFINE m == [kind |-> kind, n |-> sent + 1]
    <2>1. /\ sent' = sent + 1 /\ socket' = Append(socket, m)
          /\ UNCHANGED <<pc, pending_events, queue, users, posted, call, link>>
      BY <1>6 DEF CompositorSends
    <2>2. m \in Messages /\ m.n = sent + 1
      BY <1>0, <1>6 DEF CompositorSends, Messages, TypeOK
    <2>3. before.sent \in Nat /\ sent \in Nat
      BY <1>0 DEF TypeOK
    <2> HIDE DEF m
    <2>4. Numbers(socket', Kinds) = Numbers(socket, Kinds) \cup {sent + 1}
      BY <1>0, <2>1, <2>2, NumbersAppended, Lines
    <2>5. Later /\ before.sent <= sent => \A n \in Numbers(socket', Kinds) : n > before'.sent
      BY <2>1, <2>3, <2>4 DEF Later, call
    <2>6. Later /\ before.sent <= sent => Later'
      BY <2>5 DEF Later, Numbers
    <2> QED BY <2>1, <2>3, <2>6 DEF CallInv, call, link
  <1>7. CASE OtherReaderReads
    <2>1. Later'
      BY <1>7, NothingIsLater DEF OtherReaderReads, Read
    <2> QED BY <1>7, <2>1 DEF OtherReaderReads, Read, CallInv
  <1>8. CASE SendEvent
    <2>1. /\ posted' = posted + 1 /\ users' = users + 1
          /\ UNCHANGED <<pc, pending_events, queue, socket, sent, call, link>>
      BY <1>8 DEF SendEvent
    <2>2. Later => Later'
      BY <2>1 DEF Later, call, Numbers
    <2>3. users \in Nat /\ posted \in Nat /\ before.posted \in Nat
      BY <1>0 DEF TypeOK
    <2> QED BY <2>1, <2>2, <2>3 DEF CallInv, call, link
  <1>9. CASE UNCHANGED vars
    BY <1>9 DEF vars, call, link, CallInv, Later, Numbers
  <1>10. CASE ConnectionLost
    <2>1. UNCHANGED <<pc, pending_events, queue, socket, sent, users, posted, call, failed>>
      BY <1>10 DEF ConnectionLost
    <2>2. Later => Later'
      BY <2>1 DEF Later, call, Numbers
    <2> QED BY <2>1, <2>2 DEF CallInv, call
  <1> QED
    BY <1>10, <1>1, <1>2, <1>3, <1>4, <1>5, <1>6, <1>7, <1>8, <1>9 DEF Next, PollCall

\* None means that nothing is left of what was there when the call began, for
\* any number of messages and whatever is sent or read meanwhile.
THEOREM NoneIsEmpty == Spec => NoneMeansEmpty
  <1> DEFINE Ends == pc # "out" /\ pc' = "out" /\ got' = Nothing
             Empty == /\ users' = posted' - before.posted
                      /\ pending_events' = <<>>
                      /\ \A n \in Numbers(socket', Kinds) : n > before.sent
                      /\ raced \/ failed \/ \A n \in Numbers(queue', Kinds) : n > before.sent
  <1>1. Init => CallInv
    BY DEF Init, CallInv
  <1>2. TypeInv /\ CallInv /\ [Next]_vars => [Ends => Empty]_vars
    <2> SUFFICES ASSUME TypeInv, CallInv, [Next]_vars, Ends PROVE Empty
      OBVIOUS
    <2>1. PopBuffered \/ PopLast
      BY DEF Next, PollCall, PollUser, NoUserEvent, DispatchPending, NothingBuffered, PollFlush,
             PollRead, ReadSocket, ReadRefused, CompositorSends, ConnectionLost, OtherReaderReads,
             SendEvent, vars
    <2>2. Pop /\ UNCHANGED <<queue, socket, sent, users, posted>>
      BY <2>1 DEF PopBuffered, PopLast
    <2>3. pending_events = <<>> /\ pending_events' = <<>>
      <3>1. SUFFICES ASSUME pending_events # <<>> PROVE FALSE
        BY <2>2 DEF Pop
      <3>2. got' = Last(pending_events) /\ Last(pending_events) \in Inputs
        BY <2>2, <3>1, Popped DEF Pop, TypeInv, TypeOK
      <3> QED BY <3>2, KindsOfMessages
    <2>4. pc = "pop" \/ (pc = "read" /\ (queue = <<>> \/ failed))
      BY <2>1, <2>3 DEF PopBuffered, PopLast, Dispatched
    <2>5. Later /\ (raced \/ failed \/ queue = <<>>) /\ users = posted - before.posted
      BY <2>4 DEF CallInv
    <2> QED BY <2>2, <2>3, <2>5, NothingIsLater DEF Later
  <1>3. Spec => [][Ends => Empty]_vars
    BY <1>1, <1>2, CallStep, TypeAlways, PTL DEF Spec
  <1> QED BY <1>3 DEF NoneMeansEmpty
-----------------------------------------------------------------------------
(* A call comes to its end.                                                *)

Stage(where) ==
  CASE where = "buffered" -> 5
    [] where = "flush" -> 4
    [] where = "prepare" -> 3
    [] where = "read" -> 2
    [] where = "pop" -> 1
    [] OTHER -> 0

\* poll() does not block ("Pull the next pending event without blocking"): each
\* of its steps brings its return nearer, to a later place or to a shorter queue,
\* and of the steps of others only a second reader's can put it off.
CallsEnd ==
  [][IF pc # "out" /\ PollCall
     THEN \/ Stage(pc') < Stage(pc)
          \/ pc' = pc /\ Len(queue') < Len(queue)
     ELSE \/ pc = "out"
          \/ pc' = pc /\ (queue' = queue \/ OtherReaderReads)]_vars

\* Every call of poll() returns after finitely many of its own steps, unless a
\* second reader keeps its dispatch going.
THEOREM CallsReturn == Spec => CallsEnd
  <1> DEFINE End == IF pc # "out" /\ PollCall
                    THEN \/ Stage(pc') < Stage(pc)
                         \/ pc' = pc /\ Len(queue') < Len(queue)
                    ELSE \/ pc = "out"
                         \/ pc' = pc /\ (queue' = queue \/ OtherReaderReads)
  <1>1. TypeOK /\ [Next]_vars => [End]_vars
    <2> SUFFICES ASSUME TypeOK, Next, pc # "out" PROVE End
      OBVIOUS
    <2>1. CASE DispatchPending
      <3>1. pc' = pc /\ Len(queue') < Len(queue)
        BY <2>1 DEF DispatchPending, TypeOK
      <3> QED BY <2>1, <3>1 DEF PollCall
    <2>2. CASE PollCall /\ ~DispatchPending
      <3>1. Stage(pc') < Stage(pc)
        BY <2>2 DEF PollCall, PollUser, NoUserEvent, PopBuffered, NothingBuffered, PollFlush,
           PollRead, ReadSocket, ReadRefused, PopLast, Stage
      <3> QED BY <2>2, <3>1
    <2>3. CASE ~PollCall
      <3>1. pc' = pc /\ (queue' = queue \/ OtherReaderReads)
        BY <2>3 DEF Next, CompositorSends, ConnectionLost, OtherReaderReads, SendEvent
      <3> QED BY <2>3, <3>1
    <2> QED BY <2>1, <2>2, <2>3
  <1> QED BY <1>1, TypeCorrect, PTL DEF Spec, CallsEnd
=============================================================================
