------------------------ MODULE EventDelivery_proofs ------------------------
(***************************************************************************)
(* run_app loses, doubles and reorders no message between the socket and   *)
(* the handler, and implements EventDelivery: for any number of messages,  *)
(* surfaces, ticks and readers of the socket, and every consumer.          *)
(***************************************************************************)
EXTENDS EventLoop_proofs

\* What waits anywhere on the way.
Items == Events \cup Messages

\* The messages of a line are in the order they were sent.
Increasing(line) ==
  \A i, j \in DOMAIN line :
    i < j /\ line[i].kind \in Kinds /\ line[j].kind \in Kinds =>
      line[i].n < line[j].n

Below(a, b) == \A m \in a, n \in b : m < n
-----------------------------------------------------------------------------
(* Lines and their parts.                                                  *)

\* The places of two lines joined.
LEMMA Joined ==
  ASSUME NEW a \in Seq(Items), NEW b \in Seq(Items)
  PROVE  /\ Len(a) \in Nat /\ Len(b) \in Nat
         /\ DOMAIN a = 1..Len(a) /\ DOMAIN b = 1..Len(b)
         /\ a \o b \in Seq(Items) /\ DOMAIN (a \o b) = 1..(Len(a) + Len(b))
         /\ \A i \in 1..Len(a) : (a \o b)[i] = a[i]
         /\ \A i \in 1..Len(b) : (a \o b)[Len(a) + i] = b[i]
         /\ \A i \in (Len(a) + 1)..(Len(a) + Len(b)) :
              i - Len(a) \in 1..Len(b) /\ (a \o b)[i] = b[i - Len(a)]
  BY ConcatProperties, LenProperties

LEMMA NumbersJoined ==
  ASSUME NEW a \in Seq(Items), NEW b \in Seq(Items), NEW kinds
  PROVE  Numbers(a \o b, kinds) = Numbers(a, kinds) \cup Numbers(b, kinds)
  <1>1. ASSUME NEW n \in Numbers(a \o b, kinds)
        PROVE  n \in Numbers(a, kinds) \cup Numbers(b, kinds)
    <2>1. PICK i \in DOMAIN (a \o b) : (a \o b)[i].kind \in kinds /\ (a \o b)[i].n = n
      BY DEF Numbers
    <2>2. CASE i \in 1..Len(a)
      BY <2>1, <2>2, Joined DEF Numbers
    <2>3. CASE i \in (Len(a) + 1)..(Len(a) + Len(b))
      BY <2>1, <2>3, Joined DEF Numbers
    <2> QED BY <2>2, <2>3, Joined
  <1>2. ASSUME NEW n \in Numbers(a, kinds) PROVE n \in Numbers(a \o b, kinds)
    <2>1. PICK i \in 1..Len(a) : a[i].kind \in kinds /\ a[i].n = n
      BY Joined DEF Numbers
    <2>2. i \in DOMAIN (a \o b) /\ (a \o b)[i] = a[i]
      BY Joined
    <2> QED BY <2>1, <2>2 DEF Numbers
  <1>3. ASSUME NEW n \in Numbers(b, kinds) PROVE n \in Numbers(a \o b, kinds)
    <2>1. PICK i \in 1..Len(b) : b[i].kind \in kinds /\ b[i].n = n
      BY Joined DEF Numbers
    <2>2. Len(a) + i \in DOMAIN (a \o b) /\ (a \o b)[Len(a) + i] = b[i]
      BY Joined
    <2> QED BY <2>1, <2>2 DEF Numbers
  <1> QED BY <1>1, <1>2, <1>3

LEMMA IncreasingJoined ==
  ASSUME NEW a \in Seq(Items), NEW b \in Seq(Items)
  PROVE  Increasing(a \o b) <=>
           Increasing(a) /\ Increasing(b) /\ Below(Numbers(a, Kinds), Numbers(b, Kinds))
  <1>1. ASSUME Increasing(a \o b) PROVE Increasing(a)
    <2>1. \A i \in 1..Len(a) : i \in DOMAIN (a \o b) /\ (a \o b)[i] = a[i]
      BY Joined
    <2> QED BY <1>1, <2>1, Joined DEF Increasing
  <1>2. ASSUME Increasing(a \o b) PROVE Increasing(b)
    <2>1. \A i \in 1..Len(b) : Len(a) + i \in DOMAIN (a \o b) /\ (a \o b)[Len(a) + i] = b[i]
      BY Joined
    <2> SUFFICES ASSUME NEW i \in 1..Len(b), NEW j \in 1..Len(b), i < j,
                        b[i].kind \in Kinds, b[j].kind \in Kinds
                 PROVE  b[i].n < b[j].n
      BY Joined DEF Increasing
    <2>2. Len(a) + i < Len(a) + j
      BY Joined
    <2> QED BY <1>2, <2>1, <2>2 DEF Increasing
  <1>3. ASSUME Increasing(a \o b) PROVE Below(Numbers(a, Kinds), Numbers(b, Kinds))
    <2> SUFFICES ASSUME NEW m \in Numbers(a, Kinds), NEW n \in Numbers(b, Kinds)
                 PROVE  m < n
      BY DEF Below
    <2>1. PICK i \in 1..Len(a) : a[i].kind \in Kinds /\ a[i].n = m
      BY Joined DEF Numbers
    <2>2. PICK j \in 1..Len(b) : b[j].kind \in Kinds /\ b[j].n = n
      BY Joined DEF Numbers
    <2>3. /\ i \in DOMAIN (a \o b) /\ (a \o b)[i] = a[i]
          /\ Len(a) + j \in DOMAIN (a \o b) /\ (a \o b)[Len(a) + j] = b[j]
          /\ i < Len(a) + j
      BY Joined
    <2> QED BY <1>3, <2>1, <2>2, <2>3 DEF Increasing
  <1>4. ASSUME Increasing(a), Increasing(b), Below(Numbers(a, Kinds), Numbers(b, Kinds))
        PROVE  Increasing(a \o b)
    <2> SUFFICES ASSUME NEW i \in 1..(Len(a) + Len(b)), NEW j \in 1..(Len(a) + Len(b)), i < j,
                        (a \o b)[i].kind \in Kinds, (a \o b)[j].kind \in Kinds
                 PROVE  (a \o b)[i].n < (a \o b)[j].n
      BY Joined DEF Increasing
    <2>1. CASE j \in 1..Len(a)
      <3>1. i \in 1..Len(a)
        BY <2>1, Joined
      <3> QED BY <1>4, <2>1, <3>1, Joined DEF Increasing
    <2>2. CASE i \in 1..Len(a) /\ j \in (Len(a) + 1)..(Len(a) + Len(b))
      <3>1. a[i].n \in Numbers(a, Kinds) /\ (a \o b)[i] = a[i]
        BY <2>2, Joined DEF Numbers
      <3>2. (a \o b)[j].n \in Numbers(b, Kinds)
        BY <2>2, Joined DEF Numbers
      <3> QED BY <1>4, <3>1, <3>2 DEF Below
    <2>3. CASE i \in (Len(a) + 1)..(Len(a) + Len(b))
      <3>1. /\ i - Len(a) \in 1..Len(b) /\ (a \o b)[i] = b[i - Len(a)]
            /\ j - Len(a) \in 1..Len(b) /\ (a \o b)[j] = b[j - Len(a)]
            /\ i - Len(a) < j - Len(a)
        BY <2>3, Joined
      <3> QED BY <1>4, <3>1, Joined DEF Increasing
    <2> QED BY <2>1, <2>2, <2>3, Joined
  <1> QED BY <1>1, <1>2, <1>3, <1>4

LEMMA EmptyLine ==
  /\ <<>> \in Seq(Items) /\ Increasing(<<>>)
  /\ \A kinds : Numbers(<<>>, kinds) = {}
  BY DEF Increasing, Numbers

\* A line of one.
LEMMA OneItem ==
  ASSUME NEW m \in Items
  PROVE  /\ <<m>> \in Seq(Items) /\ Increasing(<<m>>)
         /\ \A kinds : Numbers(<<m>>, kinds) = IF m.kind \in kinds THEN {m.n} ELSE {}
  <1>1. DOMAIN <<m>> = {1} /\ <<m>>[1] = m
    OBVIOUS
  <1> QED BY <1>1 DEF Increasing, Numbers

\* A line of redraws or repeats.
LEMMA NoMessages ==
  ASSUME NEW ext \in Seq(Items), \A i \in DOMAIN ext : ext[i].kind \notin Kinds
  PROVE  /\ Increasing(ext)
         /\ Numbers(ext, Kinds) = {} /\ Numbers(ext, Kinds \ {"ping"}) = {}
  BY DEF Increasing, Numbers

LEMMA HeadAndTail ==
  ASSUME NEW line \in Seq(Items), line # <<>>
  PROVE  /\ Head(line) \in Items /\ Tail(line) \in Seq(Items)
         /\ line = <<Head(line)>> \o Tail(line)
  OBVIOUS

LEMMA Tails ==
  ASSUME NEW line \in Seq(Items), line # <<>>, Increasing(line)
  PROVE  /\ Increasing(Tail(line))
         /\ \A kinds : Numbers(line, kinds) =
              Numbers(Tail(line), kinds)
                \cup (IF Head(line).kind \in kinds THEN {Head(line).n} ELSE {})
         /\ Head(line).kind \in Kinds => Below({Head(line).n}, Numbers(Tail(line), Kinds))
  <1> DEFINE one == <<Head(line)>>
             rest == Tail(line)
  <1>1. /\ Head(line) \in Items /\ rest \in Seq(Items) /\ line = one \o rest
    BY HeadAndTail
  <1>2. /\ one \in Seq(Items)
        /\ \A kinds : Numbers(one, kinds) = IF Head(line).kind \in kinds THEN {Head(line).n} ELSE {}
    BY <1>1, OneItem
  <1> HIDE DEF one, rest
  <1>3. Increasing(rest) /\ Below(Numbers(one, Kinds), Numbers(rest, Kinds))
    BY <1>1, <1>2, IncreasingJoined
  <1>4. \A kinds : Numbers(line, kinds) = Numbers(one, kinds) \cup Numbers(rest, kinds)
    BY <1>1, <1>2, NumbersJoined
  <1> QED BY <1>2, <1>3, <1>4 DEF rest

\* The four lines that make up the pipeline.
LEMMA FourNumbers ==
  ASSUME NEW a \in Seq(Items), NEW b \in Seq(Items), NEW c \in Seq(Items), NEW d \in Seq(Items),
         NEW kinds
  PROVE  Numbers(a \o b \o c \o d, kinds) =
           Numbers(a, kinds) \cup Numbers(b, kinds) \cup Numbers(c, kinds) \cup Numbers(d, kinds)
  <1> DEFINE ab == a \o b
             abc == ab \o c
  <1>1. ab \in Seq(Items) /\ abc \in Seq(Items)
    OBVIOUS
  <1>2. Numbers(ab, kinds) = Numbers(a, kinds) \cup Numbers(b, kinds)
    BY NumbersJoined
  <1>3. Numbers(abc \o d, kinds) = Numbers(abc, kinds) \cup Numbers(d, kinds)
    <2> HIDE DEF abc
    <2> QED BY <1>1, NumbersJoined
  <1> HIDE DEF ab
  <1>4. Numbers(abc, kinds) = Numbers(ab, kinds) \cup Numbers(c, kinds)
    BY <1>1, NumbersJoined
  <1> HIDE DEF abc
  <1>5. Numbers(abc \o d, kinds) =
          Numbers(a, kinds) \cup Numbers(b, kinds) \cup Numbers(c, kinds) \cup Numbers(d, kinds)
    BY <1>2, <1>3, <1>4
  <1> QED BY <1>5 DEF ab, abc

LEMMA FourIncreasing ==
  ASSUME NEW a \in Seq(Items), NEW b \in Seq(Items), NEW c \in Seq(Items), NEW d \in Seq(Items),
         Increasing(a), Increasing(b), Increasing(c), Increasing(d),
         Below(Numbers(a, Kinds), Numbers(b, Kinds) \cup Numbers(c, Kinds) \cup Numbers(d, Kinds)),
         Below(Numbers(b, Kinds), Numbers(c, Kinds) \cup Numbers(d, Kinds)),
         Below(Numbers(c, Kinds), Numbers(d, Kinds))
  PROVE  Increasing(a \o b \o c \o d)
  <1> DEFINE na == Numbers(a, Kinds)
             nb == Numbers(b, Kinds)
             nc == Numbers(c, Kinds)
             nd == Numbers(d, Kinds)
  <1>0. /\ Below(na, nb) /\ Below(na \cup nb, nc) /\ Below((na \cup nb) \cup nc, nd)
    BY DEF Below
  <1> DEFINE ab == a \o b
             abc == ab \o c
  <1>1. ab \in Seq(Items) /\ abc \in Seq(Items)
    OBVIOUS
  <1>2. Numbers(ab, Kinds) = na \cup nb /\ Increasing(ab)
    BY <1>0, NumbersJoined, IncreasingJoined
  <1> HIDE DEF ab
  <1>3. Numbers(abc, Kinds) = (na \cup nb) \cup nc
    BY <1>1, <1>2, NumbersJoined
  <1>4. Increasing(abc)
    BY <1>0, <1>1, <1>2, IncreasingJoined
  <1> HIDE DEF abc
  <1>5. Increasing(abc \o d)
    BY <1>0, <1>1, <1>3, <1>4, IncreasingJoined
  <1> QED BY <1>5 DEF ab, abc
-----------------------------------------------------------------------------
(* What is where.                                                          *)

\* The messages of the four lines and those that left them are all that were
\* sent, none is in two places, and each place is ahead of the one behind it.
Places(d, p, q, s, handled, pongs, acked, total) ==
  /\ 1..total = d \cup p \cup q \cup s \cup handled \cup pongs \cup acked
  /\ (d \cup p \cup q \cup s) \cap (handled \cup pongs \cup acked) = {}
  /\ handled \cap (pongs \cup acked) = {} /\ pongs \cap acked = {}
  /\ Below(d, p \cup q \cup s) /\ Below(p, q \cup s) /\ Below(q, s)
  /\ Below(handled, d \cup p \cup q \cup s)

LEMMA PlacesMove ==
  ASSUME NEW d, NEW p, NEW q, NEW s, NEW handled, NEW pongs, NEW acked, NEW total,
         Places(d, p, q, s, handled, pongs, acked, total)
  PROVE  /\ d = {} => Places(p, {}, q, s, handled, pongs, acked, total)
         /\ Places(d, p, q \cup s, {}, handled, pongs, acked, total)
         /\ Places(d, p, q, s, handled, {}, acked \cup pongs, total)
  BY DEF Places, Below

LEMMA PlacesSend ==
  ASSUME NEW d, NEW p, NEW q, NEW s, NEW handled, NEW pongs, NEW acked, NEW total \in Nat,
         Places(d, p, q, s, handled, pongs, acked, total)
  PROVE  /\ Places(d, p, q, s \cup {total + 1}, handled, pongs, acked, total + 1)
         /\ Below(s, {total + 1})
  <1>1. \A n \in d \cup p \cup q \cup s \cup handled \cup pongs \cup acked : n \in 1..total
    BY DEF Places
  <1>2. \A n \in 1..total : n < total + 1
    OBVIOUS
  <1>3. 1..(total + 1) = (1..total) \cup {total + 1}
    OBVIOUS
  <1> QED BY <1>1, <1>2, <1>3 DEF Places, Below

\* n is the oldest of what was read and goes on, or is a ping.
LEMMA PlacesDispatch ==
  ASSUME NEW d, NEW p, NEW q, NEW s, NEW handled, NEW pongs, NEW acked, NEW total,
         NEW n, NEW rest, q = {n} \cup rest, Below({n}, rest),
         Places(d, p, q, s, handled, pongs, acked, total)
  PROVE  /\ Places(d, p \cup {n}, rest, s, handled, pongs, acked, total)
         /\ Places(d, p, rest, s, handled, pongs \cup {n}, acked, total)
         /\ Below(p, {n})
  <1>1. n \in 1..total /\ n \notin rest
    <2>1. n \in 1..total
      BY DEF Places
    <2> QED BY <2>1 DEF Below
  <1>2. n \notin d /\ n \notin p /\ n \notin s
    <2>1. Below(d, {n}) /\ Below(p, {n}) /\ Below({n}, s)
      BY DEF Places, Below
    <2> QED BY <1>1, <2>1 DEF Below
  <1> QED BY <1>1, <1>2 DEF Places, Below

LEMMA PlacesDeliver ==
  ASSUME NEW d, NEW p, NEW q, NEW s, NEW handled, NEW pongs, NEW acked, NEW total,
         NEW n, NEW rest, d = {n} \cup rest, Below({n}, rest),
         Places(d, p, q, s, handled, pongs, acked, total)
  PROVE  Places(rest, p, q, s, handled \cup {n}, pongs, acked, total)
  <1>1. n \in 1..total /\ n \notin rest
    <2>1. n \in 1..total
      BY DEF Places
    <2> QED BY <2>1 DEF Below
  <1>2. n \notin p /\ n \notin q /\ n \notin s
    <2>1. Below({n}, p \cup q \cup s)
      BY DEF Places, Below
    <2> QED BY <1>1, <2>1 DEF Below
  <1> QED BY <1>1, <1>2 DEF Places, Below
-----------------------------------------------------------------------------
(* The invariant.                                                          *)

InParts ==
  /\ Increasing(drained) /\ Increasing(pending_events)
  /\ Increasing(queue) /\ Increasing(socket)
  /\ Places(Numbers(drained, Kinds), Numbers(pending_events, Kinds),
            Numbers(queue, Kinds), Numbers(socket, Kinds),
            seen, outgoing, answered, sent)

LEMMA Lines ==
  ASSUME TypeOK
  PROVE  /\ drained \in Seq(Items) /\ pending_events \in Seq(Items)
         /\ queue \in Seq(Items) /\ socket \in Seq(Items)
  BY DEF TypeOK, Items

LEMMA PartsMeanOrder == TypeOK /\ InParts => InOrderOnce
  <1> SUFFICES ASSUME TypeOK, InParts PROVE InOrderOnce
    OBVIOUS
  <1>1. /\ Numbers(Pipeline, Kinds) =
             Numbers(drained, Kinds) \cup Numbers(pending_events, Kinds)
               \cup Numbers(queue, Kinds) \cup Numbers(socket, Kinds)
        /\ Increasing(Pipeline)
    <2> DEFINE all == drained \o pending_events \o queue \o socket
    <2>1. Pipeline = all
      BY DEF Pipeline
    <2>2. /\ drained \in Seq(Items) /\ pending_events \in Seq(Items)
          /\ queue \in Seq(Items) /\ socket \in Seq(Items)
      BY Lines
    <2>3. Numbers(all, Kinds) =
            Numbers(drained, Kinds) \cup Numbers(pending_events, Kinds)
              \cup Numbers(queue, Kinds) \cup Numbers(socket, Kinds)
      BY <2>2, FourNumbers
    <2>4. Increasing(all)
      <3>1. /\ Below(Numbers(drained, Kinds), Numbers(pending_events, Kinds)
                       \cup Numbers(queue, Kinds) \cup Numbers(socket, Kinds))
            /\ Below(Numbers(pending_events, Kinds),
                     Numbers(queue, Kinds) \cup Numbers(socket, Kinds))
            /\ Below(Numbers(queue, Kinds), Numbers(socket, Kinds))
        BY DEF InParts, Places
      <3> QED BY <2>2, <3>1, FourIncreasing DEF InParts
    <2> QED BY <2>1, <2>3, <2>4
  <1> QED BY <1>1 DEF InOrderOnce, Increasing, InParts, Places, Below

\* The redraws and the repeats queued by the drains carry no message.
LEMMA DrainsCarryNothing ==
  ASSUME TypeOK, DrainRedrawRequests \/ DrainKeyRepeats
  PROVE  /\ Increasing(pending_events) => Increasing(pending_events')
         /\ \A kinds \in SUBSET Kinds :
              Numbers(pending_events', kinds) = Numbers(pending_events, kinds)
  <1>1. PICK ext \in Seq(Items) :
          /\ pending_events' = pending_events \o ext
          /\ \A i \in DOMAIN ext : ext[i].kind \notin Kinds
    <2>1. CASE DrainRedrawRequests
      <3>1. PICK o \in Orders(needs_redraw) :
              pending_events' = pending_events \o [i \in DOMAIN o |-> RedrawEvent(o[i])]
        BY <2>1 DEF DrainRedrawRequests
      <3> DEFINE ext == [i \in DOMAIN o |-> RedrawEvent(o[i])]
      <3>2. ext \in Seq(Events)
        BY RedrawsAreEvents DEF TypeOK
      <3>3. \A i \in DOMAIN ext : ext[i].kind \notin Kinds
        BY DEF RedrawEvent, Kinds
      <3> HIDE DEF ext
      <3>4. ext \in Seq(Items)
        BY <3>2 DEF Items
      <3> QED BY <3>1, <3>3, <3>4 DEF ext
    <2>2. CASE DrainKeyRepeats
      <3>1. PICK due \in 0..(IF repeating THEN MaxTicks ELSE 0) :
              pending_events' = pending_events \o [i \in 1..due |-> RepeatEvent]
        BY <2>2 DEF DrainKeyRepeats
      <3> DEFINE ext == [i \in 1..due |-> RepeatEvent]
      <3>2. RepeatEvent \in Items /\ RepeatEvent.kind \notin Kinds
        BY DEF RepeatEvent, Items, Events, Kinds
      <3>3. ext \in Seq(Items) /\ \A i \in DOMAIN ext : ext[i].kind \notin Kinds
        BY <3>2
      <3> QED BY <3>1, <3>3
    <2> QED BY <2>1, <2>2
  <1>2. Increasing(ext) /\ \A kinds \in SUBSET Kinds : Numbers(ext, kinds) = {}
    BY <1>1 DEF Increasing, Numbers
  <1>3. ASSUME NEW kinds \in SUBSET Kinds
        PROVE  Numbers(pending_events', kinds) = Numbers(pending_events, kinds)
    <2>1. Numbers(pending_events \o ext, kinds) =
            Numbers(pending_events, kinds) \cup Numbers(ext, kinds)
      BY Lines, NumbersJoined
    <2> QED BY <1>1, <1>2, <2>1
  <1>4. Below(Numbers(pending_events, Kinds), Numbers(ext, Kinds))
    BY <1>2 DEF Below
  <1>5. Increasing(pending_events) => Increasing(pending_events')
    BY <1>1, <1>2, <1>4, Lines, IncreasingJoined
  <1> QED BY <1>3, <1>5

\* A message moves to pending_events, or stays out of it if it is a ping.
LEMMA DispatchMoves ==
  ASSUME TypeOK, InParts, DispatchPending
  PROVE  LET m == Head(queue)
         IN /\ m \in Messages /\ queue # <<>> /\ queue' = Tail(queue)
            /\ UNCHANGED <<drained, socket, seen, answered, sent>>
            /\ m.kind = "ping" => pending_events' = pending_events /\ outgoing' = outgoing \cup {m.n}
            /\ m.kind # "ping" =>
                 /\ outgoing' = outgoing
                 /\ pending_events' = pending_events \o <<m>>
                 /\ \A kinds : Numbers(pending_events', kinds) =
                      Numbers(pending_events, kinds)
                        \cup (IF m.kind \in kinds THEN {m.n} ELSE {})
            /\ Increasing(queue')
            /\ Below({m.n}, Numbers(queue', Kinds))
            /\ \A kinds : Numbers(queue, kinds) =
                 Numbers(queue', kinds) \cup (IF m.kind \in kinds THEN {m.n} ELSE {})
  <1> DEFINE m == Head(queue)
  <1>1. /\ queue # <<>> /\ queue' = Tail(queue) /\ Dispatch(m)
        /\ UNCHANGED <<drained, socket, seen, answered, sent>>
    BY DEF DispatchPending, wire, history
  <1>2. m \in Messages /\ m \in Items /\ m.kind \in Kinds
    <2>1. m \in Messages
      BY <1>1 DEF TypeOK
    <2> HIDE DEF m
    <2> QED BY <2>1 DEF Items, Messages
  <1>3. /\ Increasing(queue')
        /\ \A kinds : Numbers(queue, kinds) =
             Numbers(queue', kinds) \cup (IF m.kind \in kinds THEN {m.n} ELSE {})
        /\ Below({m.n}, Numbers(queue', Kinds))
    BY <1>1, <1>2, Lines, Tails DEF InParts
  <1> HIDE DEF m
  <1>4. m.kind = "ping" => pending_events' = pending_events /\ outgoing' = outgoing \cup {m.n}
    BY <1>1 DEF Dispatch, Pong
  <1>5. ASSUME m.kind # "ping"
        PROVE  /\ outgoing' = outgoing
               /\ pending_events' = pending_events \o <<m>>
               /\ \A kinds : Numbers(pending_events', kinds) =
                    Numbers(pending_events, kinds)
                      \cup (IF m.kind \in kinds THEN {m.n} ELSE {})
    <2>1. outgoing' = outgoing /\ pending_events' = Append(pending_events, m)
      BY <1>1, <1>5 DEF Dispatch, PushEvent
    <2>2. pending_events' = pending_events \o <<m>>
      BY <1>2, <2>1, Lines
    <2>3. <<m>> \in Seq(Items)
      BY <1>2, OneItem
    <2>4. ASSUME NEW kinds
          PROVE  Numbers(pending_events', kinds) =
                   Numbers(pending_events, kinds)
                     \cup (IF m.kind \in kinds THEN {m.n} ELSE {})
      <3> DEFINE one == <<m>>
      <3>1. Numbers(one, kinds) = IF m.kind \in kinds THEN {m.n} ELSE {}
        BY <1>2, OneItem
      <3>2. one \in Seq(Items) /\ pending_events' = pending_events \o one
        BY <2>2, <2>3
      <3> HIDE DEF one
      <3>3. Numbers(pending_events \o one, kinds) =
              Numbers(pending_events, kinds) \cup Numbers(one, kinds)
        BY <3>2, Lines, NumbersJoined
      <3> QED BY <3>1, <3>2, <3>3
    <2> QED BY <2>1, <2>2, <2>4
  <1> QED BY <1>1, <1>2, <1>3, <1>4, <1>5 DEF m

\* A read that the wl_display still does.
Reads == (PumpRead \/ OtherReaderReads) /\ ReadSocket

\* Whoever reads the socket fills the queue.
LEMMA ReadMoves ==
  ASSUME TypeOK, Reads
  PROVE  /\ UNCHANGED <<drained, pending_events, seen, outgoing, answered, sent>>
         /\ queue' = queue \o socket /\ socket' = <<>>
         /\ \A kinds : /\ Numbers(queue', kinds) = Numbers(queue, kinds) \cup Numbers(socket, kinds)
                       /\ Numbers(socket', kinds) = {}
  <1>1. /\ UNCHANGED <<drained, pending_events, seen, outgoing, answered, sent>>
        /\ queue' = queue \o socket /\ socket' = <<>>
    BY DEF Reads, ReadSocket, PumpRead, OtherReaderReads, loop, history
  <1>2. ASSUME NEW kinds
        PROVE  /\ Numbers(queue', kinds) = Numbers(queue, kinds) \cup Numbers(socket, kinds)
               /\ Numbers(socket', kinds) = {}
    BY <1>1, Lines, NumbersJoined, EmptyLine
  <1> QED BY <1>1, <1>2

LEMMA SendAppends ==
  ASSUME TypeOK, Increasing(socket), NEW kind \in WireKinds, CompositorSends(kind)
  PROVE  /\ UNCHANGED <<drained, pending_events, queue, seen, outgoing, answered>>
         /\ sent' = sent + 1 /\ socket' \in Seq(Items)
         /\ Numbers(socket', Kinds) = Numbers(socket, Kinds) \cup {sent + 1}
         /\ Below(Numbers(socket, Kinds), {sent + 1}) => Increasing(socket')
         /\ \A kinds : Numbers(socket', kinds) =
              Numbers(socket, kinds) \cup (IF kind \in kinds THEN {sent + 1} ELSE {})
  <1> DEFINE m == [kind |-> kind, n |-> sent + 1]
             one == <<m>>
  <1>1. /\ UNCHANGED <<drained, pending_events, queue, seen, outgoing, answered>>
        /\ sent' = sent + 1 /\ socket' = Append(socket, m) /\ sent + 1 \in 1..MaxWire
    <2>1. /\ UNCHANGED <<drained, pending_events, queue, seen, outgoing, answered>>
          /\ sent' = sent + 1 /\ socket' = Append(socket, m) /\ sent < MaxWire
      BY DEF CompositorSends, loop, history
    <2>2. sent \in 0..MaxWire
      BY DEF TypeOK
    <2> HIDE DEF m
    <2> QED BY <2>1, <2>2, ConstantsAssumption
  <1>2. m \in Items /\ m.kind = kind /\ m.n = sent + 1 /\ kind \in Kinds
    <2>1. kind \in Kinds /\ sent + 1 \in 1..MaxWire
      BY <1>1, ConstantsAssumption
    <2>2. m \in Messages
      BY <2>1 DEF Messages
    <2> QED BY <2>1, <2>2 DEF Items
  <1> HIDE DEF m
  <1>3. socket' = socket \o one
    BY <1>1, <1>2, Lines
  <1>4. /\ one \in Seq(Items) /\ Increasing(one)
        /\ \A kinds : Numbers(one, kinds) = IF kind \in kinds THEN {sent + 1} ELSE {}
    BY <1>2, OneItem
  <1> HIDE DEF one
  <1>5. ASSUME NEW kinds
        PROVE  Numbers(socket', kinds) =
                 Numbers(socket, kinds) \cup (IF kind \in kinds THEN {sent + 1} ELSE {})
    <2>1. Numbers(socket \o one, kinds) = Numbers(socket, kinds) \cup Numbers(one, kinds)
      BY <1>4, Lines, NumbersJoined
    <2> QED BY <1>3, <1>4, <2>1
  <1>6. Below(Numbers(socket, Kinds), {sent + 1}) => Increasing(socket \o one)
    BY <1>2, <1>4, Lines, IncreasingJoined
  <1>7. socket' \in Seq(Items)
    BY <1>3, <1>4, Lines
  <1> QED BY <1>1, <1>2, <1>3, <1>5, <1>6, <1>7

\* The steps that move messages, and those that do not.
LEMMA QuietSteps ==
  ASSUME [Next]_vars
  PROVE  \/ Take \/ Reads \/ Flush
         \/ DrainRedrawRequests \/ DrainKeyRepeats \/ DispatchPending \/ Deliver
         \/ \E kind \in WireKinds : CompositorSends(kind)
         \/ UNCHANGED <<drained, pending_events, queue, socket, seen, outgoing, answered, sent>>
  <1>1. CASE \/ Resumed \/ Top \/ UserEvent \/ UsersDrained \/ ComputeTimeout \/ PumpCheck
             \/ PumpDispatched \/ PumpTimeout \/ Delivered \/ AboutToWait \/ Exiting
    BY <1>1 DEF Resumed, Top, UserEvent, UsersDrained, ComputeTimeout, PumpCheck,
       PumpDispatched, PumpTimeout, Delivered, AboutToWait, Exiting, wire, history
  <1>2. CASE CompositorDies \/ ProxySend \/ (\E s \in Surfaces : ThreadRequestsRedraw(s))
    BY <1>2 DEF CompositorDies, ProxySend, ThreadRequestsRedraw, loop, wire, history
  <1>3. CASE Terminated \/ UNCHANGED vars
    BY <1>3 DEF Terminated, vars, loop, wire, history
  <1>4. CASE PumpRead \/ OtherReaderReads
    BY <1>4 DEF Reads, PumpRead, OtherReaderReads, history
  <1> QED BY <1>1, <1>2, <1>3, <1>4 DEF Next, RunApp, Environment

\* No step loses, doubles or reorders a message.
LEMMA PartsStep ==
  ASSUME TypeOK, OneLine, InParts, [Next]_vars
  PROVE  InParts'
  <1> DEFINE d == Numbers(drained, Kinds)
             p == Numbers(pending_events, Kinds)
             q == Numbers(queue, Kinds)
             s == Numbers(socket, Kinds)
  <1>1. /\ Increasing(drained) /\ Increasing(pending_events)
        /\ Increasing(queue) /\ Increasing(socket)
        /\ Places(d, p, q, s, seen, outgoing, answered, sent)
    BY DEF InParts
  <1>2. CASE Take
    <2>1. /\ drained = <<>> /\ drained' = pending_events /\ pending_events' = <<>>
          /\ UNCHANGED <<queue, socket, seen, outgoing, answered, sent>>
      BY <1>2 DEF Take, TakePending, OneLine, wire, history
    <2>2. d = {} /\ d' = p /\ p' = {} /\ q' = q /\ s' = s
      BY <2>1, EmptyLine
    <2>3. /\ Increasing(drained') /\ Increasing(pending_events')
          /\ Increasing(queue') /\ Increasing(socket')
      BY <1>1, <2>1, EmptyLine
    <2> HIDE DEF d, p, q, s
    <2>4. Places(p, {}, q, s, seen, outgoing, answered, sent)
      BY <1>1, <2>2, PlacesMove
    <2>5. Places(d', p', q', s', seen', outgoing', answered', sent')
      BY <2>1, <2>2, <2>4
    <2> QED BY <2>3, <2>5 DEF InParts, d, p, q, s
  <1>3. CASE Reads
    <2>1. /\ UNCHANGED <<drained, pending_events, seen, outgoing, answered, sent>>
          /\ queue' = queue \o socket /\ socket' = <<>>
          /\ d' = d /\ p' = p /\ q' = q \cup s /\ s' = {}
      BY <1>3, ReadMoves
    <2>2. Increasing(queue \o socket)
      BY <1>1, Lines, IncreasingJoined DEF Places
    <2>3. /\ Increasing(drained') /\ Increasing(pending_events')
          /\ Increasing(queue') /\ Increasing(socket')
      BY <1>1, <2>1, <2>2, EmptyLine
    <2> HIDE DEF d, p, q, s
    <2>4. Places(d, p, q \cup s, {}, seen, outgoing, answered, sent)
      BY <1>1, PlacesMove
    <2>5. Places(d', p', q', s', seen', outgoing', answered', sent')
      BY <2>1, <2>4
    <2> QED BY <2>3, <2>5 DEF InParts, d, p, q, s
  <1>4. CASE Flush
    <2>1. /\ UNCHANGED <<drained, pending_events, queue, socket, seen, sent>>
          /\ \/ answered' = answered \cup outgoing /\ outgoing' = {}
             \/ UNCHANGED <<answered, outgoing>>
      BY <1>4 DEF Flush, wire
    <2>2. d' = d /\ p' = p /\ q' = q /\ s' = s
      BY <2>1
    <2>3. Increasing(drained') /\ Increasing(pending_events')
          /\ Increasing(queue') /\ Increasing(socket')
      BY <1>1, <2>1
    <2> HIDE DEF d, p, q, s
    <2>4. Places(d, p, q, s, seen, {}, answered \cup outgoing, sent)
      BY <1>1, PlacesMove
    <2>5. Places(d', p', q', s', seen', outgoing', answered', sent')
      BY <1>1, <2>1, <2>2, <2>4
    <2> QED BY <2>3, <2>5 DEF InParts, d, p, q, s
  <1>5. CASE DrainRedrawRequests \/ DrainKeyRepeats
    <2>1. UNCHANGED <<drained, queue, socket, seen, outgoing, answered, sent>>
      BY <1>5 DEF DrainRedrawRequests, DrainKeyRepeats, wire, history
    <2>2. d' = d /\ p' = p /\ q' = q /\ s' = s
      BY <1>5, <2>1, DrainsCarryNothing
    <2>3. Increasing(drained') /\ Increasing(pending_events')
          /\ Increasing(queue') /\ Increasing(socket')
      BY <1>1, <1>5, <2>1, DrainsCarryNothing
    <2> HIDE DEF d, p, q, s
    <2>4. Places(d', p', q', s', seen', outgoing', answered', sent')
      BY <1>1, <2>1, <2>2
    <2> QED BY <2>3, <2>4 DEF InParts, d, p, q, s
  <1>6. CASE DispatchPending
    <2> DEFINE m == Head(queue)
    <2>1. /\ m \in Messages /\ m.kind \in Kinds
          /\ UNCHANGED <<drained, socket, seen, answered, sent>>
          /\ Increasing(queue') /\ Below({m.n}, q') /\ q = {m.n} \cup q'
      <3>1. Head(queue).kind \in Kinds
        BY <1>6, DispatchMoves DEF Messages
      <3> QED BY <1>6, <3>1, DispatchMoves
    <2>2. m.kind = "ping" => pending_events' = pending_events /\ outgoing' = outgoing \cup {m.n}
      BY <1>6, DispatchMoves
    <2>3. m.kind # "ping" =>
            /\ outgoing' = outgoing /\ pending_events' = pending_events \o <<m>>
            /\ p' = p \cup {m.n}
      BY <1>6, <2>1, DispatchMoves
    <2> HIDE DEF m
    <2>4. d' = d /\ s' = s
      BY <2>1
    <2>5. Increasing(drained') /\ Increasing(socket')
      BY <1>1, <2>1
    <2>6. /\ Places(d, p \cup {m.n}, q', s, seen, outgoing, answered, sent)
          /\ Places(d, p, q', s, seen, outgoing \cup {m.n}, answered, sent)
          /\ Below(p, {m.n})
      <3> HIDE DEF d, p, q, s
      <3> QED BY <1>1, <2>1, PlacesDispatch
    <2>7. CASE m.kind = "ping"
      <3>1. p' = p /\ Increasing(pending_events')
        BY <1>1, <2>2, <2>7
      <3> HIDE DEF d, p, q, s
      <3>2. Places(d', p', q', s', seen', outgoing', answered', sent')
        BY <2>1, <2>2, <2>4, <2>6, <2>7, <3>1
      <3> QED BY <2>1, <2>5, <3>1, <3>2 DEF InParts, d, p, q, s
    <2>8. CASE m.kind # "ping"
      <3>1. Increasing(pending_events')
        <4> DEFINE one == <<m>>
        <4>1. one \in Seq(Items) /\ Increasing(one) /\ Numbers(one, Kinds) = {m.n}
          BY <2>1, OneItem DEF Items
        <4>2. pending_events' = pending_events \o one
          BY <2>3, <2>8
        <4> HIDE DEF one
        <4> QED BY <1>1, <2>6, <4>1, <4>2, Lines, IncreasingJoined
      <3> HIDE DEF d, p, q, s
      <3>2. Places(d', p', q', s', seen', outgoing', answered', sent')
        BY <2>1, <2>3, <2>4, <2>6, <2>8
      <3> QED BY <2>1, <2>5, <3>1, <3>2 DEF InParts, d, p, q, s
    <2> QED BY <2>7, <2>8
  <1>7. CASE Deliver
    <2> DEFINE e == Head(drained)
    <2>1. /\ drained # <<>> /\ drained' = Tail(drained)
          /\ UNCHANGED <<pending_events, queue, socket, outgoing, answered, sent>>
          /\ seen' = IF e.kind \in Kinds THEN seen \cup {e.n} ELSE seen
      BY <1>7 DEF Deliver, wire
    <2>2. /\ Increasing(drained')
          /\ d = d' \cup (IF e.kind \in Kinds THEN {e.n} ELSE {})
          /\ e.kind \in Kinds => Below({e.n}, d')
      BY <1>1, <2>1, Lines, Tails
    <2>3. p' = p /\ q' = q /\ s' = s
      BY <2>1
    <2>4. Increasing(pending_events') /\ Increasing(queue') /\ Increasing(socket')
      BY <1>1, <2>1
    <2> HIDE DEF d, p, q, s, e
    <2>5. CASE e.kind \in Kinds
      <3>1. d = {e.n} \cup d'
        BY <2>2, <2>5
      <3>2. Places(d', p, q, s, seen \cup {e.n}, outgoing, answered, sent)
        BY <1>1, <2>2, <2>5, <3>1, PlacesDeliver
      <3>3. Places(d', p', q', s', seen', outgoing', answered', sent')
        BY <2>1, <2>3, <2>5, <3>2
      <3> QED BY <2>2, <2>4, <3>3 DEF InParts, d, p, q, s
    <2>6. CASE e.kind \notin Kinds
      <3>1. d' = d
        BY <2>2, <2>6
      <3>2. Places(d', p', q', s', seen', outgoing', answered', sent')
        BY <1>1, <2>1, <2>3, <2>6, <3>1
      <3> QED BY <2>2, <2>4, <3>2 DEF InParts, d, p, q, s
    <2> QED BY <2>5, <2>6
  <1>8. ASSUME NEW kind \in WireKinds, CompositorSends(kind)
        PROVE  InParts'
    <2>1. /\ UNCHANGED <<drained, pending_events, queue, seen, outgoing, answered>>
          /\ sent' = sent + 1 /\ s' = s \cup {sent + 1} /\ socket' \in Seq(Items)
          /\ Below(s, {sent + 1}) => Increasing(socket')
      BY <1>1, <1>8, SendAppends
    <2>2. d' = d /\ p' = p /\ q' = q
      BY <2>1
    <2>3. Increasing(drained') /\ Increasing(pending_events') /\ Increasing(queue')
      BY <1>1, <2>1
    <2> HIDE DEF d, p, q, s
    <2>4. /\ Places(d, p, q, s \cup {sent + 1}, seen, outgoing, answered, sent + 1)
          /\ Below(s, {sent + 1})
      <3>1. sent \in Nat
        BY DEF TypeOK
      <3> QED BY <1>1, <3>1, PlacesSend
    <2>5. Places(d', p', q', s', seen', outgoing', answered', sent')
      BY <2>1, <2>2, <2>4
    <2> QED BY <2>1, <2>3, <2>4, <2>5 DEF InParts, d, p, q, s
  <1>9. CASE UNCHANGED <<drained, pending_events, queue, socket, seen, outgoing, answered, sent>>
    BY <1>9 DEF InParts
  <1> QED BY <1>2, <1>3, <1>4, <1>5, <1>6, <1>7, <1>8, <1>9, QuietSteps
-----------------------------------------------------------------------------
(* Once, in order.                                                         *)

DeliveryInv == TypeOK /\ OneLine /\ InParts

LEMMA DeliveryInvariance == Spec => []DeliveryInv
  <1>1. Init => OneLine /\ InParts
    <2> SUFFICES ASSUME Init PROVE OneLine /\ InParts
      OBVIOUS
    <2>1. /\ drained = <<>> /\ pending_events = <<>> /\ queue = <<>> /\ socket = <<>>
          /\ seen = {} /\ outgoing = {} /\ answered = {} /\ sent = 0
      BY DEF Init
    <2>2. Places({}, {}, {}, {}, {}, {}, {}, 0)
      BY DEF Places, Below
    <2>3. OneLine
      BY DEF Init, OneLine
    <2> QED BY <2>1, <2>2, <2>3, EmptyLine DEF InParts
  <1>2. TypeOK /\ (OneLine /\ InParts) /\ [Next]_vars => (OneLine /\ InParts)'
    BY OneLineStep, PartsStep
  <1> QED BY <1>1, <1>2, TypeCorrect, PTL DEF Spec, DeliveryInv

\* Every message of the compositor is handed over or answered, once and in the
\* order it was sent, or is still on its way (blocking_pump, the dispatchers,
\* the two takes and run_app's delivery).
THEOREM DeliveredOnce == Spec => []InOrderOnce
  <1>1. DeliveryInv => InOrderOnce
    BY PartsMeanOrder DEF DeliveryInv
  <1> QED BY <1>1, DeliveryInvariance, PTL
-----------------------------------------------------------------------------
(* run_app implements the inbox.                                           *)

\* The numbers of the events in a line: of its messages that are no pings.
Waits(line) == Numbers(line, Kinds \ {"ping"})

\* What EventDelivery's variables stand for.
Inbox == Numbers(Pipeline, Kinds \ {"ping"})
Last == IF seen = {} THEN 0 ELSE CHOOSE n \in seen : \A m \in seen : m <= n
Phase == IF pc = "returned" THEN "returned"
         ELSE IF exit_requested THEN "exiting" ELSE "running"

\* run_app leaves its loop only when it was asked to.
AskedToExit == pc \in {"exiting", "returned"} => exit_requested

LEMMA AskedStep == AskedToExit /\ [Next]_vars => AskedToExit'
  <1> SUFFICES ASSUME AskedToExit, [Next]_vars PROVE AskedToExit'
    OBVIOUS
  <1>1. CASE RunApp
    BY <1>1 DEF AskedToExit, RunApp, AfterCallback, Callback,
       Resumed, Top, UserEvent, UsersDrained, Flush, DrainRedrawRequests,
       DrainKeyRepeats, ComputeTimeout, DispatchPending, PumpCheck, PumpRead,
       PumpDispatched, PumpTimeout, Take, Deliver, Delivered, AboutToWait, Exiting
  <1>2. CASE Environment \/ Terminated \/ UNCHANGED vars
    BY <1>2 DEF AskedToExit, Environment, Terminated, vars, loop, CompositorSends,
       CompositorDies, ProxySend, ThreadRequestsRedraw, OtherReaderReads
  <1> QED BY <1>1, <1>2 DEF Next

\* The phases follow one another.
PhaseGoesOn ==
  \/ Phase' = Phase
  \/ Phase = "running" /\ Phase' = "exiting"
  \/ Phase = "exiting" /\ Phase' = "returned"

LEMMA PhaseStep ==
  ASSUME TypeOK, AskedToExit, [Next]_vars
  PROVE  PhaseGoesOn
  <1>1. exit_requested \in BOOLEAN
    BY DEF TypeOK
  <1>2. exit_requested => exit_requested'
    <2>1. CASE RunApp
      BY <2>1 DEF RunApp, Callback,
         Resumed, Top, UserEvent, UsersDrained, Flush, DrainRedrawRequests,
         DrainKeyRepeats, ComputeTimeout, DispatchPending, PumpCheck, PumpRead,
         PumpDispatched, PumpTimeout, Take, Deliver, Delivered, AboutToWait, Exiting
    <2>2. CASE Environment \/ Terminated \/ UNCHANGED vars
      BY <2>2 DEF Environment, Terminated, vars, loop, CompositorSends,
         CompositorDies, ProxySend, ThreadRequestsRedraw, OtherReaderReads
    <2> QED BY <2>1, <2>2 DEF Next
  <1>3. \/ pc = "returned" <=> pc' = "returned"
        \/ pc = "exiting" /\ pc' = "returned" /\ exit_requested
    <2>1. CASE RunApp
      BY <2>1 DEF RunApp, AfterCallback, AskedToExit,
         Resumed, Top, UserEvent, UsersDrained, Flush, DrainRedrawRequests,
         DrainKeyRepeats, ComputeTimeout, DispatchPending, PumpCheck, PumpRead,
         PumpDispatched, PumpTimeout, Take, Deliver, Delivered, AboutToWait, Exiting
    <2>2. CASE Environment \/ Terminated \/ UNCHANGED vars
      BY <2>2 DEF Environment, Terminated, vars, loop, CompositorSends,
         CompositorDies, ProxySend, ThreadRequestsRedraw, OtherReaderReads
    <2> QED BY <2>1, <2>2 DEF Next
  <1> QED BY <1>1, <1>2, <1>3 DEF Phase, PhaseGoesOn

LEMMA InboxParts ==
  /\ TypeOK => Inbox = Waits(drained) \cup Waits(pending_events) \cup Waits(queue) \cup Waits(socket)
  /\ TypeOK' => Inbox' = Waits(drained') \cup Waits(pending_events')
                           \cup Waits(queue') \cup Waits(socket')
  <1>1. ASSUME TypeOK
        PROVE  Inbox = Waits(drained) \cup Waits(pending_events) \cup Waits(queue) \cup Waits(socket)
    <2>1. Numbers(drained \o pending_events \o queue \o socket, Kinds \ {"ping"}) =
            Waits(drained) \cup Waits(pending_events) \cup Waits(queue) \cup Waits(socket)
      BY <1>1, Lines, FourNumbers DEF Waits
    <2> QED BY <2>1 DEF Inbox, Pipeline
  <1>2. ASSUME TypeOK'
        PROVE  Inbox' = Waits(drained') \cup Waits(pending_events')
                          \cup Waits(queue') \cup Waits(socket')
    <2>1. /\ drained' \in Seq(Items) /\ pending_events' \in Seq(Items)
          /\ queue' \in Seq(Items) /\ socket' \in Seq(Items)
      BY <1>2 DEF TypeOK, Items
    <2>2. Numbers(drained' \o pending_events' \o queue' \o socket', Kinds \ {"ping"}) =
            Waits(drained') \cup Waits(pending_events') \cup Waits(queue') \cup Waits(socket')
      BY <2>1, FourNumbers DEF Waits
    <2> QED BY <2>2 DEF Inbox, Pipeline
  <1> QED BY <1>1, <1>2

\* A step that hands over and posts nothing leaves the inbox alone.
LEMMA InboxStays ==
  ASSUME TypeOK, TypeOK', OneLine, InParts,
         \/ Take \/ Reads \/ Flush \/ DispatchPending
         \/ DrainRedrawRequests \/ DrainKeyRepeats
         \/ UNCHANGED <<drained, pending_events, queue, socket, seen, outgoing, answered, sent>>
  PROVE  UNCHANGED <<Inbox, seen, sent>>
  <1> DEFINE all == Waits(drained) \cup Waits(pending_events) \cup Waits(queue) \cup Waits(socket)
  <1>1. CASE Take
    <2>1. /\ drained = <<>> /\ drained' = pending_events /\ pending_events' = <<>>
          /\ UNCHANGED <<queue, socket, seen, sent>>
      BY <1>1 DEF Take, TakePending, OneLine, wire, history
    <2>2. Waits(drained) = {} /\ Waits(pending_events') = {}
      BY <2>1, EmptyLine DEF Waits
    <2>3. all' = all
      BY <2>1, <2>2
    <2> QED BY <2>1, <2>3, InboxParts
  <1>2. CASE Reads
    <2>1. /\ UNCHANGED <<drained, pending_events, seen, sent>>
          /\ Waits(queue') = Waits(queue) \cup Waits(socket) /\ Waits(socket') = {}
      BY <1>2, ReadMoves DEF Waits
    <2>2. all' = all
      BY <2>1
    <2> QED BY <2>1, <2>2, InboxParts
  <1>3. CASE DrainRedrawRequests \/ DrainKeyRepeats
    <2>1. UNCHANGED <<drained, queue, socket, seen, sent>>
      BY <1>3 DEF DrainRedrawRequests, DrainKeyRepeats, wire, history
    <2>2. Waits(pending_events') = Waits(pending_events)
      BY <1>3, DrainsCarryNothing DEF Waits
    <2>3. all' = all
      BY <2>1, <2>2
    <2> QED BY <2>1, <2>3, InboxParts
  <1>4. CASE DispatchPending
    <2> DEFINE m == Head(queue)
               n == IF m.kind \in Kinds \ {"ping"} THEN {m.n} ELSE {}
    <2>1. /\ UNCHANGED <<drained, socket, seen, sent>>
          /\ Waits(queue) = Waits(queue') \cup n
      BY <1>4, DispatchMoves DEF Waits
    <2>2. Waits(pending_events') = Waits(pending_events) \cup n
      <3>1. CASE m.kind = "ping"
        <4>1. pending_events' = pending_events
          BY <1>4, <3>1, DispatchMoves
        <4> QED BY <3>1, <4>1
      <3>2. CASE m.kind # "ping"
        BY <1>4, <3>2, DispatchMoves DEF Waits
      <3> QED BY <3>1, <3>2
    <2> HIDE DEF n
    <2>3. all' = all
      BY <2>1, <2>2
    <2> QED BY <2>1, <2>3, InboxParts
  <1>5. CASE Flush
    BY <1>5 DEF Flush, Inbox, Pipeline, wire
  <1>6. CASE UNCHANGED <<drained, pending_events, queue, socket, seen, outgoing, answered, sent>>
    BY <1>6 DEF Inbox, Pipeline
  <1> QED BY <1>1, <1>2, <1>3, <1>4, <1>5, <1>6

\* A message enters the inbox unless it is a ping.
LEMMA SendPosts ==
  ASSUME TypeOK, TypeOK', InParts, NEW kind \in WireKinds, CompositorSends(kind)
  PROVE  /\ sent' = sent + 1 /\ sent + 1 \in (sent + 1)..MaxWire
         /\ Inbox' = Inbox \/ Inbox' = Inbox \cup {sent + 1}
         /\ UNCHANGED <<seen, Phase>>
  <1>1. /\ UNCHANGED <<drained, pending_events, queue, seen>> /\ sent' = sent + 1
        /\ Waits(socket') = Waits(socket)
                              \cup (IF kind \in Kinds \ {"ping"} THEN {sent + 1} ELSE {})
    BY SendAppends DEF InParts, Waits
  <1>2. Inbox' = Inbox \/ Inbox' = Inbox \cup {sent + 1}
    BY <1>1, InboxParts
  <1>3. sent + 1 \in (sent + 1)..MaxWire
    <2>1. sent \in 0..MaxWire /\ sent < MaxWire
      BY DEF TypeOK, CompositorSends
    <2> QED BY <2>1, ConstantsAssumption
  <1>4. Phase' = Phase
    BY DEF CompositorSends, loop, Phase
  <1> QED BY <1>1, <1>2, <1>3, <1>4

LEMMA MessagesWait ==
  ASSUME NEW line
  PROVE  Waits(line) \subseteq Numbers(line, Kinds)
  BY DEF Waits, Numbers

\* The oldest event of the inbox is handed over, or one that is no message.
LEMMA DeliverHandsOver ==
  ASSUME TypeOK, TypeOK', InParts, ExitIsSeen, Deliver
  PROVE  /\ sent' = sent /\ Phase = "running" /\ Phase' \in {"running", "exiting"}
         /\ \/ UNCHANGED <<Inbox, seen>>
            \/ \E n \in Inbox :
                 /\ \A m \in Inbox : n <= m
                 /\ Inbox' = Inbox \ {n} /\ seen' = seen \cup {n}
                 /\ Below(seen, {n}) /\ n \in Nat /\ seen \subseteq Nat
  <1> DEFINE e == Head(drained)
             rest == Waits(pending_events) \cup Waits(queue) \cup Waits(socket)
             later == Numbers(pending_events, Kinds) \cup Numbers(queue, Kinds)
                        \cup Numbers(socket, Kinds)
  <1>1. /\ pc = "deliver" /\ drained # <<>> /\ drained' = Tail(drained)
        /\ UNCHANGED <<pending_events, queue, socket, sent>>
        /\ seen' = IF e.kind \in Kinds THEN seen \cup {e.n} ELSE seen
        /\ pc' \in {"deliver", "exiting"}
    BY DEF Deliver, AfterCallback, wire
  <1>2. e \in Events
    BY <1>1 DEF TypeOK
  <1>3. /\ e.kind \in Kinds => e.kind # "ping" /\ e.n \in 1..MaxWire
    BY <1>2, EventKinds
  <1>4. /\ Waits(drained) =
             Waits(drained') \cup (IF e.kind \in Kinds \ {"ping"} THEN {e.n} ELSE {})
        /\ Numbers(drained, Kinds) =
             Numbers(drained', Kinds) \cup (IF e.kind \in Kinds THEN {e.n} ELSE {})
        /\ e.kind \in Kinds => Below({e.n}, Numbers(drained', Kinds))
    BY <1>1, Lines, Tails DEF InParts, Waits
  <1>5. /\ Below(Numbers(drained, Kinds), later) /\ Below(seen, Numbers(drained, Kinds))
        /\ seen \subseteq Nat
    BY DEF InParts, Places, Below, TypeOK
  <1>6. /\ Waits(drained') \subseteq Numbers(drained', Kinds) /\ rest \subseteq later
    BY MessagesWait
  <1>7. Inbox = Waits(drained) \cup rest /\ Inbox' = Waits(drained') \cup rest
    BY <1>1, InboxParts
  <1> HIDE DEF e, rest, later
  <1>8. ASSUME e.kind \notin Kinds PROVE UNCHANGED <<Inbox, seen>>
    BY <1>1, <1>4, <1>7, <1>8
  <1>9. ASSUME e.kind \in Kinds
        PROVE  \E n \in Inbox :
                 /\ \A m \in Inbox : n <= m
                 /\ Inbox' = Inbox \ {n} /\ seen' = seen \cup {n}
                 /\ Below(seen, {n}) /\ n \in Nat /\ seen \subseteq Nat
    <2>1. /\ Below({e.n}, Waits(drained') \cup rest) /\ Below(seen, {e.n})
          /\ Inbox = {e.n} \cup (Waits(drained') \cup rest) /\ e.n \in Nat
      <3>1. e.n \in Numbers(drained, Kinds)
        BY <1>4, <1>9
      <3>2. Below({e.n}, later) /\ Below(seen, {e.n})
        BY <1>5, <3>1 DEF Below
      <3>3. Below({e.n}, Waits(drained') \cup rest)
        BY <1>4, <1>6, <1>9, <3>2 DEF Below
      <3>4. e.n \in Nat
        BY <1>3, <1>9
      <3> QED BY <1>3, <1>4, <1>7, <1>9, <3>2, <3>3, <3>4
    <2>2. e.n \notin Waits(drained') \cup rest
      BY <2>1 DEF Below
    <2>3. \A m \in Inbox : e.n <= m
      <3>1. \A m \in Inbox : m = e.n \/ e.n < m
        BY <2>1 DEF Below
      <3>2. Inbox \subseteq Int
        <4>1. Waits(drained) \subseteq Numbers(drained, Kinds)
          BY MessagesWait
        <4>2. Numbers(drained, Kinds) \cup later \subseteq 1..sent
          BY DEF InParts, Places, later
        <4> QED BY <1>6, <1>7, <4>1, <4>2
      <3> QED BY <2>1, <3>1, <3>2
    <2>4. Inbox' = Inbox \ {e.n}
      BY <1>7, <2>1, <2>2
    <2> QED BY <1>1, <1>5, <1>9, <2>1, <2>3, <2>4
  <1>10. Phase = "running" /\ Phase' \in {"running", "exiting"}
    BY <1>1 DEF ExitIsSeen, Phase
  <1> QED BY <1>1, <1>8, <1>9, <1>10

\* The number handed over last, once n is added to what was handed over.
LEMMA LastIsNewest ==
  ASSUME NEW done \in SUBSET Nat, NEW n \in Nat, Below(done, {n})
  PROVE  (CHOOSE k \in done \cup {n} : \A m \in done \cup {n} : m <= k) = n
  <1>1. n \in done \cup {n} /\ \A m \in done \cup {n} : m <= n
    BY DEF Below
  <1>2. \A k \in done \cup {n} : (\A m \in done \cup {n} : m <= k) => k = n
    BY DEF Below
  <1> QED BY <1>1, <1>2

RefinementInv == DeliveryInv /\ ExitIsSeen /\ AskedToExit

\* Every step of run_app and of its environment is one of EventDelivery, or
\* changes nothing it speaks of.
LEMMA StepImplements ==
  ASSUME RefinementInv, RefinementInv', [Next]_vars
  PROVE  \/ \E n \in (sent + 1)..MaxWire :
              /\ Inbox' = Inbox \cup {n} \/ Inbox' = Inbox
              /\ sent' = n /\ UNCHANGED <<Last, Phase>>
         \/ \E n \in Inbox :
              /\ Phase = "running" /\ \A m \in Inbox : n <= m
              /\ Last' = n /\ Inbox' = Inbox \ {n}
              /\ Phase' \in {"running", "exiting"} /\ sent' = sent
         \/ PhaseGoesOn /\ UNCHANGED <<sent, Inbox, Last>>
  <1>1. /\ TypeOK /\ TypeOK' /\ OneLine /\ InParts /\ ExitIsSeen /\ AskedToExit /\ PhaseGoesOn
    BY PhaseStep DEF RefinementInv, DeliveryInv
  <1>2. seen' = seen => Last' = Last
    BY DEF Last
  <1>3. ASSUME NEW kind \in WireKinds, CompositorSends(kind)
        PROVE  /\ sent + 1 \in (sent + 1)..MaxWire /\ sent' = sent + 1
               /\ Inbox' = Inbox \/ Inbox' = Inbox \cup {sent + 1}
               /\ UNCHANGED <<Last, Phase>>
    BY <1>1, <1>2, <1>3, SendPosts
  <1>4. CASE Deliver
    <2>1. CASE UNCHANGED <<Inbox, seen>>
      BY <1>1, <1>2, <1>4, <2>1, DeliverHandsOver
    <2>2. ASSUME NEW n \in Inbox, seen' = seen \cup {n}, Below(seen, {n}), n \in Nat,
                 seen \subseteq Nat
          PROVE  Last' = n
      BY <2>2, LastIsNewest DEF Last
    <2> QED BY <1>1, <1>4, <2>1, <2>2, DeliverHandsOver
  <1>5. CASE ~Deliver /\ ~\E kind \in WireKinds : CompositorSends(kind)
    BY <1>1, <1>2, <1>5, QuietSteps, InboxStays
  <1> QED BY <1>3, <1>4, <1>5

\* run_app implements the inbox: it hands over the oldest waiting event, once,
\* and nothing after exit(), whatever the consumer, the other threads and the
\* other reader of the socket do.
THEOREM ImplementsDelivery == Spec => DeliverySpec
  <1>1. Init => Delivery!Init
    <2> SUFFICES ASSUME Init PROVE Delivery!Init
      OBVIOUS
    <2>1. Pipeline = <<>> /\ seen = {} /\ sent = 0 /\ pc = "resumed" /\ ~exit_requested
      BY DEF Init, Pipeline
    <2> QED BY <2>1, EmptyLine DEF Delivery!Init
  <1>2. RefinementInv /\ RefinementInv' /\ [Next]_vars => [Delivery!Next]_(Delivery!vars)
    <2> SUFFICES ASSUME RefinementInv, RefinementInv', [Next]_vars
                 PROVE  [Delivery!Next]_(Delivery!vars)
      OBVIOUS
    <2>1. CASE \E n \in (sent + 1)..MaxWire :
                 /\ Inbox' = Inbox \cup {n} \/ Inbox' = Inbox
                 /\ sent' = n /\ UNCHANGED <<Last, Phase>>
      BY <2>1 DEF Delivery!Next, Delivery!Post, Delivery!Skip, Inbox, Last, Phase
    <2>2. CASE \E n \in Inbox :
                 /\ Phase = "running" /\ \A m \in Inbox : n <= m
                 /\ Last' = n /\ Inbox' = Inbox \ {n}
                 /\ Phase' \in {"running", "exiting"} /\ sent' = sent
      BY <2>2 DEF Delivery!Next, Delivery!HandOver, Inbox, Last, Phase
    <2>3. CASE PhaseGoesOn /\ UNCHANGED <<sent, Inbox, Last>>
      BY <2>3 DEF Delivery!Next, Delivery!vars, Delivery!Exit, Delivery!Return,
         PhaseGoesOn, Inbox, Last, Phase
    <2> QED BY <2>1, <2>2, <2>3, StepImplements
  <1>3. Init => ExitIsSeen /\ AskedToExit
    BY DEF Init, ExitIsSeen, AskedToExit
  <1>4. Spec => []RefinementInv
    BY <1>3, ExitStep, AskedStep, DeliveryInvariance, PTL DEF Spec, RefinementInv
  <1> QED BY <1>1, <1>2, <1>4, PTL DEF Spec, DeliverySpec, Delivery!Spec
=============================================================================
