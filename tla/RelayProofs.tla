---------------------------- MODULE RelayProofs ----------------------------
(***************************************************************************)
(* Proofs about Relay: for any number and length of messages, any size of  *)
(* the buffers and any behaviour of the peers, no edge is lost, the client *)
(* gets its answers in the order of its requests where the session keeps   *)
(* it, and a session implements an exchange.  RelayDataProofs has what the *)
(* last two rest on: the streams are cut and joined without loss.          *)
(***************************************************************************)
EXTENDS RelayDataProofs

-----------------------------------------------------------------------------
(* The invariant about events.                                             *)

Flags == [Side -> BOOLEAN]

\* The types of what decides about events.
EventTypes ==
  /\ eof \in Flags /\ reset \in Flags /\ ready \in Flags /\ watchOut \in Flags
  /\ noSpace \in Flags /\ is_sending \in Flags /\ missed \in Flags
  /\ batch \in [Side -> {"none", "in", "out"}]
  /\ reader \in Side \cup {"none"}
  /\ writer \in Side
  /\ DOMAIN in = Side /\ DOMAIN queue = Side
  /\ \A s \in Side : \E S : queue[s] \in Seq(S)

\* Nothing is left of a batch when the next is waited for.
BatchHandled == pc = "wait" => batch = Each("none")

\* Unread data is known of: to epoll, to the batch or to the reader.
ReadsComing ==
  Up => \A s \in Side :
    Readable(s) => ready[s] \/ batch[s] = "in" \/ (pc = "read" /\ reader = s)

Writing(s) == pc = "write" /\ writer = s

\* is_sending goes with EPOLLOUT, and with something to send.
SendingWatched ==
  \A s \in Side :
    is_sending[s] => watchOut[s] /\ (queue[s] # <<>> \/ Writing(s))

\* A queued context is being written, or an EPOLLOUT is on its way: in the
\* batch, on the ready list, or owed by the kernel.
WritesComing ==
  \A s \in Side :
    queue[s] # <<>> /\ ~ reset[s] /\ ~ missed[s] =>
      \/ Writing(s)
      \/ is_sending[s] /\ watchOut[s] /\ (ready[s] \/ noSpace[s] \/ batch[s] = "out")

IInv == EventTypes /\ BatchHandled /\ ReadsComing /\ SendingWatched /\ WritesComing

-----------------------------------------------------------------------------
\* A queue with a context more is a queue, and not empty.
LEMMA Appended ==
  ASSUME NEW q, NEW c, \E S : q \in Seq(S)
  PROVE  Append(q, c) # <<>> /\ \E S : Append(q, c) \in Seq(S)
<1>1. PICK S : q \in Seq(S)
  OBVIOUS
<1>2. q \in Seq(S \cup {c})
  BY <1>1, SeqMonotonic
<1>3. Append(q, c) \in Seq(S \cup {c}) /\ Append(q, c) # <<>>
  BY <1>2, AppendProperties
<1> QED BY <1>3

\* So is one whose front context has changed, or is gone.
LEMMA FrontChanged ==
  ASSUME NEW q, NEW x, q # <<>>, \E S : q \in Seq(S)
  PROVE  (\E S : [q EXCEPT ![1] = x] \in Seq(S)) /\ (\E S : Tail(q) \in Seq(S))
<1>1. PICK S : q \in Seq(S)
  OBVIOUS
<1>2. q \in Seq(S \cup {x}) /\ 1 \in 1 .. Len(q)
  BY <1>1, SeqMonotonic, EmptySeq, LenProperties
<1>3. [q EXCEPT ![1] = x] \in Seq(S \cup {x})
  BY <1>2, ExceptSeq
<1>4. Tail(q) \in Seq(S)
  BY <1>1, HeadTailProperties
<1> QED BY <1>3, <1>4

LEMMA InitInv == Init => IInv
<1>1. \A S : <<>> \in Seq(S)
  BY EmptySeq
<1> QED BY <1>1 DEF Init, IInv, EventTypes, Flags, Each, Side, BatchHandled, ReadsComing,
  Readable, SendingWatched, WritesComing

-----------------------------------------------------------------------------
(* The steps.                                                              *)

\* What a peer makes readable is put on the ready list, and space in a buffer
\* that was found full is reported.
LEMMA PeersStep == IInv /\ Peers => IInv'
<1> SUFFICES ASSUME IInv, Peers PROVE IInv'
  OBVIOUS
<1> USE DEF IInv, EventTypes, Flags, BatchHandled, ReadsComing, Readable, SendingWatched,
  WritesComing, Writing, Up, handlers, thread, history
<1>1. ASSUME NEW s \in Side, NEW u, Send(s, u) PROVE IInv'
  BY <1>1 DEF Send
<1>2. ASSUME NEW s \in Side, PeerReads(s) PROVE IInv'
  BY <1>2 DEF PeerReads
<1>3. ASSUME NEW s \in Side, PeerCloses(s) PROVE IInv'
  BY <1>3 DEF PeerCloses
<1>4. ASSUME NEW s \in Side, PeerResets(s) PROVE IInv'
  BY <1>4 DEF PeerResets
<1>5. ClientSends => \E u : Send("client", u)
  BY DEF ClientSends
<1>6. BackendSends => \E u : Send("backend", u)
  BY DEF BackendSends
<1>7. "client" \in Side /\ "backend" \in Side
  BY DEF Side
<1> QED BY <1>1, <1>2, <1>3, <1>4, <1>5, <1>6, <1>7 DEF Peers

\* epoll_wait: whatever was ready is in the batch, or there was no space, or
\* the EPOLLOUT was missed.
LEMMA PollStep == IInv /\ EpollWait => IInv'
<1> SUFFICES ASSUME IInv, EpollWait PROVE IInv'
  OBVIOUS
<1> DEFINE fires(s) == ready[s] /\ (Readable(s) \/ (watchOut[s] /\ Writable(s)))
<1>1. /\ pc = "wait" /\ pc' = "dispatch" /\ ready' = Each(FALSE)
      /\ batch' = [s \in Side |-> CASE ~fires(s)  -> "none"
                                    [] Readable(s) -> "in"
                                    [] OTHER       -> "out"]
      /\ missed' = [s \in Side |-> missed[s]
                       \/ (fires(s) /\ Readable(s) /\ watchOut[s] /\ Writable(s))]
      /\ noSpace' = [s \in Side |-> noSpace[s] \/ (ready[s] /\ ~Writable(s))]
      /\ UNCHANGED <<in, out, eof, reset, watchOut, queue, is_sending, reader, writer>>
  BY DEF EpollWait, sockets, handlers
<1>2. \A s \in Side : Readable(s)' = Readable(s) /\ Readable(s) \in BOOLEAN
  BY <1>1 DEF Readable, IInv, EventTypes, Flags
<1>3. \A s \in Side : Writable(s) \in BOOLEAN
  BY DEF Writable, IInv, EventTypes, Flags
<1>4. \A s \in Side : ready[s] \in BOOLEAN /\ watchOut[s] \in BOOLEAN /\ missed[s] \in BOOLEAN
                      /\ noSpace[s] \in BOOLEAN /\ batch[s] = "none"
  BY <1>1 DEF IInv, EventTypes, Flags, BatchHandled, Each
<1> HIDE DEF fires
<1>5. \A s \in Side :
        /\ fires(s) <=> ready[s] /\ (Readable(s) \/ (watchOut[s] /\ Writable(s)))
        /\ fires(s) \in BOOLEAN
  BY <1>2, <1>3, <1>4 DEF fires
<1>6. EventTypes'
  BY <1>1, <1>2, <1>3, <1>4, <1>5 DEF IInv, EventTypes, Flags, Each
<1>7. ReadsComing'
  BY <1>1, <1>2, <1>4, <1>5 DEF IInv, ReadsComing, Up
<1>8. SendingWatched'
  BY <1>1 DEF IInv, SendingWatched, Writing
<1>9. WritesComing'
  <2> SUFFICES ASSUME NEW s \in Side, (queue[s] # <<>> /\ ~ reset[s] /\ ~ missed[s])'
               PROVE  /\ is_sending'[s] /\ watchOut'[s]
                      /\ ready'[s] \/ noSpace'[s] \/ batch'[s] = "out"
    BY DEF WritesComing
  <2>1. ~ missed[s] /\ is_sending[s] /\ watchOut[s] /\ (ready[s] \/ noSpace[s])
    BY <1>1, <1>4 DEF IInv, WritesComing, Writing
  <2>2. CASE ready[s] /\ ~ Writable(s)
    BY <1>1, <2>1, <2>2
  <2>3. CASE ready[s] /\ Writable(s)
    <3>1. fires(s) /\ ~ Readable(s)
      BY <1>1, <1>5, <2>1, <2>3
    <3> QED BY <1>1, <2>1, <3>1
  <2> QED BY <1>1, <2>1, <2>2, <2>3
<1> QED BY <1>1, <1>6, <1>7, <1>8, <1>9 DEF IInv, BatchHandled

\* Nothing is owed to a session that is over.
LEMMA EndLeavesNothing ==
  ASSUME IInv, NEW how \in {"closed", "killed"}, Destroy(how)
  PROVE  IInv'
<1>1. /\ pc' = how
      /\ in' = Each(<<>>) /\ queue' = Each(<<>>) /\ is_sending' = Each(FALSE)
      /\ UNCHANGED <<eof, reset, ready, watchOut, noSpace, missed, batch, reader, writer>>
  BY Zenon DEF Destroy, epoll, history
<1>2. \A S : <<>> \in Seq(S)
  BY EmptySeq
<1> QED BY <1>1, <1>2 DEF IInv, EventTypes, Flags, BatchHandled, ReadsComing, SendingWatched,
  WritesComing, Up, Each

\* The loop over a batch, and the reader.
LEMMA EventLoopStep ==
  IInv /\ (BatchDone \/ (\E s \in Side : Dispatch(s)) \/ ReadSome \/ ReadDrained
             \/ ParseStops) => IInv'
<1> SUFFICES ASSUME IInv,
      BatchDone \/ (\E s \in Side : Dispatch(s)) \/ ReadSome \/ ReadDrained
        \/ ParseStops
    PROVE IInv'
  OBVIOUS
<1> USE DEF IInv, EventTypes, Flags, BatchHandled, ReadsComing, Readable, SendingWatched,
  WritesComing, Writing, Up, sockets, epoll, handlers, history
<1>1. CASE BatchDone
  BY <1>1 DEF BatchDone, Each
<1>2. ASSUME NEW s \in Side, Dispatch(s) PROVE IInv'
  BY <1>2 DEF Dispatch
<1>3. CASE ReadSome
  BY <1>3 DEF ReadSome, thread
<1>4. CASE ReadDrained
  BY <1>4 DEF ReadDrained
<1>5. CASE ParseStops
  BY <1>5 DEF ParseStops
<1> QED BY <1>1, <1>2, <1>3, <1>4, <1>5

\* recv_content of one side: the context is queued, and written at once unless
\* something is being sent there.
LEMMA MessageReceived ==
  ASSUME NEW kind, NEW n, RecvContent(kind, n)
  PROVE  \E t \in Side : \E c : Enqueue(t, c)
<1>1. "client" \in Side /\ "backend" \in Side
  BY DEF Side
<1> QED BY <1>1 DEF RecvContent

LEMMA ParseStep == IInv /\ (ParseHeader \/ ParseBody) => IInv'
<1> SUFFICES ASSUME IInv, ParseHeader \/ ParseBody PROVE IInv'
  OBVIOUS
<1>1. /\ pc = "parse"
      /\ UNCHANGED <<sockets, epoll, is_sending, missed, batch, reader>>
      /\ \/ UNCHANGED <<queue, pc, writer>>
         \/ \E kind, n : RecvContent(kind, n)
  BY DEF ParseHeader, ParseBody, Deliver
<1>2. CASE UNCHANGED <<queue, pc, writer>>
  BY <1>1, <1>2 DEF IInv, EventTypes, Flags, BatchHandled, ReadsComing, Readable,
    SendingWatched, WritesComing, Writing, Up, sockets, epoll
<1>3. ASSUME NEW t \in Side, NEW c, Enqueue(t, c) PROVE IInv'
  <2>1. /\ queue' = [queue EXCEPT ![t] = Append(queue[t], c)]
        /\ IF is_sending[t] THEN UNCHANGED <<pc, writer>>
                            ELSE pc' = "write" /\ writer' = t
    BY <1>3 DEF Enqueue
  <2>2. Append(queue[t], c) # <<>> /\ \E S : Append(queue[t], c) \in Seq(S)
    BY Appended DEF IInv, EventTypes
  <2>3. EventTypes'
    BY <1>1, <2>1, <2>2 DEF IInv, EventTypes, sockets, epoll
  <2>4. BatchHandled' /\ ReadsComing'
    BY <1>1, <2>1 DEF IInv, BatchHandled, ReadsComing, Readable, Up, sockets, epoll
  <2>5. SendingWatched'
    BY <1>1, <2>1, <2>2 DEF IInv, EventTypes, SendingWatched, Writing, epoll
  <2>6. WritesComing'
    BY <1>1, <2>1, <2>2 DEF IInv, EventTypes, SendingWatched, WritesComing, Writing,
      sockets, epoll
  <2> QED BY <2>3, <2>4, <2>5, <2>6 DEF IInv
<1> QED BY <1>1, <1>2, <1>3, MessageReceived

\* A write leaves the queue empty, or the buffer full with EPOLLOUT asked for,
\* or the connection reset.
LEMMA WriteStep == IInv /\ HandleWrite => IInv'
<1> SUFFICES ASSUME IInv, HandleWrite PROVE IInv'
  OBVIOUS
<1> USE DEF IInv, EventTypes, Flags, BatchHandled, ReadsComing, Readable, SendingWatched,
  WritesComing, Writing, Up, Return
<1>1. CASE WriteDone
  <2> DEFINE t == writer
  <2>1. /\ pc = "write" /\ queue[t] = <<>> /\ pc' \in {"dispatch", "parse"}
        /\ UNCHANGED <<sockets, queue, batch, reader, writer, missed>>
        /\ \/ UNCHANGED <<epoll, is_sending>>
           \/ ModifyEvent(t, FALSE) /\ is_sending' = [is_sending EXCEPT ![t] = FALSE]
        /\ ~ is_sending'[t]
    BY <1>1 DEF WriteDone, history
  <2>2. CASE UNCHANGED <<epoll, is_sending>>
    BY <2>1, <2>2 DEF sockets, epoll
  <2>3. CASE ModifyEvent(t, FALSE) /\ is_sending' = [is_sending EXCEPT ![t] = FALSE]
    BY <2>1, <2>3 DEF ModifyEvent, Writable, sockets
  <2> QED BY <2>1, <2>2, <2>3
<1>2. CASE WriteSome
  <2>1. /\ pc = "write" /\ queue[writer] # <<>>
        /\ UNCHANGED <<in, eof, reset, epoll, is_sending, thread, missed>>
        /\ \E c, n : AfterWrite(writer, c, n)
    BY <1>2 DEF WriteSome
  <2>2. \E x : /\ queue' = [queue EXCEPT ![writer] = x]
               /\ \E S : x \in Seq(S)
    <3>1. PICK c, n : AfterWrite(writer, c, n)
      BY <2>1
    <3>2. \/ \E y : queue' = [queue EXCEPT ![writer] = [queue[writer] EXCEPT ![1] = y]]
          \/ queue' = [queue EXCEPT ![writer] = Tail(queue[writer])]
      BY <3>1 DEF AfterWrite
    <3>3. queue[writer] # <<>> /\ \E S : queue[writer] \in Seq(S)
      BY <2>1
    <3>4. ASSUME NEW y, queue' = [queue EXCEPT ![writer] = [queue[writer] EXCEPT ![1] = y]]
          PROVE  \E x : queue' = [queue EXCEPT ![writer] = x] /\ \E S : x \in Seq(S)
      <4> HIDE DEF IInv
      <4>1. \E S : [queue[writer] EXCEPT ![1] = y] \in Seq(S)
        BY <3>3, FrontChanged
      <4> QED BY <3>4, <4>1
    <3>5. \E S : Tail(queue[writer]) \in Seq(S)
      BY <3>3, FrontChanged
    <3> QED BY <3>2, <3>4, <3>5
  <2>3. EventTypes'
    BY <2>1, <2>2 DEF epoll, thread
  <2>4. ReadsComing' /\ BatchHandled'
    BY <2>1 DEF epoll, thread
  <2>5. SendingWatched' /\ WritesComing'
    BY <2>1, <2>2 DEF epoll, thread
  <2> QED BY <2>3, <2>4, <2>5
<1>3. CASE WriteBlocked
  <2>1. /\ pc = "write" /\ queue[writer] # <<>> /\ pc' \in {"dispatch", "parse"}
        /\ ~ Writable(writer) /\ ~ reset[writer]
        /\ UNCHANGED <<sockets, queue, batch, reader, writer, missed>>
    BY <1>3 DEF WriteBlocked, Writable, history
  <2>2. /\ is_sending' = [is_sending EXCEPT ![writer] = TRUE]
        /\ watchOut' = [watchOut EXCEPT ![writer] = TRUE]
        /\ noSpace' = [noSpace EXCEPT ![writer] = TRUE]
        /\ ready' \in Flags /\ \A s \in Side : ready[s] => ready'[s]
    <3>1. CASE is_sending[writer]
      BY <1>3, <2>1, <3>1 DEF WriteBlocked
    <3>2. CASE ~ is_sending[writer]
      <4>1. /\ ModifyEvent(writer, TRUE)
            /\ is_sending' = [is_sending EXCEPT ![writer] = TRUE]
        BY <1>3, <3>2 DEF WriteBlocked
      <4> QED BY <2>1, <4>1 DEF ModifyEvent
    <3> QED BY <3>1, <3>2
  <2>3. EventTypes'
    BY <2>1, <2>2 DEF sockets
  <2>4. ReadsComing' /\ BatchHandled'
    BY <2>1, <2>2 DEF sockets
  <2>5. SendingWatched' /\ WritesComing'
    BY <2>1, <2>2 DEF sockets
  <2> QED BY <2>3, <2>4, <2>5
<1>4. CASE WriteFails /\ reader # "none"
  BY <1>4 DEF WriteFails, sockets, epoll, handlers, history
<1>5. CASE WriteKills \/ (WriteFails /\ reader = "none")
  <2> HIDE DEF IInv
  <2> QED BY <1>5, EndLeavesNothing DEF WriteKills, WriteFails, Disconnect
<1> QED BY <1>1, <1>2, <1>3, <1>4, <1>5 DEF HandleWrite

LEMMA InvariantHolds == Spec => []IInv
<1>1. IInv /\ UNCHANGED vars => IInv'
  BY DEF IInv, EventTypes, BatchHandled, ReadsComing, Readable, SendingWatched,
    WritesComing, Writing, Up, vars, sockets, epoll, handlers, thread, history
<1>2. IInv /\ (ReadEnds \/ ParseKills) => IInv'
  BY EndLeavesNothing DEF ReadEnds, ParseKills, Disconnect
<1>3. IInv /\ [Next]_vars => IInv'
  BY <1>1, <1>2, PeersStep, PollStep, EventLoopStep, ParseStep, WriteStep
    DEF Next, Worker, HandleRead
<1> QED BY <1>3, InitInv, PTL DEF Spec

-----------------------------------------------------------------------------
\* Spec => []NoEdgeLost: when the worker waits in epoll_wait, unread data has an
\* event coming, and so has a queued context, unless the code discarded the
\* EPOLLOUT that came with an EPOLLIN.
THEOREM NoEdgeEverLost == Spec => []NoEdgeLost
<1>1. IInv => NoEdgeLost
  BY DEF IInv, NoEdgeLost, BatchHandled, ReadsComing, WritesComing, Writing, Up, Each
<1> QED BY <1>1, InvariantHolds, PTL

-----------------------------------------------------------------------------
(* The numbers in what is written.                                         *)

\* The units of a message's content.
LEMMA ContentUnits ==
  ASSUME NEW kind \in Kinds, NEW n \in Requests
  PROVE  \A k \in 1 .. ContentLen(kind, n) :
           Content(kind, n)[k] = UnitAt(kind, n, HeaderLen + k)
<1>1. HeaderLen \in Nat /\ ContentLen(kind, n) \in Nat /\ Kinds \in SUBSET Kinds
  BY MessageParts, RelayAssumption
<1> DEFINE first == HeaderLen + 1
           last == HeaderLen + ContentLen(kind, n)
<1>2. /\ first \in Nat /\ last \in Nat /\ 1 <= first /\ first <= last + 1
      /\ last - first + 1 = ContentLen(kind, n)
      /\ \A k \in 1 .. ContentLen(kind, n) : first + k - 1 = HeaderLen + k
  BY <1>1
<1> HIDE DEF first, last
<1>3. \A k \in 1 .. last - first + 1 : Part(kind, n, first, last)[k] = UnitAt(kind, n, first + k - 1)
  BY <1>2, PartType
<1>4. Content(kind, n) = Part(kind, n, first, last)
  BY DEF Content, first, last
<1> QED BY <1>2, <1>3, <1>4

\* What Mark says of a unit.
LEMMA MarkOfUnit ==
  ASSUME NEW early \in BOOLEAN, NEW kind \in Kinds, NEW n \in Requests, NEW k \in Nat
  PROVE  /\ UnitAt(kind, n, k) \in Units
         /\ Mark(early)[UnitAt(kind, n, k)] =
              IF k = (IF early THEN HeaderLen ELSE HeaderLen + ContentLen(kind, n))
                THEN One(n) ELSE <<>>
<1> DEFINE u == UnitAt(kind, n, k)
<1>1. u \in Units /\ u[1] = kind /\ u[2] = n /\ u[3] = k
  BY DEF UnitAt, Units, UnitsOf
<1>2. Mark(early)[u] = IF u[3] = (IF early THEN HeaderEnd(u[1], u[2]) ELSE LastPart(u[1], u[2]))
                         THEN <<u[2]>> ELSE <<>>
  BY <1>1, Zenon DEF Mark
<1> HIDE DEF u
<1>3. HeaderEnd(kind, n) = HeaderLen /\ LastPart(kind, n) = HeaderLen + ContentLen(kind, n)
  BY DEF HeaderEnd, LastPart
<1> QED BY <1>1, <1>2, <1>3, Zenon DEF One, u

\* A message is marked once, with its number.
LEMMA MessageMarked ==
  ASSUME NEW early \in BOOLEAN, NEW kind \in Kinds, NEW n \in Requests
  PROVE  FlatMap(Mark(early), Cat(Header(kind, n), Content(kind, n))) = One(n)
<1> DEFINE head == Header(kind, n)
           body == Content(kind, n)
           f == Mark(early)
           len == ContentLen(kind, n)
<1>1. /\ head \in Seq(Units) /\ Len(head) = HeaderLen
      /\ \A k \in 1 .. HeaderLen : head[k] = UnitAt(kind, n, k)
      /\ len \in Nat /\ body \in Seq(Units) /\ Len(body) = len
  BY MessageParts DEF Units
<1>2. \A k \in 1 .. len : body[k] = UnitAt(kind, n, HeaderLen + k)
  BY ContentUnits
<1>3. HeaderLen \in Nat \ {0}
  BY RelayAssumption
<1>4. Maps(f, Units, Seq(Requests)) /\ One(n) \in Seq(Requests)
  BY MarkType, OneType
<1>5. \A k \in Nat : f[UnitAt(kind, n, k)] =
        IF k = (IF early THEN HeaderLen ELSE HeaderLen + len) THEN One(n) ELSE <<>>
  BY MarkOfUnit
<1> HIDE DEF head, body, f, len
<1>6. FlatMap(f, Cat(head, body)) = Cat(FlatMap(f, head), FlatMap(f, body))
  BY <1>1, <1>4, FlatMapOfCat
<1>7. Cat(<<>>, One(n)) = One(n) /\ Cat(One(n), <<>>) = One(n)
  BY <1>4, CatEmpty
<1>8. CASE early \/ len = 0
  <2>1. \A k \in 1 .. Len(head) - 1 : f[head[k]] = <<>>
    <3>1. ASSUME NEW k \in 1 .. Len(head) - 1 PROVE f[head[k]] = <<>>
      <4>1. k \in Nat /\ k \in 1 .. HeaderLen /\ k # HeaderLen /\ HeaderLen + 0 = HeaderLen
        BY <1>1, <1>3
      <4>2. head[k] = UnitAt(kind, n, k)
        BY <1>1, <4>1
      <4> QED BY <1>5, <1>8, <4>1, <4>2, Zenon
    <3> QED BY <3>1
  <2>2. head # <<>>
    BY <1>1, <1>3, EmptySeq
  <2>3. FlatMap(f, head) = f[head[Len(head)]]
    <3>1. head \in Seq(Units) /\ Maps(f, Units, Seq(Requests))
      BY <1>1, <1>4
    <3> QED BY ONLY <3>1, <2>1, <2>2, FlatMapOfLast, Zenon
  <2>4. f[head[Len(head)]] = One(n)
    <3>1. head[HeaderLen] = UnitAt(kind, n, HeaderLen) /\ HeaderLen + 0 = HeaderLen
      BY <1>1, <1>3
    <3> QED BY <1>1, <1>3, <1>5, <1>8, <3>1
  <2>5. \A k \in 1 .. Len(body) : f[body[k]] = <<>>
    <3>1. ASSUME NEW k \in 1 .. Len(body) PROVE f[body[k]] = <<>>
      <4>1. k \in 1 .. len /\ HeaderLen + k \in Nat /\ HeaderLen + k # HeaderLen /\ len # 0
        BY <1>1, <1>3
      <4> QED BY <1>2, <1>5, <1>8, <4>1
    <3> QED BY <3>1
  <2>6. FlatMap(f, body) = <<>>
    BY <1>1, <1>4, <2>5, FlatMapOfNothing
  <2> QED BY <1>6, <1>7, <2>3, <2>4, <2>6, Zenon DEF head, body, f
<1>9. CASE ~ early /\ len # 0
  <2>1. \A k \in 1 .. Len(head) : f[head[k]] = <<>>
    <3>1. ASSUME NEW k \in 1 .. Len(head) PROVE f[head[k]] = <<>>
      <4>1. k \in Nat /\ k \in 1 .. HeaderLen /\ k # HeaderLen + len
        BY <1>1, <1>3, <1>9
      <4>2. head[k] = UnitAt(kind, n, k)
        BY <1>1, <4>1
      <4> QED BY <1>5, <1>9, <4>1, <4>2, Zenon
    <3> QED BY <3>1
  <2>2. FlatMap(f, head) = <<>>
    BY <1>1, <1>4, <2>1, FlatMapOfNothing
  <2>3. \A k \in 1 .. Len(body) - 1 : f[body[k]] = <<>>
    <3>1. ASSUME NEW k \in 1 .. Len(body) - 1 PROVE f[body[k]] = <<>>
      <4>1. k \in 1 .. len /\ HeaderLen + k \in Nat /\ HeaderLen + k # HeaderLen + len
        BY <1>1, <1>3
      <4>2. body[k] = UnitAt(kind, n, HeaderLen + k)
        BY <1>2, <4>1
      <4> QED BY <1>5, <1>9, <4>1, <4>2, Zenon
    <3> QED BY <3>1
  <2>4. body # <<>>
    BY <1>1, <1>9, EmptySeq
  <2>5. FlatMap(f, body) = f[body[Len(body)]]
    BY <1>1, <1>4, <2>3, <2>4, FlatMapOfLast
  <2>6. f[body[Len(body)]] = One(n)
    <3>1. len \in 1 .. len /\ HeaderLen + len \in Nat
      BY <1>1, <1>3, <1>9
    <3>2. body[len] = UnitAt(kind, n, HeaderLen + len)
      BY <1>2, <3>1
    <3> QED BY <1>1, <1>5, <1>9, <3>1, <3>2
  <2> QED BY <1>6, <1>7, <2>2, <2>5, <2>6, Zenon DEF head, body, f
<1> QED BY <1>8, <1>9, <1>1 DEF head, body, f

\* A part of the content without its last unit is not marked.
LEMMA PartNotMarked ==
  ASSUME NEW early \in BOOLEAN, NEW kind \in Kinds, NEW n \in Requests,
         NEW m \in Nat, m < Len(Content(kind, n))
  PROVE  FlatMap(Mark(early), SubSeq(Content(kind, n), 1, m)) = <<>>
<1> DEFINE body == Content(kind, n)
           f == Mark(early)
           len == ContentLen(kind, n)
           q == SubSeq(body, 1, m)
<1>1. len \in Nat /\ body \in Seq(Units) /\ Len(body) = len
  BY MessageParts DEF Units
<1>2. \A k \in 1 .. len : body[k] = UnitAt(kind, n, HeaderLen + k)
  BY ContentUnits
<1>3. HeaderLen \in Nat \ {0}
  BY RelayAssumption
<1>4. Maps(f, Units, Seq(Requests))
  BY MarkType
<1>5. \A k \in Nat : f[UnitAt(kind, n, k)] =
        IF k = (IF early THEN HeaderLen ELSE HeaderLen + len) THEN One(n) ELSE <<>>
  BY MarkOfUnit
<1>6. m < len
  BY <1>1
<1> HIDE DEF body, f, len
<1>7. q \in Seq(Units) /\ Len(q) = m /\ \A k \in 1 .. m : q[k] = body[k]
  <2>1. 1 \in 1 .. Len(body) + 1 /\ m \in 0 .. Len(body)
    BY <1>1, <1>6
  <2> QED BY <1>1, <2>1, SubSeqProperties
<1> HIDE DEF q
<1>8. ASSUME NEW k \in 1 .. Len(q) PROVE f[q[k]] = <<>>
  <2>1. /\ k \in 1 .. m /\ k \in 1 .. len /\ HeaderLen + k \in Nat
        /\ HeaderLen + k # HeaderLen /\ HeaderLen + k # HeaderLen + len
    BY <1>1, <1>3, <1>6, <1>7
  <2>2. q[k] = UnitAt(kind, n, HeaderLen + k)
    BY <1>2, <1>7, <2>1
  <2> QED BY <1>5, <2>1, <2>2, Zenon
<1>9. FlatMap(f, q) = <<>>
  BY <1>4, <1>7, <1>8, FlatMapOfNothing
<1> QED BY <1>9 DEF q, f, body

-----------------------------------------------------------------------------
(* The numbers of the messages on their way to the peer.                   *)

\* Contexts with the whole content of their message.
WholeContexts == {c \in Context : c.content = Content(c.msg[1], c.msg[2])}

\* The number of a message, and those of the messages that were queued.
NumberOf == [m \in Kinds \X Requests |-> m[2]]
QueuedNumbers(t) == MapEach(NumberOf, queued[t])

\* Of the messages nums that were queued, those completed in what the peer has
\* and the socket holds are the first; the others, lost, are still to be written
\* unless the connection was reset.
Marked(early, gt, ou, que, nums, rst, lost) ==
  /\ lost \in Seq(Requests)
  /\ Cat(FlatMap(Mark(early), Cat(gt, ou)), lost) = nums
  /\ ~ rst => lost = FlatMap(Mark(early), FlatMap(Unsents, que))

LEMMA NumberOfType == Maps(NumberOf, Kinds \X Requests, Requests)
<1>1. ASSUME NEW m \in Kinds \X Requests PROVE NumberOf[m] \in Requests
  BY DEF NumberOf
<1> QED BY <1>1 DEF Maps

LEMMA WholeAreContexts ==
  /\ WholeContexts \in SUBSET Context
  /\ Seq(WholeContexts) \in SUBSET Seq(Context)
BY DEF WholeContexts

LEMMA MarkedTaken ==
  ASSUME NEW early, NEW gt \in Seq(Units), NEW ou \in Seq(Units), ou # <<>>,
         NEW que, NEW nums, NEW rst, NEW lost, Marked(early, gt, ou, que, nums, rst, lost)
  PROVE  Marked(early, Append(gt, Head(ou)), Tail(ou), que, nums, rst, lost)
<1>1. Head(ou) = ou[1]
  BY HeadTailProperties
<1>2. Cat(Append(gt, ou[1]), Tail(ou)) = Cat(gt, ou)
  BY FirstMoves
<1> QED BY <1>1, <1>2, Zenon DEF Marked

LEMMA MarkedReset ==
  ASSUME NEW early, NEW gt \in Seq(Units), NEW ou \in Seq(Units),
         NEW que, NEW nums, NEW rst, NEW lost, Marked(early, gt, ou, que, nums, rst, lost)
  PROVE  Marked(early, gt, <<>>, que, nums, TRUE, Cat(FlatMap(Mark(early), ou), lost))
<1> DEFINE there == FlatMap(Mark(early), gt)
           gone == FlatMap(Mark(early), ou)
<1>1. there \in Seq(Requests) /\ gone \in Seq(Requests) /\ lost \in Seq(Requests)
  BY MarkType, FlatMapType DEF Marked
<1>2. FlatMap(Mark(early), Cat(gt, ou)) = Cat(there, gone) /\ Cat(gt, <<>>) = gt
  BY MarkType, FlatMapOfCat, CatEmpty
<1> HIDE DEF there, gone
<1>3. Cat(Cat(there, gone), lost) = Cat(there, Cat(gone, lost)) /\ Cat(gone, lost) \in Seq(Requests)
  BY <1>1, CatAssociative, CatType
<1> QED BY <1>2, <1>3, Zenon DEF Marked, there, gone

LEMMA MarkedQueued ==
  ASSUME NEW early \in BOOLEAN, NEW gt \in Seq(Units), NEW ou \in Seq(Units),
         NEW que \in Seq(Context), NEW nums, NEW rst, NEW lost,
         Marked(early, gt, ou, que, nums, rst, lost), NEW kind \in Kinds, NEW n \in Requests
  PROVE  Marked(early, gt, ou, Append(que, NewContext(kind, n)), Append(nums, n), rst, Append(lost, n))
<1> DEFINE c == NewContext(kind, n)
           f == Mark(early)
           done == FlatMap(f, Cat(gt, ou))
           left == FlatMap(Unsents, que)
           units == Unsents[c]
<1>1. c \in Context /\ units = AllMessages[<<kind, n>>]
  BY NewContextType
<1>2. units \in Seq(Units) /\ left \in Seq(Units)
  BY <1>1, ContextFields, OutgoingTypes, FlatMapType
<1>3. FlatMap(f, units) = One(n)
  <2>1. <<kind, n>> \in Kinds \X Requests /\ <<kind, n>>[1] = kind /\ <<kind, n>>[2] = n
    OBVIOUS
  <2>2. AllMessages[<<kind, n>>] = Message(kind, n)
    BY <2>1 DEF AllMessages
  <2>3. Message(kind, n) = Cat(Header(kind, n), Content(kind, n))
    BY Zenon DEF Message, Cat
  <2> QED BY <1>1, <2>2, <2>3, MessageMarked
<1>4. FlatMap(Unsents, Append(que, c)) = Cat(left, units)
  BY <1>1, OutgoingTypes, FlatMapOfAppend
<1>5. Maps(f, Units, Seq(Requests)) /\ Cat(gt, ou) \in Seq(Units)
  BY MarkType, CatType
<1>6. done \in Seq(Requests) /\ FlatMap(f, left) \in Seq(Requests)
  BY <1>2, <1>5, FlatMapType
<1>7. FlatMap(f, Cat(left, units)) = Cat(FlatMap(f, left), FlatMap(f, units))
  BY <1>2, <1>5, FlatMapOfCat
<1>8. lost \in Seq(Requests) /\ Cat(done, lost) = nums /\ (~ rst => lost = FlatMap(f, left))
  BY Zenon DEF Marked
<1> HIDE DEF c, f, done, left, units
<1>9. /\ Append(lost, n) = Cat(lost, One(n)) /\ One(n) \in Seq(Requests)
      /\ Append(lost, n) \in Seq(Requests)
  BY <1>8, AppendIsCat, OneType, AppendProperties
<1>10. nums \in Seq(Requests)
  BY <1>6, <1>8, CatType
<1>11. Append(nums, n) = Cat(nums, One(n))
  BY <1>10, AppendIsCat
<1>12. Cat(done, Cat(lost, One(n))) = Cat(Cat(done, lost), One(n))
  BY <1>6, <1>8, <1>9, CatAssociative
<1>13. Cat(done, Append(lost, n)) = Append(nums, n)
  BY <1>8, <1>9, <1>11, <1>12, Zenon
<1>14. ~ rst => Append(lost, n) = FlatMap(f, FlatMap(Unsents, Append(que, c)))
  BY <1>3, <1>4, <1>7, <1>8, <1>9, Zenon
<1> QED BY <1>9, <1>13, <1>14, Zenon DEF Marked, c, f, done

LEMMA MarkedWritten ==
  ASSUME NEW early, NEW gt \in Seq(Units), NEW ou \in Seq(Units),
         NEW que, NEW nums, NEW lost, Marked(early, gt, ou, que, nums, FALSE, lost),
         NEW written \in Seq(Units), NEW que2 \in Seq(Context),
         \/ FlatMap(Unsents, que) = Cat(written, FlatMap(Unsents, que2))
         \/ /\ FlatMap(Mark(early), written) = <<>>
            /\ FlatMap(Unsents, que) = FlatMap(Unsents, que2)
  PROVE  \E lost2 : Marked(early, gt, Cat(ou, written), que2, nums, FALSE, lost2)
<1> DEFINE f == Mark(early)
           there == Cat(gt, ou)
           done == FlatMap(f, there)
           now == FlatMap(f, written)
           units == FlatMap(Unsents, que2)
           left == FlatMap(f, units)
<1>1. Maps(f, Units, Seq(Requests)) /\ there \in Seq(Units) /\ units \in Seq(Units)
  BY MarkType, CatType, OutgoingTypes, FlatMapType
<1>2. done \in Seq(Requests) /\ now \in Seq(Requests) /\ left \in Seq(Requests)
  BY <1>1, FlatMapType
<1>3. Cat(gt, Cat(ou, written)) = Cat(there, written)
  BY CatAssociative
<1> HIDE DEF there
<1>4. FlatMap(f, Cat(there, written)) = Cat(done, now)
  BY <1>1, FlatMapOfCat
<1>5. FlatMap(f, Cat(written, units)) = Cat(now, left)
  BY <1>1, FlatMapOfCat
<1>6. lost = FlatMap(f, FlatMap(Unsents, que)) /\ Cat(done, lost) = nums
  BY Zenon DEF Marked, there
<1>7. lost = Cat(now, left)
  <2>1. CASE FlatMap(Unsents, que) = Cat(written, units)
    BY <1>5, <1>6, <2>1, Zenon
  <2>2. CASE now = <<>> /\ FlatMap(Unsents, que) = units
    <3>1. Cat(<<>>, left) = left
      BY <1>2, CatEmpty
    <3> QED BY <1>6, <2>2, <3>1, Zenon
  <2> QED BY <2>1, <2>2
<1> HIDE DEF f, done, now, units, left
<1>8. Cat(Cat(done, now), left) = Cat(done, Cat(now, left))
  BY <1>2, CatAssociative
<1>9. Cat(FlatMap(f, Cat(gt, Cat(ou, written))), left) = nums
  BY <1>3, <1>4, <1>6, <1>7, <1>8, Zenon
<1>10. Marked(early, gt, Cat(ou, written), que2, nums, FALSE, left)
  BY <1>2, <1>9, Zenon DEF Marked, f, left, units
<1> QED BY <1>10

\* A write keeps the contexts whole; a short one of content leaves them as they are.
LEMMA WriteKeepsWhole ==
  ASSUME NEW que \in Seq(WholeContexts), que # <<>>, NEW n \in 0 .. Len(Buffer(que[1]))
  PROVE  /\ AfterWriting(que, n) \in Seq(WholeContexts)
         /\ que[1].phase = "SEND_CONTENT" /\ n < Len(Buffer(que[1])) =>
              /\ FlatMap(Unsents, AfterWriting(que, n)) = FlatMap(Unsents, que)
              /\ \A early \in BOOLEAN :
                   FlatMap(Mark(early), SubSeq(Buffer(que[1]), 1, n)) = <<>>
<1> DEFINE c == que[1]
           buffer == Buffer(c)
           left == SubSeq(buffer, n + 1, Len(buffer))
<1>1. /\ c \in WholeContexts /\ Tail(que) \in Seq(WholeContexts)
  BY FrontAndRest
<1>2. c \in Context /\ c.content = Content(c.msg[1], c.msg[2]) /\ que \in Seq(Context)
  BY <1>1, WholeAreContexts DEF WholeContexts
<1>3. /\ c.header \in Seq(Units) /\ c.content \in Seq(Units)
      /\ c.phase \in {"SEND_HEADER", "SEND_CONTENT"} /\ c.msg \in Kinds \X Requests
      /\ c.phase = "SEND_CONTENT" => Unsents[c] = c.content
  BY <1>2, ContextFields
<1>4. buffer \in Seq(Units)
  BY <1>3 DEF Buffer
<1>5. left \in Seq(Units)
  BY <1>4, SplitAt
<1>6. 1 \in DOMAIN que
  BY EmptySeq, LenProperties
<1>7. CASE n < Len(buffer)
  <2> DEFINE d == [c EXCEPT !.header = left]
  <2>1. AfterWriting(que, n) = [que EXCEPT ![1] = d]
    BY <1>6, <1>7 DEF AfterWriting
  <2>2. d \in Context /\ d.content = c.content /\ d.phase = c.phase /\ d.msg = c.msg
    BY <1>2, <1>5 DEF Context, Units, UnitsOf, Kinds
  <2> HIDE DEF d
  <2>3. d \in WholeContexts
    BY <1>2, <2>2 DEF WholeContexts
  <2>4. AfterWriting(que, n) \in Seq(WholeContexts)
    BY <2>1, <2>3, FrontReplaced
  <2>5. ASSUME c.phase = "SEND_CONTENT"
        PROVE  FlatMap(Unsents, AfterWriting(que, n)) = FlatMap(Unsents, que)
    <3>1. Unsents[d] = Unsents[c]
      BY <1>3, <2>2, <2>5, ContextFields
    <3>2. FlatMap(Unsents, AfterWriting(que, n)) = Cat(Unsents[d], FlatMap(Unsents, Tail(que)))
      BY <1>2, <2>1, <2>2, UnsentsOfReplaced
    <3>3. FlatMap(Unsents, que) = Cat(Unsents[c], FlatMap(Unsents, Tail(que)))
      BY <1>2, OutgoingTypes, FlatMapOfFront
    <3> QED BY <3>1, <3>2, <3>3, Zenon
  <2>6. ASSUME c.phase = "SEND_CONTENT", NEW early \in BOOLEAN
        PROVE  FlatMap(Mark(early), SubSeq(buffer, 1, n)) = <<>>
    <3>1. buffer = Content(c.msg[1], c.msg[2])
      BY <1>2, <2>6 DEF Buffer
    <3>2. c.msg[1] \in Kinds /\ c.msg[2] \in Requests /\ n \in Nat
      BY <1>3
    <3> QED BY <1>7, <3>1, <3>2, PartNotMarked
  <2> QED BY <2>4, <2>5, <2>6
<1>8. CASE ~ (n < Len(buffer)) /\ (c.phase = "SEND_CONTENT" \/ c.content = <<>>)
  <2>1. AfterWriting(que, n) = Tail(que)
    BY <1>8 DEF AfterWriting
  <2> QED BY <1>1, <1>8, <2>1
<1>9. CASE ~ (n < Len(buffer)) /\ ~ (c.phase = "SEND_CONTENT" \/ c.content = <<>>)
  <2> DEFINE d == [c EXCEPT !.phase = "SEND_CONTENT"]
  <2>1. AfterWriting(que, n) = [que EXCEPT ![1] = d]
    BY <1>6, <1>9 DEF AfterWriting
  <2>2. d \in Context /\ d.content = c.content /\ d.msg = c.msg
    BY <1>2 DEF Context
  <2> HIDE DEF d
  <2>3. d \in WholeContexts
    BY <1>2, <2>2 DEF WholeContexts
  <2>4. AfterWriting(que, n) \in Seq(WholeContexts)
    BY <2>1, <2>3, FrontReplaced
  <2> QED BY <1>9, <2>4
<1> QED BY <1>7, <1>8, <1>9

-----------------------------------------------------------------------------
(* What the steps show to the peers.                                       *)

\* A peer sends a unit.
SendEffect(s) ==
  /\ \E u : sent' = [sent EXCEPT ![s] = Append(@, u)]
  /\ UNCHANGED <<out, reset, queue, got, parsed, queued>>

\* A peer gets the first unit that its socket holds.
TakeEffect(s) ==
  /\ out[s] # <<>>
  /\ got' = [got EXCEPT ![s] = Append(@, Head(out[s]))]
  /\ out' = [out EXCEPT ![s] = Tail(@)]
  /\ UNCHANGED <<reset, queue, sent, parsed, queued>>

\* A connection is reset, and what its socket holds is gone.
ResetEffect(s) ==
  /\ reset' = [reset EXCEPT ![s] = TRUE]
  /\ out' = [out EXCEPT ![s] = <<>>]
  /\ UNCHANGED <<queue, sent, got, parsed, queued>>

\* A message that was read whole is handed to the session.
DeliverEffect(s) == Delivered(s) /\ UNCHANGED <<out, reset, sent, got>>

\* Nothing that the peers can see or that is queued for them changes.
NoEffect == UNCHANGED <<out, reset, queue, sent, got, parsed, queued>>

StepEffect ==
  \/ NoEffect
  \/ ClientSends /\ SendEffect("client")
  \/ SendEffect("backend")
  \/ \E s \in Side : TakeEffect(s) \/ ResetEffect(s) \/ DeliverEffect(s) \/ WriteEffect(s)

\* The session ends; nothing more of it is queued.
EndEffect ==
  /\ EndedInv'
  /\ UNCHANGED <<out, reset, sent, got, parsed, queued>>

LEMMA EndingQuiet == Ending => UNCHANGED <<out, reset, sent, got, parsed, queued>>
BY Zenon DEF Ending, Destroy, history

LEMMA HandlerStays == [Next]_vars => handler' = handler
<1> SUFFICES ASSUME [Next]_vars PROVE handler' = handler
  OBVIOUS
<1> USE DEF history
<1>1. Peers => handler' = handler
  BY Zenon DEF Peers, ClientSends, BackendSends, Send, PeerReads, PeerCloses, PeerResets
<1>2. EpollWait \/ BatchDone \/ (\E s \in Side : Dispatch(s)) => handler' = handler
  BY Zenon DEF EpollWait, BatchDone, Dispatch
<1>3. HandleRead => handler' = handler
  BY Zenon DEF HandleRead, ReadSome, ReadDrained, ReadEnds, Disconnect, Destroy, ParseStops,
    ParseHeader, ParseBody, ParseKills
<1>4. HandleWrite => handler' = handler
  BY Zenon DEF HandleWrite, WriteDone, WriteSome, WriteBlocked, WriteFails, WriteKills,
    Disconnect, Destroy
<1>5. UNCHANGED vars => handler' = handler
  BY Zenon DEF vars
<1> QED BY <1>1, <1>2, <1>3, <1>4, <1>5 DEF Next, Worker

\* Every step has one of these effects, or is the end; the rest of the state does not
\* matter here.
LEMMA EveryEffect == LiveInv /\ [Next]_vars => (LiveInv' /\ StepEffect) \/ EndEffect
<1> SUFFICES ASSUME LiveInv, [Next]_vars PROVE StepEffect \/ Ending
  BY LiveSteps, EndStep, EndingQuiet DEF EndEffect
<1>1. ControlTypes
  BY DEF LiveInv
<1>2. CASE UNCHANGED vars
  BY <1>2, Zenon DEF StepEffect, NoEffect, vars, sockets, handlers, history
<1>3. ASSUME NEW s \in Side, NEW u, Send(s, u) PROVE SendEffect(s)
  BY <1>3, Zenon DEF Send, SendEffect, handlers
<1>4. CASE ClientSends
  <2>1. \E u : Send("client", u)
    BY <1>4, Zenon DEF ClientSends
  <2> QED BY <1>3, <1>4, <2>1 DEF StepEffect, Side
<1>5. CASE BackendSends
  <2>1. \E u : Send("backend", u)
    BY <1>5, Zenon DEF BackendSends
  <2> QED BY <1>3, <2>1 DEF StepEffect, Side
<1>6. ASSUME NEW s \in Side, PeerReads(s) PROVE StepEffect
  BY <1>6, Zenon DEF PeerReads, TakeEffect, StepEffect, handlers
<1>7. ASSUME NEW s \in Side, PeerCloses(s) PROVE StepEffect
  BY <1>7, Zenon DEF PeerCloses, StepEffect, NoEffect, handlers, history
<1>8. ASSUME NEW s \in Side, PeerResets(s) PROVE StepEffect
  BY <1>8, Zenon DEF PeerResets, ResetEffect, StepEffect, handlers, history
<1>9. CASE EpollWait \/ BatchDone \/ \E s \in Side : Dispatch(s)
  <2>1. NoEffect
    BY <1>9, Zenon DEF EpollWait, BatchDone, Dispatch, NoEffect, sockets, handlers, history
  <2> QED BY <2>1 DEF StepEffect
<1>10. CASE HandleRead
  <2>1. CASE ParseHeader \/ ParseBody
    <3>1. reader \in Side
      BY <1>1, <2>1 DEF ParseHeader, ParseBody, ControlTypes
    <3>2. ParseEffect(reader)
      BY <2>1, <3>1, ParseHeaderStep, ParseBodyStep
    <3>3. NoEffect \/ DeliverEffect(reader)
      BY <3>2, Zenon DEF ParseEffect, NoEffect, DeliverEffect
    <3> QED BY <3>1, <3>3 DEF StepEffect
  <2>2. CASE ReadSome \/ ReadDrained \/ ParseStops
    <3>1. NoEffect
      BY <2>2, Zenon DEF ReadSome, ReadDrained, ParseStops, NoEffect,
        sockets, handlers, history
    <3> QED BY <3>1 DEF StepEffect
  <2>3. CASE ReadEnds \/ ParseKills
    BY <2>3 DEF ReadEnds, ParseKills, Disconnect, Ending
  <2> QED BY <1>10, <2>1, <2>2, <2>3 DEF HandleRead
<1>11. CASE HandleWrite
  <2>1. CASE WriteSome
    <3>1. writer \in Side
      BY <1>1 DEF ControlTypes
    <3>2. WriteEffect(writer)
      BY <2>1, <3>1, WriteSomeStep
    <3> QED BY <3>1, <3>2 DEF StepEffect
  <2>2. CASE WriteDone \/ WriteBlocked \/ (WriteFails /\ reader # "none")
    <3>1. NoEffect
      BY <2>2, Zenon DEF WriteDone, WriteBlocked, WriteFails, NoEffect,
        sockets, handlers, history
    <3> QED BY <3>1 DEF StepEffect
  <2>3. CASE WriteKills \/ (WriteFails /\ reader = "none")
    BY <2>3 DEF WriteKills, WriteFails, Disconnect, Ending
  <2> QED BY <1>11, <2>1, <2>2, <2>3 DEF HandleWrite
<1>12. CASE Next
  BY <1>4, <1>5, <1>6, <1>7, <1>8, <1>9, <1>10, <1>11, <1>12 DEF Next, Peers, Worker
<1> QED BY <1>2, <1>12

-----------------------------------------------------------------------------
(* Every message queued is completed at its turn.                          *)

\* The messages completed at t are the first of those queued there, whether a
\* message counts as complete with its header (early) or with its last unit.
MarkedFor(t, early) ==
  \E lost : Marked(early, got[t], out[t], queue[t], QueuedNumbers(t), reset[t], lost)

MarkInv(t) ==
  /\ queue[t] \in Seq(WholeContexts)
  /\ \A early \in BOOLEAN : MarkedFor(t, early)

LEMMA MarkFrame ==
  ASSUME NEW t, MarkInv(t), got'[t] = got[t], out'[t] = out[t], queue'[t] = queue[t],
         queued'[t] = queued[t], reset'[t] = reset[t]
  PROVE  MarkInv(t)'
<1>1. QueuedNumbers(t)' = QueuedNumbers(t)
  BY DEF QueuedNumbers
<1> QED BY <1>1, Zenon DEF MarkInv, MarkedFor

LEMMA MarkTakes ==
  ASSUME LiveInv, NEW s \in Side, TakeEffect(s), MarkInv(s)
  PROVE  MarkInv(s)'
<1>1. /\ got \in [Side -> Seq(Units)] /\ out \in [Side -> Seq(Units)]
      /\ got[s] \in Seq(Units) /\ out[s] \in Seq(Units) /\ out[s] # <<>>
  BY DEF LiveInv, DataTypes, TakeEffect
<1>2. got'[s] = Append(got[s], Head(out[s])) /\ out'[s] = Tail(out[s])
  BY <1>1, Zenon DEF TakeEffect
<1>3. QueuedNumbers(s)' = QueuedNumbers(s) /\ queue' = queue /\ reset' = reset
  BY DEF QueuedNumbers, TakeEffect
<1>4. ASSUME NEW early \in BOOLEAN PROVE MarkedFor(s, early)'
  <2>1. PICK lost : Marked(early, got[s], out[s], queue[s], QueuedNumbers(s), reset[s], lost)
    BY DEF MarkInv, MarkedFor
  <2>2. Marked(early, Append(got[s], Head(out[s])), Tail(out[s]), queue[s], QueuedNumbers(s),
               reset[s], lost)
    BY <1>1, <2>1, MarkedTaken
  <2>3. Marked(early, got'[s], out'[s], queue'[s], QueuedNumbers(s)', reset'[s], lost)
    BY <1>2, <1>3, <2>2, Zenon
  <2> QED BY <2>3, Zenon DEF MarkedFor
<1> QED BY <1>3, <1>4, Zenon DEF MarkInv

LEMMA MarkResets ==
  ASSUME LiveInv, NEW s \in Side, ResetEffect(s), MarkInv(s)
  PROVE  MarkInv(s)'
<1>1. /\ out \in [Side -> Seq(Units)] /\ reset \in [Side -> BOOLEAN]
      /\ got[s] \in Seq(Units) /\ out[s] \in Seq(Units)
  BY DEF LiveInv, DataTypes, ControlTypes
<1>2. out'[s] = <<>> /\ reset'[s] = TRUE
  BY <1>1, Zenon DEF ResetEffect
<1>3. QueuedNumbers(s)' = QueuedNumbers(s) /\ queue' = queue /\ got' = got
  BY DEF QueuedNumbers, ResetEffect
<1>4. ASSUME NEW early \in BOOLEAN PROVE MarkedFor(s, early)'
  <2>1. PICK lost : Marked(early, got[s], out[s], queue[s], QueuedNumbers(s), reset[s], lost)
    BY DEF MarkInv, MarkedFor
  <2>2. Marked(early, got[s], <<>>, queue[s], QueuedNumbers(s), TRUE,
               Cat(FlatMap(Mark(early), out[s]), lost))
    BY <1>1, <2>1, MarkedReset
  <2> PICK gone : gone = Cat(FlatMap(Mark(early), out[s]), lost)
    OBVIOUS
  <2>3. Marked(early, got'[s], out'[s], queue'[s], QueuedNumbers(s)', reset'[s], gone)
    BY <1>2, <1>3, <2>2, Zenon
  <2> QED BY <2>3, Zenon DEF MarkedFor
<1> QED BY <1>3, <1>4, Zenon DEF MarkInv

LEMMA MarkWrites ==
  ASSUME LiveInv, NEW t \in Side, WriteEffect(t), MarkInv(t)
  PROVE  MarkInv(t)'
<1>1. /\ got[t] \in Seq(Units) /\ out[t] \in Seq(Units) /\ queue[t] \in Seq(Context)
      /\ reset[t] = FALSE /\ queue[t] \in Seq(WholeContexts) /\ queue[t] # <<>>
  BY DEF LiveInv, DataTypes, ControlTypes, WriteEffect, MarkInv
<1> PICK que : que = queue[t]
  OBVIOUS
<1>2. PICK n \in 0 .. Len(Buffer(que[1])) :
        /\ queue'[t] = AfterWriting(que, n)
        /\ out'[t] = Cat(out[t], SubSeq(Buffer(que[1]), 1, n))
  BY Zenon DEF WriteEffect
<1> PICK que2 : que2 = AfterWriting(que, n)
  OBVIOUS
<1> PICK written : written = SubSeq(Buffer(que[1]), 1, n)
  OBVIOUS
<1>3. QueuedNumbers(t)' = QueuedNumbers(t) /\ reset' = reset /\ got' = got
  BY DEF QueuedNumbers, WriteEffect
<1>4. /\ que2 \in Seq(WholeContexts) /\ que2 \in Seq(Context) /\ written \in Seq(Units)
      /\ \/ FlatMap(Unsents, que) = Cat(written, FlatMap(Unsents, que2))
         \/ /\ \A early \in BOOLEAN : FlatMap(Mark(early), written) = <<>>
            /\ FlatMap(Unsents, que) = FlatMap(Unsents, que2)
  <2>1. que \in Seq(Context) /\ que \in Seq(WholeContexts) /\ que # <<>>
    BY <1>1
  <2>2. /\ AfterWriting(que, n) \in Seq(Context)
        /\ SubSeq(Buffer(que[1]), 1, n) \in Seq(Units)
        /\ ~ (que[1].phase = "SEND_CONTENT" /\ n < Len(Buffer(que[1]))) =>
             FlatMap(Unsents, que)
               = Cat(SubSeq(Buffer(que[1]), 1, n), FlatMap(Unsents, AfterWriting(que, n)))
    BY ONLY <2>1, n \in 0 .. Len(Buffer(que[1])), WriteAdvances
  <2>3. /\ AfterWriting(que, n) \in Seq(WholeContexts)
        /\ que[1].phase = "SEND_CONTENT" /\ n < Len(Buffer(que[1])) =>
             /\ FlatMap(Unsents, AfterWriting(que, n)) = FlatMap(Unsents, que)
             /\ \A early \in BOOLEAN :
                  FlatMap(Mark(early), SubSeq(Buffer(que[1]), 1, n)) = <<>>
    BY ONLY <2>1, n \in 0 .. Len(Buffer(que[1])), WriteKeepsWhole
  <2> QED BY ONLY <2>2, <2>3, que2 = AfterWriting(que, n),
               written = SubSeq(Buffer(que[1]), 1, n), Zenon
<1>5. ASSUME NEW early \in BOOLEAN PROVE MarkedFor(t, early)'
  <2>1. PICK lost : Marked(early, got[t], out[t], que, QueuedNumbers(t), FALSE, lost)
    BY <1>1 DEF MarkInv, MarkedFor
  <2>2. \/ FlatMap(Unsents, que) = Cat(written, FlatMap(Unsents, que2))
        \/ /\ FlatMap(Mark(early), written) = <<>>
           /\ FlatMap(Unsents, que) = FlatMap(Unsents, que2)
    BY <1>4
  <2>3. \E lost2 : Marked(early, got[t], Cat(out[t], written), que2, QueuedNumbers(t), FALSE, lost2)
    <3>1. /\ got[t] \in Seq(Units) /\ out[t] \in Seq(Units)
          /\ written \in Seq(Units) /\ que2 \in Seq(Context)
      BY <1>1, <1>4
    <3> QED BY ONLY early \in BOOLEAN, <2>1, <2>2, <3>1, MarkedWritten
  <2>4. PICK lost2 :
          Marked(early, got'[t], out'[t], queue'[t], QueuedNumbers(t)', reset'[t], lost2)
    BY <1>1, <1>2, <1>3, <2>3, Zenon
  <2> QED BY <2>4, Zenon DEF MarkedFor
<1>6. queue'[t] \in Seq(WholeContexts)
  BY <1>2, <1>4
<1> QED BY <1>5, <1>6, Zenon DEF MarkInv

\* A message n of a kind was queued at t.
QueueEffect(t, kind, n) ==
  /\ queue'[t] = Append(queue[t], NewContext(kind, n))
  /\ QueuedNumbers(t)' = Append(QueuedNumbers(t), n)
  /\ \A r \in Side : r # t => queue'[r] = queue[r] /\ queued'[r] = queued[r]

LEMMA EnqueueEffect ==
  ASSUME LiveInv, NEW t \in Side, NEW kind \in Kinds, NEW n \in Requests,
         Enqueue(t, NewContext(kind, n))
  PROVE  QueueEffect(t, kind, n)
<1> PICK c : c = NewContext(kind, n)
  OBVIOUS
<1> PICK m : m = <<kind, n>>
  OBVIOUS
<1>1. c \in Context /\ c.msg = m /\ m \in Kinds \X Requests /\ NumberOf[m] = n
  <2>1. m \in Kinds \X Requests /\ m[2] = n
    OBVIOUS
  <2> QED BY <2>1, NewContextType DEF NumberOf
<1>2. /\ queue \in [Side -> Seq(Context)] /\ queued \in [Side -> Seq(Kinds \X Requests)]
      /\ queue[t] \in Seq(Context) /\ queued[t] \in Seq(Kinds \X Requests)
  BY DEF LiveInv, DataTypes
<1> PICK q : q = Append(queue[t], c)
  OBVIOUS
<1> PICK qd : qd = Append(queued[t], m)
  OBVIOUS
<1>3. q \in Seq(Context) /\ qd \in Seq(Kinds \X Requests)
  BY <1>1, <1>2, AppendProperties
<1>4. queue' = [queue EXCEPT ![t] = q] /\ queued' = [queued EXCEPT ![t] = qd]
  BY <1>1, Zenon DEF Enqueue
<1>5. /\ queue'[t] = q /\ \A r \in Side : r # t => queue'[r] = queue[r]
      /\ queued'[t] = qd /\ \A r \in Side : r # t => queued'[r] = queued[r]
  BY <1>2, <1>3, <1>4, Changed
<1>6. MapEach(NumberOf, qd) = Append(MapEach(NumberOf, queued[t]), n)
  <2>1. MapEach(NumberOf, Append(queued[t], m)) = Append(MapEach(NumberOf, queued[t]), NumberOf[m])
    <3>1. queued[t] \in Seq(Kinds \X Requests) /\ m \in Kinds \X Requests
      BY <1>1, <1>2
    <3>2. /\ MapEach(NumberOf, Cat(queued[t], One(m)))
               = Cat(MapEach(NumberOf, queued[t]), One(NumberOf[m]))
          /\ MapEach(NumberOf, queued[t]) \in Seq(Requests)
      BY ONLY <3>1, NumberOfType, MapEachOfAppend
    <3>3. Append(queued[t], m) = Cat(queued[t], One(m))
      BY <3>1, AppendIsCat
    <3>4. Append(MapEach(NumberOf, queued[t]), NumberOf[m]) = Cat(MapEach(NumberOf, queued[t]), One(NumberOf[m]))
      BY <1>1, <3>2, AppendIsCat
    <3> QED BY <3>2, <3>3, <3>4, Zenon
  <2> QED BY <1>1, <2>1, Zenon
<1>7. QueuedNumbers(t)' = Append(QueuedNumbers(t), n)
  BY <1>5, <1>6, Zenon DEF QueuedNumbers
<1> QED BY <1>5, <1>7, Zenon DEF QueueEffect

LEMMA MarkQueues ==
  ASSUME LiveInv, NEW t \in Side, NEW kind \in Kinds, NEW n \in Requests,
         QueueEffect(t, kind, n), UNCHANGED <<out, reset, got>>, MarkInv(t)
  PROVE  MarkInv(t)'
<1>1. /\ got[t] \in Seq(Units) /\ out[t] \in Seq(Units) /\ queue[t] \in Seq(Context)
      /\ queue[t] \in Seq(WholeContexts)
  BY DEF LiveInv, DataTypes, MarkInv
<1> PICK c : c = NewContext(kind, n)
  OBVIOUS
<1>2. c \in WholeContexts
  <2>1. c \in Context /\ c.msg = <<kind, n>> /\ c.content = Content(kind, n)
    BY NewContextType DEF NewContext
  <2>2. c.msg[1] = kind /\ c.msg[2] = n
    BY <2>1
  <2> QED BY <2>1, <2>2 DEF WholeContexts
<1>3. Append(queue[t], c) \in Seq(WholeContexts)
  BY <1>1, <1>2, AppendProperties
<1>4. queue'[t] = Append(queue[t], c) /\ QueuedNumbers(t)' = Append(QueuedNumbers(t), n)
  BY DEF QueueEffect
<1>5. ASSUME NEW early \in BOOLEAN PROVE MarkedFor(t, early)'
  <2>1. PICK lost : Marked(early, got[t], out[t], queue[t], QueuedNumbers(t), reset[t], lost)
    BY DEF MarkInv, MarkedFor
  <2>2. Marked(early, got[t], out[t], Append(queue[t], c), Append(QueuedNumbers(t), n),
               reset[t], Append(lost, n))
    BY <1>1, <2>1, MarkedQueued
  <2> PICK lost2 : lost2 = Append(lost, n)
    OBVIOUS
  <2>3. Marked(early, got'[t], out'[t], queue'[t], QueuedNumbers(t)', reset'[t], lost2)
    BY <1>4, <2>2, Zenon
  <2> QED BY <2>3, Zenon DEF MarkedFor
<1> QED BY <1>3, <1>4, <1>5, Zenon DEF MarkInv

-----------------------------------------------------------------------------
(* The way of a request: H are the requests answered here, P the numbers   *)
(* of the requests parsed, B those of the requests queued for the backend, *)
(* D those of the responses parsed, and Q those of the answers queued for  *)
(* the client.                                                             *)

\* A session keeps the order if it answers none of the requests, or all, or has no
\* two of them at a time.
OrderKept(H) == KeepsOrder => H = {} \/ H = Requests \/ ~ Pipelining

\* The backend gets requests that were parsed, and in their order.
Forwarded(H, P, B) ==
  /\ \A i \in Places(B) : B[i] \notin H /\ B[i] <= Len(P)
  /\ \A i, j \in Places(B) : i < j => B[i] < B[j]

\* An answer is to a request that was parsed, is the backend's response unless it
\* is given here, and is the only one.
Answered(H, P, D, Q) ==
  /\ \A k \in Places(Q) : Q[k] <= Len(P)
  /\ \A k \in Places(Q) : Q[k] \notin H => \E i \in Places(D) : D[i] = Q[k]
  /\ \A i, j \in Places(Q) : Q[i] = Q[j] => i = j

\* A session that answers nothing itself forwards everything.
AllForwarded(H, P, B) == H = {} => Len(B) = Len(P) /\ \A i \in Places(B) : B[i] = i

\* Without pipelining at most one request is not answered, the last one forwarded.
OneAtATime(P, B, Q) ==
  ~ Pipelining =>
    /\ Len(P) <= Len(Q) + 1
    /\ Len(Q) < Len(P) => Len(B) > 0 /\ B[Len(B)] = Len(P)

\* Where the session keeps the order, the k-th answer is to the k-th request.
InOrder(Q) == KeepsOrder => \A k \in Places(Q) : Q[k] = k

\* The responses come in the order of the requests the backend was given, and each
\* request has become a request to the backend or an answer, so has each response.
Routed(H, P, B, D, Q) ==
  /\ \A k \in Places(P) : P[k] = k
  /\ Begins(D, B)
  /\ Forwarded(H, P, B)
  /\ Answered(H, P, D, Q)
  /\ Len(Q) + Len(B) = Len(D) + Len(P)
  /\ AllForwarded(H, P, B)
  /\ OneAtATime(P, B, Q)
  /\ InOrder(Q)

LEMMA NumberSeq ==
  ASSUME NEW p \in Seq(Requests)
  PROVE  Len(p) \in Nat /\ \A k \in Places(p) : p[k] \in Requests /\ p[k] \in Nat /\ p[k] >= 1
<1>1. Len(p) \in Nat /\ \A k \in 1 .. Len(p) : p[k] \in Requests
  BY LenProperties, ElementOfSeq
<1>2. \A n \in Requests : n \in Nat /\ n >= 1
  BY RelayAssumption DEF Requests
<1> QED BY <1>1, <1>2 DEF Places

\* q is p with x at its end.
Longer(p, x, q) ==
  /\ Len(q) = Len(p) + 1 /\ q[Len(q)] = x
  /\ \A k \in Places(p) : q[k] = p[k] /\ k # Len(q)
  /\ Places(q) = Places(p) \cup {Len(q)}

LEMMA AppendedIsLonger ==
  ASSUME NEW p \in Seq(Requests), NEW x \in Requests
  PROVE  Append(p, x) \in Seq(Requests) /\ Longer(p, x, Append(p, x))
<1> PICK q : q = Append(p, x)
  OBVIOUS
<1>1. /\ q \in Seq(Requests) /\ Len(q) = Len(p) + 1 /\ q[Len(p) + 1] = x
      /\ \A k \in 1 .. Len(p) : q[k] = p[k]
  BY AppendProperties
<1>2. Len(p) \in Nat
  BY LenProperties
<1>3. /\ Places(q) = Places(p) \cup {Len(q)}
      /\ \A k \in Places(p) : k # Len(q)
  BY <1>1, <1>2 DEF Places
<1> QED BY <1>1, <1>3 DEF Longer, Places

\* A request is answered here.
LEMMA AnsweredHere ==
  ASSUME NEW H, OrderKept(H), NEW P \in Seq(Requests), NEW B \in Seq(Requests), NEW D \in Seq(Requests),
         NEW Q \in Seq(Requests), Routed(H, P, B, D, Q),
         NEW n \in Requests, n = Len(P) + 1, n \in H, ~ Pipelining => Len(P) <= Len(Q),
         NEW P2, Longer(P, n, P2), NEW Q2, Longer(Q, n, Q2)
  PROVE  Routed(H, P2, B, D, Q2)
<1>1. /\ Len(P) \in Nat /\ Len(B) \in Nat /\ Len(D) \in Nat /\ Len(Q) \in Nat
      /\ \A k \in Places(B) : B[k] \in Requests /\ B[k] \in Nat
      /\ \A k \in Places(Q) : Q[k] \in Nat
  BY NumberSeq
<1>2. Len(P2) = Len(P) + 1 /\ Len(Q2) = Len(Q) + 1 /\ P2[Len(P2)] = n /\ Q2[Len(Q2)] = n
  BY DEF Longer
<1>3. \A k \in Places(P2) : P2[k] = k
  BY <1>2 DEF Routed, Longer
<1>4. Forwarded(H, P2, B)
  BY <1>1, <1>2 DEF Routed, Forwarded
<1>5. Answered(H, P2, D, Q2)
  <2>1. ASSUME NEW k \in Places(Q2) PROVE Q2[k] <= Len(P2)
    BY <1>1, <1>2 DEF Routed, Answered, Longer
  <2>2. ASSUME NEW k \in Places(Q2), Q2[k] \notin H PROVE \E i \in Places(D) : D[i] = Q2[k]
    <3>1. k \in Places(Q) /\ Q2[k] = Q[k]
      BY <1>2, <2>2 DEF Longer
    <3> QED BY <2>2, <3>1 DEF Routed, Answered
  <2>3. ASSUME NEW i \in Places(Q2), NEW j \in Places(Q2), Q2[i] = Q2[j] PROVE i = j
    <3>1. \A k \in Places(Q) : Q2[k] = Q[k] /\ Q[k] # n
      BY <1>1 DEF Routed, Answered, Longer
    <3>2. \A k \in Places(Q2) : k \in Places(Q) \/ k = Len(Q2)
      BY DEF Longer
    <3> QED BY <1>2, <2>3, <3>1, <3>2 DEF Routed, Answered
  <2> QED BY <2>1, <2>2, <2>3 DEF Answered
<1>6. Len(Q2) + Len(B) = Len(D) + Len(P2)
  <2>1. Len(Q) + Len(B) = Len(D) + Len(P)
    BY DEF Routed
  <2> QED BY ONLY <1>1, <1>2, <2>1
<1>7. AllForwarded(H, P2, B)
  BY DEF AllForwarded
<1>8. OneAtATime(P2, B, Q2)
  BY <1>1, <1>2 DEF OneAtATime
<1>9. InOrder(Q2)
  <2>1. SUFFICES ASSUME KeepsOrder, NEW k \in Places(Q2) PROVE Q2[k] = k
    BY DEF InOrder
  <2>2. CASE k \in Places(Q)
    BY <2>1, <2>2 DEF Routed, InOrder, Longer
  <2>3. CASE k = Len(Q2)
    <3>1. Len(D) <= Len(B)
      BY DEF Routed, Begins
    <3>2. Len(Q) = Len(P)
      <4>1. CASE H = Requests
        <5>1. Len(B) = 0
          <6>1. SUFFICES ASSUME Len(B) # 0 PROVE FALSE
            OBVIOUS
          <6>2. 1 \in Places(B)
            BY <1>1, <6>1 DEF Places
          <6> QED BY <1>1, <4>1, <6>2 DEF Routed, Forwarded
        <5> QED BY <1>1, <3>1, <5>1 DEF Routed
      <4>2. CASE ~ Pipelining
        BY <1>1, <3>1, <4>2 DEF Routed
      <4> QED BY <2>1, <4>1, <4>2 DEF OrderKept
    <3> QED BY <1>2, <2>3, <3>2
  <2> QED BY <2>2, <2>3 DEF Longer
<1> QED BY <1>3, <1>4, <1>5, <1>6, <1>7, <1>8, <1>9 DEF Routed

\* A request is forwarded.
LEMMA RequestForwarded ==
  ASSUME NEW H, OrderKept(H), NEW P \in Seq(Requests), NEW B \in Seq(Requests), NEW D \in Seq(Requests),
         NEW Q \in Seq(Requests), Routed(H, P, B, D, Q),
         NEW n \in Requests, n = Len(P) + 1, n \notin H, ~ Pipelining => Len(P) <= Len(Q),
         NEW P2, Longer(P, n, P2), NEW B2, Longer(B, n, B2)
  PROVE  Routed(H, P2, B2, D, Q)
<1>1. /\ Len(P) \in Nat /\ Len(B) \in Nat /\ Len(D) \in Nat /\ Len(Q) \in Nat
      /\ \A k \in Places(B) : B[k] \in Requests /\ B[k] \in Nat
      /\ \A k \in Places(Q) : Q[k] \in Nat
  BY NumberSeq
<1>2. Len(P2) = Len(P) + 1 /\ Len(B2) = Len(B) + 1 /\ P2[Len(P2)] = n /\ B2[Len(B2)] = n
  BY DEF Longer
<1>3. \A k \in Places(P2) : P2[k] = k
  BY <1>2 DEF Routed, Longer
<1>4. Forwarded(H, P2, B2)
  <2>1. \A k \in Places(B2) : k \in Places(B) \/ k = Len(B2)
    BY DEF Longer
  <2>2. \A k \in Places(B) : B2[k] = B[k] /\ B[k] \notin H /\ B[k] <= Len(P) /\ k \in Nat /\ k <= Len(B)
    BY <1>1 DEF Routed, Forwarded, Longer, Places
  <2>3. ASSUME NEW i \in Places(B2) PROVE B2[i] \notin H /\ B2[i] <= Len(P2)
    <3>1. CASE i \in Places(B)
      <4>1. B2[i] = B[i] /\ B[i] \notin H /\ B[i] <= Len(P) /\ B[i] \in Nat
        BY <1>1, <2>2, <3>1
      <4>2. B[i] <= Len(P2)
        BY ONLY <1>1, <1>2, <4>1
      <4> QED BY <4>1, <4>2
    <3>2. CASE i = Len(B2)
      <4>1. B2[i] = n /\ n = Len(P2)
        BY <1>2, <3>2
      <4>2. n \notin H /\ n <= Len(P2)
        BY <1>1, <1>2, <4>1
      <4> QED BY <4>1, <4>2, Zenon
    <3> QED BY <2>1, <3>1, <3>2
  <2>4. ASSUME NEW i \in Places(B2), NEW j \in Places(B2), i < j PROVE B2[i] < B2[j]
    <3>1. i \in Places(B)
      <4>1. CASE i = Len(B2)
        <5>1. j \in Nat /\ j <= Len(B2)
          BY <1>1, <1>2, <2>1, <2>2
        <5>2. FALSE
          BY ONLY <1>1, <1>2, <2>4, <4>1, <5>1
        <5> QED BY <5>2
      <4> QED BY <2>1, <4>1
    <3>2. CASE j \in Places(B)
      BY <2>2, <2>4, <3>1, <3>2 DEF Routed, Forwarded
    <3>3. CASE j = Len(B2)
      BY <1>1, <1>2, <2>2, <3>1, <3>3
    <3> QED BY <2>1, <3>2, <3>3
  <2> QED BY <2>3, <2>4 DEF Forwarded
<1>5. Answered(H, P2, D, Q)
  BY <1>1, <1>2 DEF Routed, Answered
<1>6. Len(Q) + Len(B2) = Len(D) + Len(P2)
  <2>1. Len(Q) + Len(B) = Len(D) + Len(P)
    BY DEF Routed
  <2> QED BY ONLY <1>1, <1>2, <2>1
<1>7. Begins(D, B2)
  <2>1. \A i \in Places(D) : i \in Places(B)
    BY <1>1 DEF Routed, Begins, Places
  <2> QED BY <1>1, <1>2, <2>1 DEF Routed, Begins, Longer
<1>8. AllForwarded(H, P2, B2)
  BY <1>1, <1>2 DEF Routed, AllForwarded, Longer
<1>9. OneAtATime(P2, B2, Q)
  BY <1>1, <1>2 DEF Routed, OneAtATime
<1> QED BY <1>3, <1>4, <1>5, <1>6, <1>7, <1>8, <1>9 DEF Routed

\* The backend has answered a request.
LEMMA ResponsePassed ==
  ASSUME NEW H, OrderKept(H), NEW P \in Seq(Requests), NEW B \in Seq(Requests), NEW D \in Seq(Requests),
         NEW Q \in Seq(Requests), Routed(H, P, B, D, Q),
         NEW n \in Requests, Len(D) + 1 <= Len(B), n = B[Len(D) + 1],
         NEW D2, Longer(D, n, D2), NEW Q2, Longer(Q, n, Q2)
  PROVE  Routed(H, P, B, D2, Q2)
<1>1. /\ Len(P) \in Nat /\ Len(B) \in Nat /\ Len(D) \in Nat /\ Len(Q) \in Nat
      /\ \A k \in Places(B) : B[k] \in Requests /\ B[k] \in Nat
      /\ \A k \in Places(Q) : Q[k] \in Nat
  BY NumberSeq
<1>2. Len(D2) = Len(D) + 1 /\ Len(Q2) = Len(Q) + 1 /\ D2[Len(D2)] = n /\ Q2[Len(Q2)] = n
  BY DEF Longer
<1>3. Len(D) + 1 \in Places(B) /\ n \notin H /\ n <= Len(P)
  BY <1>1 DEF Routed, Forwarded, Places
<1>4. Begins(D2, B)
  <2>1. \A i \in Places(D2) : i \in Places(D) \/ i = Len(D2)
    BY DEF Longer
  <2> QED BY <1>1, <1>2, <2>1 DEF Routed, Begins, Longer
<1>5. Answered(H, P, D2, Q2)
  <2>1. \A k \in Places(Q2) : k \in Places(Q) \/ k = Len(Q2)
    BY DEF Longer
  <2>2. \A k \in Places(Q) : Q2[k] = Q[k]
    BY DEF Longer
  <2>3. \A k \in Places(D) : D2[k] = D[k] /\ k \in Places(D2) /\ Len(D2) \in Places(D2)
    BY <1>1, <1>2 DEF Longer, Places
  <2>4. ASSUME NEW k \in Places(Q2) PROVE Q2[k] <= Len(P)
    BY <1>2, <1>3, <2>1, <2>2 DEF Routed, Answered
  <2>5. ASSUME NEW k \in Places(Q2), Q2[k] \notin H PROVE \E i \in Places(D2) : D2[i] = Q2[k]
    <3>1. CASE k \in Places(Q)
      <4>1. PICK i \in Places(D) : D[i] = Q[k]
        BY <2>2, <2>5, <3>1 DEF Routed, Answered
      <4> QED BY <2>2, <2>3, <3>1, <4>1
    <3>2. CASE k = Len(Q2)
      <4>1. Len(D2) \in Places(D2)
        BY DEF Longer
      <4> QED BY <1>2, <3>2, <4>1
    <3> QED BY <2>1, <3>1, <3>2
  <2>6. ASSUME NEW k \in Places(Q) PROVE Q[k] # n
    <3>1. SUFFICES ASSUME Q[k] = n PROVE FALSE
      OBVIOUS
    <3>2. PICK i \in Places(D) : D[i] = n
      BY <1>3, <3>1 DEF Routed, Answered
    <3>3. i \in Places(B) /\ B[i] = n /\ i < Len(D) + 1
      BY <1>1, <3>2 DEF Routed, Begins, Places
    <3>4. B[i] < B[Len(D) + 1]
      BY <1>3, <3>3 DEF Routed, Forwarded
    <3> QED BY <1>1, <1>3, <3>3, <3>4
  <2>7. ASSUME NEW i \in Places(Q2), NEW j \in Places(Q2), Q2[i] = Q2[j] PROVE i = j
    BY <1>2, <2>1, <2>2, <2>6, <2>7 DEF Routed, Answered
  <2> QED BY <2>4, <2>5, <2>7 DEF Answered
<1>6. Len(Q2) + Len(B) = Len(D2) + Len(P)
  <2>1. Len(Q) + Len(B) = Len(D) + Len(P)
    BY DEF Routed
  <2> QED BY ONLY <1>1, <1>2, <2>1
<1>7. OneAtATime(P, B, Q2)
  BY <1>1, <1>2 DEF Routed, OneAtATime
<1>8. InOrder(Q2)
  <2>1. SUFFICES ASSUME KeepsOrder, NEW k \in Places(Q2) PROVE Q2[k] = k
    BY DEF InOrder
  <2>2. CASE k \in Places(Q)
    BY <2>1, <2>2 DEF Routed, InOrder, Longer
  <2>3. CASE k = Len(Q2)
    <3>1. CASE H = {}
      <4>1. Len(B) = Len(P) /\ B[Len(D) + 1] = Len(D) + 1
        BY <1>3, <3>1 DEF Routed, AllForwarded
      <4> QED BY <1>1, <1>2, <2>3, <4>1 DEF Routed
    <3>2. CASE H = Requests
      BY <1>3, <3>2
    <3>3. CASE ~ Pipelining
      <4>1. Len(Q) < Len(P) /\ Len(P) <= Len(Q) + 1 /\ B[Len(B)] = Len(P)
        BY <1>1, <3>3 DEF Routed, OneAtATime
      <4>2. Len(D) + 1 = Len(B)
        BY <1>1, <4>1 DEF Routed
      <4> QED BY <1>1, <1>2, <2>3, <4>1, <4>2
    <3> QED BY <2>1, <3>1, <3>2, <3>3 DEF OrderKept
  <2> QED BY <2>2, <2>3 DEF Longer
<1> QED BY <1>4, <1>5, <1>6, <1>7, <1>8 DEF Routed

-----------------------------------------------------------------------------
(* What a stream has of its messages.                                      *)

\* The units of the messages parsed were sent.
LEMMA ParsedWasSent ==
  ASSUME NEW M, Maps(M, Requests, Seq(Received)),
         NEW nums, NEW prs \in Seq(Requests), NEW snt \in Seq(Received),
         NEW held \in Seq(Received), NEW inn \in Seq(Received), NEW rest, NEW tail,
         Stream(M, nums, prs, snt, held, inn, rest, tail),
         NEW k \in Places(prs), NEW x, Has(M[prs[k]], x)
  PROVE  Has(snt, x)
<1>1. Cat(FlatMap(M, prs), Cat(held, inn)) = snt
  BY StreamConserves
<1>2. FlatMap(M, prs) \in Seq(Received) /\ Cat(held, inn) \in Seq(Received)
  BY FlatMapType, CatType
<1>3. Has(FlatMap(M, prs), x)
  BY FlatMapHas
<1>4. Has(Cat(FlatMap(M, prs), Cat(held, inn)), x)
  BY <1>2, <1>3, CatHas
<1> QED BY <1>1, <1>4, Zenon

\* The first and the last unit of a request.
LEMMA RequestHas ==
  ASSUME NEW n \in Requests
  PROVE  /\ Has(Messages("req")[n], UnitAt("req", n, 1))
         /\ Has(Messages("req")[n], UnitAt("req", n, LastPart("req", n)))
<1>1. "req" \in Kinds /\ Kinds \in SUBSET Kinds
  BY DEF Kinds
<1> PICK head : head = Header("req", n)
  OBVIOUS
<1> PICK body : body = Content("req", n)
  OBVIOUS
<1> PICK len : len = ContentLen("req", n)
  OBVIOUS
<1>2. /\ head \in Seq(Units) /\ Len(head) = HeaderLen
      /\ \A k \in 1 .. HeaderLen : head[k] = UnitAt("req", n, k)
      /\ len \in Nat /\ body \in Seq(Units) /\ Len(body) = len
      /\ Messages("req")[n] = Cat(head, body)
  BY <1>1, MessageParts, MessagesType DEF Units
<1>3. \A k \in 1 .. len : body[k] = UnitAt("req", n, HeaderLen + k)
  BY <1>1, ContentUnits
<1>4. HeaderLen \in Nat \ {0} /\ LastPart("req", n) = HeaderLen + len
  BY RelayAssumption DEF LastPart
<1>5. Has(head, UnitAt("req", n, 1))
  <2>1. 1 \in 1 .. HeaderLen
    BY <1>4
  <2> QED BY <1>2, <2>1 DEF Has, Places
<1>6. Has(head, UnitAt("req", n, HeaderLen + len)) \/ Has(body, UnitAt("req", n, HeaderLen + len))
  <2>1. CASE len = 0
    <3>1. HeaderLen \in 1 .. HeaderLen /\ HeaderLen + len = HeaderLen
      BY <1>4, <2>1
    <3> QED BY <1>2, <3>1 DEF Has, Places
  <2>2. CASE len # 0
    <3>1. len \in 1 .. len
      BY <1>2, <2>2
    <3> QED BY <1>2, <1>3, <3>1 DEF Has, Places
  <2> QED BY <2>1, <2>2
<1> QED BY <1>2, <1>4, <1>5, <1>6, CatHas

-----------------------------------------------------------------------------
(* The delivery of a message.                                              *)

\* n is the number of the first message of a side that is not parsed.
IsNext(s, n) ==
  \E rest \in Seq(Requests) : rest # <<>> /\ rest[1] = n /\ Cat(parsed[s], rest) = Nums(s)

Delivers(s, n) ==
  /\ IsNext(s, n)
  /\ \A x : Has(Messages(Kind(s))[n], x) => Has(sent[s], x)
  /\ parsed'[s] = Append(parsed[s], n)
  /\ \A r \in Side : r # s => parsed'[r] = parsed[r]
  /\ RecvContent(Kind(s), n)

LEMMA DeliversNext ==
  ASSUME LiveInv, NEW s \in Side, DeliverEffect(s)
  PROVE  \E n \in Requests : Delivers(s, n)
<1>1. PICK rest, tail : \E left \in Seq(Received) :
        /\ Stream(Messages(Kind(s)), Nums(s), parsed[s], sent[s], Held(s), in[s], rest, tail)
        /\ rest # <<>> /\ Held(s) = Cat(Messages(Kind(s))[rest[1]], left)
        /\ parsed' = [parsed EXCEPT ![s] = Append(@, rest[1])]
        /\ RecvContent(Kind(s), rest[1])
  BY Zenon DEF DeliverEffect, Delivered
<1>2. PICK left \in Seq(Received) :
        /\ Stream(Messages(Kind(s)), Nums(s), parsed[s], sent[s], Held(s), in[s], rest, tail)
        /\ rest # <<>> /\ Held(s) = Cat(Messages(Kind(s))[rest[1]], left)
        /\ parsed' = [parsed EXCEPT ![s] = Append(@, rest[1])]
        /\ RecvContent(Kind(s), rest[1])
  BY <1>1, Zenon
<1> PICK n : n = rest[1]
  OBVIOUS
<1> PICK M : M = Messages(Kind(s))
  OBVIOUS
<1>3. rest \in Seq(Requests) /\ rest # <<>> /\ n \in Requests /\ Cat(parsed[s], rest) = Nums(s)
  <2>1. rest \in Seq(Requests) /\ rest # <<>> /\ Cat(parsed[s], rest) = Nums(s)
    BY <1>2, Zenon DEF Stream
  <2> QED BY <2>1, FrontAndRest
<1>4. /\ parsed \in [Side -> Seq(Requests)] /\ parsed[s] \in Seq(Requests)
      /\ sent[s] \in Seq(Received) /\ in[s] \in Seq(Received)
  BY DEF LiveInv, DataTypes
<1> PICK prs : prs = Append(parsed[s], n)
  OBVIOUS
<1>5. prs \in Seq(Requests) /\ Len(prs) \in Places(prs) /\ prs[Len(prs)] = n
  BY <1>3, <1>4, AppendedIsLonger DEF Longer
<1>6. parsed'[s] = prs /\ \A r \in Side : r # s => parsed'[r] = parsed[r]
  <2>1. parsed' = [parsed EXCEPT ![s] = prs]
    BY <1>2, Zenon
  <2> QED BY <1>4, <1>5, <2>1, Changed
<1>7. ASSUME NEW x, Has(M[n], x) PROVE Has(sent[s], x)
  <2>1. Maps(M, Requests, Seq(Received))
    BY KindType
  <2>2. /\ Stream(M, Nums(s), parsed[s], sent[s], Held(s), in[s], rest, tail)
        /\ Held(s) = Cat(M[rest[1]], left)
    BY <1>2
  <2>3. Stream(M, Nums(s), Append(parsed[s], rest[1]), sent[s], left, in[s], Tail(rest), tail)
    BY ONLY <1>3, <1>4, <2>1, <2>2, left \in Seq(Received), StreamDelivers
  <2>4. Stream(M, Nums(s), prs, sent[s], left, in[s], Tail(rest), tail)
    BY <2>3, Zenon
  <2>5. Has(M[prs[Len(prs)]], x)
    BY <1>5, <1>7
  <2> QED BY ONLY <1>4, <1>5, <2>1, <2>4, <2>5, left \in Seq(Received), ParsedWasSent
<1>8. IsNext(s, n)
  BY <1>3, Zenon DEF IsNext
<1>9. RecvContent(Kind(s), n)
  BY <1>2, Zenon
<1>10. Delivers(s, n)
  BY <1>6, <1>7, <1>8, <1>9, Zenon DEF Delivers
<1> QED BY <1>3, <1>10

\* What a message that is delivered does to the queues.
LEMMA DeliversTo ==
  ASSUME LiveInv, NEW s \in Side, NEW n \in Requests, RecvContent(Kind(s), n)
  PROVE  \/ s = "client" /\ n \in Here /\ QueueEffect("client", "err", n)
         \/ s = "client" /\ n \notin Here /\ QueueEffect("backend", "req", n)
         \/ s = "backend" /\ \E kind \in Kinds : QueueEffect("client", kind, n)
<1>1. /\ "req" \in Kinds /\ "rsp" \in Kinds /\ "err" \in Kinds
      /\ "client" \in Side /\ "backend" \in Side /\ s \in {"client", "backend"}
  BY DEF Kinds, Side
<1>2. CASE s = "client"
  <2>1. Kind(s) = "req"
    BY <1>2 DEF Kind
  <2>2. CASE n \in Here
    <3>1. Enqueue("client", NewContext("err", n))
      BY <2>1, <2>2 DEF RecvContent
    <3> QED BY <1>1, <1>2, <2>2, <3>1, EnqueueEffect
  <2>3. CASE n \notin Here
    <3>1. Enqueue("backend", NewContext("req", n))
      BY <2>1, <2>3 DEF RecvContent
    <3> QED BY <1>1, <1>2, <2>3, <3>1, EnqueueEffect
  <2> QED BY <2>2, <2>3
<1>3. CASE s = "backend"
  <2>1. Kind(s) = "rsp"
    BY <1>3 DEF Kind
  <2>2. \/ Enqueue("client", NewContext("rsp", n))
        \/ Enqueue("client", NewContext("err", n))
    BY <2>1 DEF RecvContent
  <2>3. \E kind \in Kinds : QueueEffect("client", kind, n)
    BY <1>1, <2>2, EnqueueEffect
  <2> QED BY <1>3, <2>3
<1> QED BY <1>1, <1>2, <1>3

\* Every step keeps MarkInv, but the end of the session.
LEMMA MarkStep ==
  ASSUME LiveInv, StepEffect, NEW t \in Side, MarkInv(t)
  PROVE  MarkInv(t)'
<1>1. CASE NoEffect \/ SendEffect("client") \/ SendEffect("backend")
  <2>1. UNCHANGED <<out, reset, queue, got, queued>>
    BY <1>1 DEF NoEffect, SendEffect
  <2> QED BY <2>1, MarkFrame
<1>2. ASSUME NEW s \in Side, TakeEffect(s) PROVE MarkInv(t)'
  <2>1. CASE s = t
    BY <1>2, <2>1, MarkTakes
  <2>2. CASE s # t
    <3>1. got'[t] = got[t] /\ out'[t] = out[t]
      BY <1>2, <2>2 DEF TakeEffect, LiveInv, DataTypes
    <3> QED BY <1>2, <3>1, MarkFrame DEF TakeEffect
  <2> QED BY <2>1, <2>2
<1>3. ASSUME NEW s \in Side, ResetEffect(s) PROVE MarkInv(t)'
  <2>1. CASE s = t
    BY <1>3, <2>1, MarkResets
  <2>2. CASE s # t
    <3>1. reset'[t] = reset[t] /\ out'[t] = out[t]
      BY <1>3, <2>2 DEF ResetEffect, LiveInv, DataTypes, ControlTypes
    <3> QED BY <1>3, <3>1, MarkFrame DEF ResetEffect
  <2> QED BY <2>1, <2>2
<1>4. ASSUME NEW s \in Side, WriteEffect(s) PROVE MarkInv(t)'
  <2>1. CASE s = t
    BY <1>4, <2>1, MarkWrites
  <2>2. CASE s # t
    BY <1>4, <2>2, MarkFrame DEF WriteEffect
  <2> QED BY <2>1, <2>2
<1>5. ASSUME NEW s \in Side, DeliverEffect(s) PROVE MarkInv(t)'
  <2>1. PICK n \in Requests : RecvContent(Kind(s), n)
    BY <1>5, DeliversNext DEF Delivers
  <2>2. UNCHANGED <<out, reset, got>>
    BY <1>5 DEF DeliverEffect
  <2>3. PICK r \in Side, kind \in Kinds : QueueEffect(r, kind, n)
    BY <2>1, DeliversTo DEF Side, Kinds
  <2>4. CASE r = t
    BY <2>2, <2>3, <2>4, MarkQueues
  <2>5. CASE r # t
    <3>1. queue'[t] = queue[t] /\ queued'[t] = queued[t]
      BY <2>3, <2>5 DEF QueueEffect
    <3> QED BY <2>2, <3>1, MarkFrame
  <2> QED BY <2>4, <2>5
<1> QED BY <1>1, <1>2, <1>3, <1>4, <1>5 DEF StepEffect

-----------------------------------------------------------------------------
(* The numbers of the answers.                                             *)

\* The messages complete in what the peer of t has got, and with the socket.
Complete(t, early) == FlatMap(Mark(early), got[t])
Leaving(t, early) == FlatMap(Mark(early), Cat(got[t], out[t]))

LEMMA QueuedNumbersType ==
  ASSUME DataTypes, NEW t \in Side
  PROVE  QueuedNumbers(t) \in Seq(Requests)
<1>1. queued[t] \in Seq(Kinds \X Requests)
  BY DEF DataTypes
<1> QED BY <1>1, NumberOfType, MapEachType DEF QueuedNumbers

LEMMA BeginsTransitive ==
  ASSUME NEW p \in Seq(Requests), NEW q \in Seq(Requests), NEW r \in Seq(Requests),
         Begins(p, q), Begins(q, r)
  PROVE  Begins(p, r)
<1>1. Len(p) \in Nat /\ Len(q) \in Nat /\ Len(r) \in Nat
  BY NumberSeq
<1>2. \A i \in Places(p) : i \in Places(q)
  BY <1>1 DEF Begins, Places
<1> QED BY <1>1, <1>2 DEF Begins

\* What is complete are the first messages queued.
LEMMA CompleteBegins ==
  ASSUME DataTypes, NEW t \in Side, NEW early \in BOOLEAN, MarkInv(t)
  PROVE  /\ Complete(t, early) \in Seq(Requests) /\ Leaving(t, early) \in Seq(Requests)
         /\ Begins(Complete(t, early), QueuedNumbers(t))
         /\ Begins(Leaving(t, early), QueuedNumbers(t))
<1>1. got[t] \in Seq(Units) /\ out[t] \in Seq(Units) /\ QueuedNumbers(t) \in Seq(Requests)
  BY QueuedNumbersType DEF DataTypes
<1>2. /\ Complete(t, early) \in Seq(Requests) /\ FlatMap(Mark(early), out[t]) \in Seq(Requests)
      /\ Leaving(t, early) = Cat(Complete(t, early), FlatMap(Mark(early), out[t]))
  BY <1>1, MarkType, FlatMapType, FlatMapOfCat DEF Complete, Leaving
<1>3. Leaving(t, early) \in Seq(Requests) /\ Begins(Complete(t, early), Leaving(t, early))
  BY <1>2, CatType, CatBegins
<1>4. PICK lost : Marked(early, got[t], out[t], queue[t], QueuedNumbers(t), reset[t], lost)
  BY DEF MarkInv, MarkedFor
<1>5. lost \in Seq(Requests) /\ QueuedNumbers(t) = Cat(Leaving(t, early), lost)
  BY <1>4, Zenon DEF Marked, Leaving
<1>6. Begins(Leaving(t, early), QueuedNumbers(t))
  BY <1>3, <1>5, CatBegins
<1> QED BY <1>1, <1>2, <1>3, <1>6, BeginsTransitive

\* Without pipelining the client starts a request when the last is answered.
InTurn ==
  ~ Pipelining => \A k \in Places(sent["client"]) :
    sent["client"][k][3] = 1 => sent["client"][k][2] <= Len(Complete("client", FALSE)) + 1

\* The lists of Routed, as the session keeps them.
RouteInv ==
  Routed(Here, parsed["client"], QueuedNumbers("backend"), parsed["backend"], QueuedNumbers("client"))

\* The first request not parsed is the one after those that are.
LEMMA NextRequest ==
  ASSUME DataTypes, NEW n, IsNext("client", n)
  PROVE  n = Len(parsed["client"]) + 1
<1>1. parsed["client"] \in Seq(Requests)
  BY DEF DataTypes, Side
<1>2. PICK rest \in Seq(Requests) :
        rest # <<>> /\ rest[1] = n /\ Cat(parsed["client"], rest) = Nums("client")
  BY DEF IsNext
<1> PICK all : all = Nums("client")
  OBVIOUS
<1>3. Len(parsed["client"]) + 1 \in Places(all) /\ all[Len(parsed["client"]) + 1] = n
  BY <1>1, <1>2, CatBegins
<1>4. all = [k \in Requests |-> k] /\ all \in Seq(Requests)
  BY NumsType DEF Nums
<1>5. Places(all) = Requests
  <2>1. DOMAIN all = Requests
    BY <1>4
  <2>2. DOMAIN all = 1 .. Len(all)
    BY <1>4, LenProperties
  <2> QED BY <2>1, <2>2 DEF Places
<1> QED BY <1>3, <1>4, <1>5

\* The first response not parsed answers the request queued at its place.
LEMMA NextResponse ==
  ASSUME DataTypes, MarkInv("backend"), NEW n, IsNext("backend", n)
  PROVE  /\ Len(parsed["backend"]) + 1 <= Len(QueuedNumbers("backend"))
         /\ QueuedNumbers("backend")[Len(parsed["backend"]) + 1] = n
<1>1. parsed["backend"] \in Seq(Requests) /\ "backend" \in Side /\ EarlyAnswer \in BOOLEAN
  BY RelayAssumption DEF DataTypes, Side
<1>2. PICK rest \in Seq(Requests) :
        rest # <<>> /\ rest[1] = n /\ Cat(parsed["backend"], rest) = Nums("backend")
  BY DEF IsNext
<1> PICK due : due = Complete("backend", EarlyAnswer)
  OBVIOUS
<1>3. Nums("backend") = due
  BY DEF Nums, DueAt, Complete
<1>4. Len(parsed["backend"]) + 1 \in Places(due) /\ due[Len(parsed["backend"]) + 1] = n
  BY <1>1, <1>2, <1>3, CatBegins
<1>5. due \in Seq(Requests) /\ Begins(due, QueuedNumbers("backend"))
  BY <1>1, CompleteBegins
<1>6. /\ Len(due) \in Nat /\ Len(parsed["backend"]) \in Nat
      /\ Len(QueuedNumbers("backend")) \in Nat
  BY <1>1, <1>5, NumberSeq, QueuedNumbersType
<1> QED BY <1>4, <1>5, <1>6 DEF Begins, Places

\* The inductive invariant: the data are what was sent and queued, what a peer has
\* got is the beginning of what was queued for it, and the queues are in order.
LiveOrder ==
  /\ LiveInv
  /\ \A t \in Side : MarkInv(t)
  /\ RouteInv
  /\ InTurn

\* When the session is over, what was got and what is on its way do not change.
ClientBegins ==
  /\ Begins(Complete("client", FALSE), QueuedNumbers("client"))
  /\ Begins(Leaving("client", FALSE), QueuedNumbers("client"))

EndedOrder == EndedInv /\ RouteInv /\ ClientBegins

OrderInv == LiveOrder \/ EndedOrder

LEMMA LiveBegins == LiveOrder => ClientBegins
BY CompleteBegins DEF LiveOrder, LiveInv, Side, ClientBegins

LEMMA OrderShows == OrderInv => DataTypes /\ RouteInv /\ ClientBegins
BY LiveBegins DEF OrderInv, LiveOrder, EndedOrder, LiveInv, EndedInv

LEMMA RouteDelivers ==
  ASSUME LiveOrder, NEW s \in Side, DeliverEffect(s), handler' = handler
  PROVE  RouteInv'
<1>1. /\ LiveInv /\ DataTypes /\ MarkInv("client") /\ MarkInv("backend") /\ RouteInv /\ InTurn
      /\ "client" \in Side /\ "backend" \in Side
  BY DEF LiveOrder, LiveInv, Side
<1>2. PICK n \in Requests : Delivers(s, n)
  BY <1>1, DeliversNext
<1> PICK P : P = parsed["client"]
  OBVIOUS
<1> PICK D : D = parsed["backend"]
  OBVIOUS
<1> PICK B : B = QueuedNumbers("backend")
  OBVIOUS
<1> PICK Q : Q = QueuedNumbers("client")
  OBVIOUS
<1>3. P \in Seq(Requests) /\ B \in Seq(Requests) /\ D \in Seq(Requests) /\ Q \in Seq(Requests)
  BY <1>1, QueuedNumbersType DEF DataTypes
<1> PICK H : H = Here
  OBVIOUS
<1>4. Routed(H, P, B, D, Q) /\ OrderKept(H) /\ Here' = H
  BY <1>1 DEF RouteInv, OrderKept, KeepsOrder, Here
<1>5. ASSUME NEW t \in Side, queued'[t] = queued[t] PROVE QueuedNumbers(t)' = QueuedNumbers(t)
  BY <1>5 DEF QueuedNumbers
<1>6. CASE s = "client"
  <2>1. n = Len(P) + 1
    BY <1>1, <1>2, <1>6, NextRequest DEF Delivers
  <2>2. ~ Pipelining => Len(P) <= Len(Q)
    <3>1. SUFFICES ASSUME ~ Pipelining PROVE Len(P) <= Len(Q)
      OBVIOUS
    <3>2. Kind("client") = "req"
      BY DEF Kind
    <3>3. Has(sent["client"], UnitAt("req", n, 1))
      BY <1>2, <1>6, <3>2, RequestHas DEF Delivers
    <3>4. PICK k \in Places(sent["client"]) : sent["client"][k] = UnitAt("req", n, 1)
      BY <3>3 DEF Has
    <3>5. sent["client"][k][3] = 1 /\ sent["client"][k][2] = n
      BY <3>4 DEF UnitAt
    <3>6. n <= Len(Complete("client", FALSE)) + 1
      BY <1>1, <3>1, <3>5 DEF InTurn
    <3>7. /\ Complete("client", FALSE) \in Seq(Requests)
          /\ Len(Complete("client", FALSE)) <= Len(Q)
      BY <1>1, CompleteBegins DEF Begins
    <3>8. Len(Complete("client", FALSE)) \in Nat /\ Len(P) \in Nat /\ Len(Q) \in Nat
      BY <1>3, <3>7, NumberSeq
    <3> PICK m : m = Len(Complete("client", FALSE))
      OBVIOUS
    <3>9. n <= m + 1 /\ m <= Len(Q) /\ m \in Nat /\ Len(P) \in Nat /\ Len(Q) \in Nat
      BY <3>6, <3>7, <3>8
    <3> QED BY ONLY <2>1, <3>9
  <2>3. parsed'["client"] = Append(P, n) /\ parsed'["backend"] = D
    BY <1>1, <1>2, <1>6 DEF Delivers
  <2>4. Longer(P, n, Append(P, n)) /\ Longer(Q, n, Append(Q, n)) /\ Longer(B, n, Append(B, n))
    BY <1>3, AppendedIsLonger
  <2>5. CASE n \in H /\ QueueEffect("client", "err", n)
    <3>1. QueuedNumbers("client")' = Append(Q, n) /\ QueuedNumbers("backend")' = B
      BY <1>1, <1>5, <2>5 DEF QueueEffect
    <3>2. Routed(H, Append(P, n), B, D, Append(Q, n))
      BY <1>3, <1>4, <2>1, <2>2, <2>4, <2>5, AnsweredHere
    <3> QED BY <1>4, <2>3, <3>1, <3>2, Zenon DEF RouteInv
  <2>6. CASE n \notin H /\ QueueEffect("backend", "req", n)
    <3>1. QueuedNumbers("backend")' = Append(B, n) /\ QueuedNumbers("client")' = Q
      BY <1>1, <1>5, <2>6 DEF QueueEffect
    <3>2. Routed(H, Append(P, n), Append(B, n), D, Q)
      BY <1>3, <1>4, <2>1, <2>2, <2>4, <2>6, RequestForwarded
    <3> QED BY <1>4, <2>3, <3>1, <3>2, Zenon DEF RouteInv
  <2> QED BY <1>1, <1>2, <1>6, <2>5, <2>6, DeliversTo DEF Delivers
<1>7. CASE s = "backend"
  <2>1. Len(D) + 1 <= Len(B) /\ B[Len(D) + 1] = n
    BY <1>1, <1>2, <1>7, NextResponse DEF Delivers
  <2>2. parsed'["backend"] = Append(D, n) /\ parsed'["client"] = P
    BY <1>1, <1>2, <1>7 DEF Delivers
  <2>3. Longer(D, n, Append(D, n)) /\ Longer(Q, n, Append(Q, n))
    BY <1>3, AppendedIsLonger
  <2>4. PICK kind \in Kinds : QueueEffect("client", kind, n)
    BY <1>1, <1>2, <1>7, DeliversTo DEF Delivers
  <2>5. QueuedNumbers("client")' = Append(Q, n) /\ QueuedNumbers("backend")' = B
    BY <1>1, <1>5, <2>4 DEF QueueEffect
  <2>6. Routed(H, P, B, Append(D, n), Append(Q, n))
    BY <1>3, <1>4, <2>1, <2>3, ResponsePassed
  <2> QED BY <1>4, <2>2, <2>5, <2>6, Zenon DEF RouteInv
<1> QED BY <1>6, <1>7 DEF Side

LEMMA RouteFrame ==
  ASSUME RouteInv, parsed' = parsed, queued' = queued, handler' = handler
  PROVE  RouteInv'
<1>1. (\A t : QueuedNumbers(t)' = QueuedNumbers(t)) /\ Here' = Here
  BY DEF QueuedNumbers, Here
<1> QED BY <1>1, Zenon DEF RouteInv

LEMMA InTurnFrame ==
  ASSUME InTurn, sent'["client"] = sent["client"], got'["client"] = got["client"]
  PROVE  InTurn'
<1>1. Complete("client", FALSE)' = Complete("client", FALSE)
  BY DEF Complete
<1> QED BY <1>1, Zenon DEF InTurn

\* A unit that the client takes completes an answer or none.
LEMMA CompleteTaken ==
  ASSUME LiveInv, NEW t \in Side, TakeEffect(t), NEW early \in BOOLEAN
  PROVE  \/ Complete(t, early)' = Complete(t, early)
         \/ \E n \in Requests : Complete(t, early)' = Append(Complete(t, early), n)
<1>1. /\ got \in [Side -> Seq(Units)] /\ got[t] \in Seq(Units)
      /\ out[t] \in Seq(Units) /\ out[t] # <<>>
  BY DEF LiveInv, DataTypes, TakeEffect
<1> PICK u : u = Head(out[t])
  OBVIOUS
<1>2. u \in Units
  <2>1. Head(out[t]) = out[t][1]
    BY <1>1, HeadTailProperties
  <2> QED BY <1>1, <2>1, FrontAndRest
<1>3. got'[t] = Append(got[t], u)
  BY <1>1, Zenon DEF TakeEffect
<1> PICK f : f = Mark(early)
  OBVIOUS
<1>4. Maps(f, Units, Seq(Requests))
  BY MarkType
<1>5. FlatMap(f, Append(got[t], u)) = Cat(FlatMap(f, got[t]), f[u])
  BY <1>1, <1>2, <1>4, FlatMapOfAppend
<1>6. Complete(t, early)' = Cat(Complete(t, early), f[u])
  BY <1>3, <1>5, Zenon DEF Complete
<1>7. Complete(t, early) \in Seq(Requests)
  BY <1>1, <1>4, FlatMapType DEF Complete
<1>8. f[u] = <<>> \/ \E n \in Requests : f[u] = One(n)
  <2>1. u[2] \in Requests
    BY <1>2 DEF Units, UnitsOf
  <2>2. f[u] = <<u[2]>> \/ f[u] = <<>>
    BY <1>2, Zenon DEF Mark
  <2> QED BY <2>1, <2>2, Zenon DEF One
<1>9. CASE f[u] = <<>>
  <2>1. Cat(Complete(t, early), <<>>) = Complete(t, early)
    BY <1>7, CatEmpty
  <2> QED BY <1>6, <1>9, <2>1, Zenon
<1>10. ASSUME NEW n \in Requests, f[u] = One(n)
       PROVE  Complete(t, early)' = Append(Complete(t, early), n)
  <2>1. Append(Complete(t, early), n) = Cat(Complete(t, early), One(n))
    BY <1>7, AppendIsCat
  <2> QED BY <1>6, <1>10, <2>1, Zenon
<1> QED BY <1>8, <1>9, <1>10

LEMMA InTurnTakes ==
  ASSUME LiveOrder, NEW t \in Side, TakeEffect(t)
  PROVE  InTurn'
<1>1. LiveInv /\ DataTypes /\ InTurn /\ "client" \in Side /\ sent' = sent
  BY DEF LiveOrder, LiveInv, Side, TakeEffect
<1>2. CASE t # "client"
  <2>1. got'["client"] = got["client"]
    BY <1>1, <1>2 DEF TakeEffect, DataTypes
  <2> QED BY <1>1, <2>1, InTurnFrame
<1>3. CASE t = "client"
  <2> PICK m : m = Len(Complete("client", FALSE))
    OBVIOUS
  <2>1. \/ Complete("client", FALSE)' = Complete("client", FALSE)
        \/ \E n \in Requests : Complete("client", FALSE)' = Append(Complete("client", FALSE), n)
    BY <1>1, <1>3, CompleteTaken
  <2>2. Complete("client", FALSE) \in Seq(Requests) /\ m \in Nat
    <3>1. got["client"] \in Seq(Units)
      BY <1>1 DEF DataTypes
    <3>2. Complete("client", FALSE) \in Seq(Requests)
      BY <3>1, MarkType, FlatMapType DEF Complete
    <3> QED BY <3>2, LenProperties
  <2>3. Len(Complete("client", FALSE)') \in {m, m + 1}
    <3>1. \A n \in Requests : Len(Append(Complete("client", FALSE), n)) = m + 1
      BY <2>2, AppendProperties
    <3> QED BY <2>1, <3>1
  <2>4. SUFFICES ASSUME ~ Pipelining, NEW k \in Places(sent["client"]), sent["client"][k][3] = 1
                 PROVE  sent["client"][k][2] <= Len(Complete("client", FALSE)') + 1
    BY <1>1 DEF InTurn
  <2>5. sent["client"][k][2] <= m + 1 /\ sent["client"][k][2] \in Nat
    <3>1. sent["client"] \in Seq(Received)
      BY <1>1 DEF DataTypes
    <3>2. sent["client"][k] \in Received
      BY <3>1, ElementOfSeq DEF Places
    <3>3. sent["client"][k][2] \in Nat
      BY <3>2, RelayAssumption DEF Received, UnitsOf, Requests
    <3> QED BY <1>1, <2>4, <3>3 DEF InTurn
  <2> PICK m2 : m2 = Len(Complete("client", FALSE)')
    OBVIOUS
  <2>6. m2 \in {m, m + 1}
    BY <2>3
  <2>7. sent["client"][k][2] <= m2 + 1
    BY ONLY <2>2, <2>5, <2>6
  <2> QED BY <2>7
<1> QED BY <1>2, <1>3

LEMMA InTurnSends ==
  ASSUME LiveOrder, DataTypes', ClientSends, SendEffect("client")
  PROVE  InTurn'
<1>1. LiveInv /\ DataTypes /\ InTurn /\ "client" \in Side /\ got' = got
  BY DEF LiveOrder, LiveInv, Side, SendEffect
<1> PICK stream : stream = Wire("req", [n \in Requests |-> n])
  OBVIOUS
<1> PICK u : u = stream[Len(sent["client"]) + 1]
  OBVIOUS
<1>2. /\ Pipelining \/ u[3] > 1 \/ Len(Numbers(got["client"], LastPart)) >= u[2] - 1
      /\ Send("client", u)
  BY Zenon DEF ClientSends
<1>3. sent'["client"] = Append(sent["client"], u)
  BY <1>1, <1>2, Zenon DEF Send, DataTypes
<1>4. sent["client"] \in Seq(Received) /\ sent'["client"] \in Seq(Received)
  BY <1>1 DEF DataTypes
<1> PICK p : p = sent["client"]
  OBVIOUS
<1> PICK q : q = sent'["client"]
  OBVIOUS
<1>5. /\ Len(p) \in Nat /\ Len(q) = Len(p) + 1 /\ q[Len(p) + 1] = u
      /\ \A k \in 1 .. Len(p) : q[k] = p[k]
  <2>1. p \in Seq(Received) /\ q = Append(p, u)
    BY <1>3, <1>4
  <2>2. Len(p) \in Nat
    BY <2>1, LenProperties
  <2> QED BY <2>1, <2>2
<1>6. u \in Received
  <2>1. Len(p) + 1 \in 1 .. Len(q) /\ q \in Seq(Received)
    BY <1>4, <1>5
  <2> QED BY <1>5, <2>1, ElementOfSeq
<1>7. u[2] \in Nat
  BY <1>6, RelayAssumption DEF Received, UnitsOf, Requests
<1>8. got["client"] \in Seq(Units)
  BY <1>1 DEF DataTypes
<1>9. Numbers(got["client"], LastPart) = Complete("client", FALSE)
  BY <1>8, NumbersIsFlatMap DEF Complete
<1> PICK m : m = Len(Complete("client", FALSE))
  OBVIOUS
<1>10. m \in Nat
  BY <1>8, MarkType, FlatMapType, LenProperties DEF Complete
<1> PICK a : a = u[2]
  OBVIOUS
<1>11. a <= m + 1 \/ Pipelining \/ u[3] > 1
  <2>1. m >= a - 1 \/ Pipelining \/ u[3] > 1
    BY <1>2, <1>9, Zenon
  <2>2. a \in Nat
    BY <1>7
  <2>3. m >= a - 1 => a <= m + 1
    BY ONLY <1>10, <2>2
  <2> QED BY <2>1, <2>3, Zenon
<1>15. Complete("client", FALSE)' = Complete("client", FALSE)
  BY <1>1 DEF Complete
<1>12. SUFFICES ASSUME ~ Pipelining, NEW k \in 1 .. Len(q), q[k][3] = 1
                PROVE  q[k][2] <= m + 1
  BY <1>15, Zenon DEF InTurn, Places
<1>13. CASE k \in 1 .. Len(p)
  BY <1>1, <1>5, <1>12, <1>13 DEF InTurn, Places
<1>14. CASE k = Len(p) + 1
  <2>1. q[k] = u /\ u[3] = 1 /\ ~ (1 > 1)
    BY <1>5, <1>12, <1>14
  <2>2. a <= m + 1
    BY <1>11, <1>12, <2>1, Zenon
  <2> QED BY <2>1, <2>2, Zenon
<1>16. k \in 1 .. Len(p) \/ k = Len(p) + 1
  <2>1. Len(p) \in Nat /\ Len(q) = Len(p) + 1 /\ k \in 1 .. Len(q)
    BY <1>5, <1>12
  <2> QED BY ONLY <2>1
<1> QED BY <1>13, <1>14, <1>16, Zenon

LEMMA OrderStep ==
  LiveOrder /\ DataTypes' /\ StepEffect /\ handler' = handler => RouteInv' /\ InTurn'
<1> SUFFICES ASSUME LiveOrder, DataTypes', StepEffect, handler' = handler PROVE RouteInv' /\ InTurn'
  OBVIOUS
<1>1. DataTypes /\ RouteInv /\ InTurn
  BY DEF LiveOrder, LiveInv
<1>2. CASE NoEffect
  BY <1>1, <1>2, RouteFrame, InTurnFrame DEF NoEffect
<1>3. CASE ClientSends /\ SendEffect("client")
  BY <1>1, <1>3, RouteFrame, InTurnSends DEF SendEffect
<1>4. CASE SendEffect("backend")
  <2>1. sent'["client"] = sent["client"]
    BY <1>1, <1>4 DEF SendEffect, DataTypes, Side
  <2> QED BY <1>1, <1>4, <2>1, RouteFrame, InTurnFrame DEF SendEffect
<1>5. ASSUME NEW s \in Side, TakeEffect(s) PROVE RouteInv' /\ InTurn'
  BY <1>1, <1>5, RouteFrame, InTurnTakes DEF TakeEffect
<1>6. ASSUME NEW s \in Side, ResetEffect(s) PROVE RouteInv' /\ InTurn'
  BY <1>1, <1>6, RouteFrame, InTurnFrame DEF ResetEffect
<1>7. ASSUME NEW s \in Side, DeliverEffect(s) PROVE RouteInv' /\ InTurn'
  BY <1>1, <1>7, RouteDelivers, InTurnFrame DEF DeliverEffect
<1>8. ASSUME NEW s \in Side, WriteEffect(s) PROVE RouteInv' /\ InTurn'
  BY <1>1, <1>8, RouteFrame, InTurnFrame DEF WriteEffect
<1> QED BY <1>2, <1>3, <1>4, <1>5, <1>6, <1>7, <1>8 DEF StepEffect

LEMMA InitOrder == Init => (\A t \in Side : MarkInv(t)) /\ RouteInv /\ InTurn
<1> SUFFICES ASSUME Init PROVE (\A t \in Side : MarkInv(t)) /\ RouteInv /\ InTurn
  OBVIOUS
<1> PICK none : none = <<>>
  OBVIOUS
<1>1. Len(none) = 0 /\ Places(none) = {} /\ \A S : none \in Seq(S)
  BY EmptySeq DEF Places
<1>2. \A f : MapEach(f, none) = none /\ FlatMap(f, none) = none
  <2>1. \A f : MapEach(f, none) = none
    BY DEF MapEach
  <2>2. \A f : FlatMap(f, none) = none
    BY FlatMapOfEmpty
  <2> QED BY <2>1, <2>2
<1>3. Cat(none, none) = none
  BY <1>1, CatEmpty
<1>4. /\ \A t \in Side : got[t] = none /\ out[t] = none /\ queue[t] = none /\ queued[t] = none
      /\ \A t \in Side : parsed[t] = none /\ sent[t] = none
      /\ "client" \in Side /\ "backend" \in Side
  BY DEF Init, Each, Side
<1>5. \A t \in Side : QueuedNumbers(t) = none
  BY <1>2, <1>4, Zenon DEF QueuedNumbers
<1>6. ASSUME NEW t \in Side PROVE MarkInv(t)
  <2>1. ASSUME NEW early \in BOOLEAN PROVE MarkedFor(t, early)
    <3>1. Marked(early, none, none, none, none, reset[t], none)
      BY <1>1, <1>2, <1>3, Zenon DEF Marked
    <3>2. Marked(early, got[t], out[t], queue[t], QueuedNumbers(t), reset[t], none)
      BY <1>4, <1>5, <3>1, Zenon
    <3> QED BY <3>2, Zenon DEF MarkedFor
  <2> QED BY <1>1, <1>4, <2>1, Zenon DEF MarkInv
<1>7. RouteInv
  <2>1. Routed(Here, none, none, none, none)
    BY <1>1 DEF Routed, Begins, Forwarded, Answered, AllForwarded, OneAtATime, InOrder
  <2> QED BY <1>4, <1>5, <2>1, Zenon DEF RouteInv
<1>8. InTurn
  BY <1>1, <1>4 DEF InTurn
<1> QED BY <1>6, <1>7, <1>8

\* The end of the session keeps what it shows.
LEMMA OrderEnds ==
  ASSUME LiveOrder, EndEffect, handler' = handler
  PROVE  EndedOrder'
<1>1. ClientBegins /\ RouteInv
  BY LiveBegins DEF LiveOrder
<1>2. EndedInv' /\ UNCHANGED <<out, got, parsed, queued>>
  BY DEF EndEffect
<1>3. RouteInv'
  BY <1>1, <1>2, RouteFrame
<1>4. ClientBegins'
  BY <1>1, <1>2, Zenon DEF ClientBegins, Complete, Leaving, QueuedNumbers
<1> QED BY <1>2, <1>3, <1>4 DEF EndedOrder

LEMMA OrderInvariant == Spec => []OrderInv
<1>1. Init => OrderInv
  BY InitData, InitOrder DEF OrderInv, LiveOrder
<1>2. LiveOrder /\ [Next]_vars => OrderInv'
  <2> SUFFICES ASSUME LiveOrder, [Next]_vars PROVE OrderInv'
    OBVIOUS
  <2>1. LiveInv /\ handler' = handler
    BY HandlerStays DEF LiveOrder
  <2>2. CASE EndEffect
    BY <2>1, <2>2, OrderEnds DEF OrderInv
  <2>3. CASE LiveInv' /\ StepEffect
    <3>1. \A t \in Side : MarkInv(t)'
      BY <2>1, <2>3, MarkStep DEF LiveOrder
    <3>2. DataTypes'
      BY <2>3 DEF LiveInv
    <3>3. RouteInv' /\ InTurn'
      BY <2>1, <2>3, <3>2, OrderStep
    <3> QED BY <2>3, <3>1, <3>3 DEF LiveOrder, OrderInv
  <2> QED BY <2>1, <2>2, <2>3, EveryEffect
<1>3. EndedOrder /\ [Next]_vars => OrderInv'
  <2> SUFFICES ASSUME EndedOrder, [Next]_vars PROVE EndedOrder'
    BY DEF OrderInv
  <2>1. UNCHANGED vars
    BY StepsAreLive DEF EndedOrder, EndedInv
  <2>2. EndedInv'
    BY <2>1, EndedStays DEF EndedOrder
  <2>3. UNCHANGED <<out, got, parsed, queued, handler>>
    BY <2>1, Zenon DEF vars, sockets, history
  <2>4. RouteInv'
    BY <2>3, RouteFrame DEF EndedOrder
  <2>5. ClientBegins'
    BY <2>3, Zenon DEF EndedOrder, ClientBegins, Complete, Leaving, QueuedNumbers
  <2> QED BY <2>2, <2>4, <2>5 DEF EndedOrder
<1> QED BY <1>1, <1>2, <1>3, PTL DEF Spec, OrderInv

\* Spec => []ResponsesInOrder: a session that forwards every request, or answers
\* every one, or never has two at a time, answers the client in the order of its
\* requests, however the two connections are cut, blocked and reset.
THEOREM ResponsesAlwaysInOrder ==
  ASSUME KeepsOrder
  PROVE  Spec => []ResponsesInOrder
<1>1. OrderInv => ResponsesInOrder
  <2> SUFFICES ASSUME OrderInv
               PROVE  \A k \in DOMAIN Numbers(got["client"] \o out["client"], LastPart) :
                        Numbers(got["client"] \o out["client"], LastPart)[k] = k
    BY Zenon DEF ResponsesInOrder
  <2>1. DataTypes /\ ClientBegins /\ RouteInv /\ "client" \in Side
    BY OrderShows DEF Side
  <2> PICK units : units = Cat(got["client"], out["client"])
    OBVIOUS
  <2>2. units \in Seq(Units)
    BY <2>1, CatType DEF DataTypes
  <2> PICK left : left = Leaving("client", FALSE)
    OBVIOUS
  <2>3. Numbers(units, LastPart) = left
    BY <2>2, NumbersIsFlatMap DEF Leaving
  <2>4. units = got["client"] \o out["client"]
    BY Zenon DEF Cat
  <2>5. left \in Seq(Requests) /\ Begins(left, QueuedNumbers("client"))
    BY <2>1, <2>2, MarkType, FlatMapType DEF Leaving, ClientBegins
  <2>6. QueuedNumbers("client") \in Seq(Requests)
    BY <2>1, QueuedNumbersType
  <2>7. \A k \in Places(QueuedNumbers("client")) : QueuedNumbers("client")[k] = k
    BY <2>1 DEF RouteInv, Routed, InOrder
  <2>8. Len(left) \in Nat /\ Len(QueuedNumbers("client")) \in Nat /\ DOMAIN left = Places(left)
    BY <2>5, <2>6, LenProperties DEF Places
  <2>9. \A k \in DOMAIN left : left[k] = k
    <3>1. \A k \in Places(left) : k \in Places(QueuedNumbers("client"))
      <4> PICK m : m = Len(QueuedNumbers("client"))
        OBVIOUS
      <4>1. m \in Nat /\ Len(left) \in Nat /\ Len(left) <= m
        BY <2>5, <2>8 DEF Begins
      <4>2. \A k \in 1 .. Len(left) : k \in 1 .. m
        BY ONLY <4>1
      <4> QED BY <4>2 DEF Places
    <3> QED BY <2>5, <2>7, <2>8, <3>1 DEF Begins
  <2> QED BY <2>3, <2>4, <2>9, Zenon
<1> QED BY <1>1, OrderInvariant, PTL

-----------------------------------------------------------------------------
(* A session implements an exchange.                                       *)

\* The requests whose answer the client has got whole.
Answers == Numbers(got["client"], LastPart)

\* What Exchange says of Asked and Answers.
LEMMA ExchangeIs ==
  /\ E!Init <=> Asked = {} /\ Answers = <<>>
  /\ E!Ask <=> (\E n \in Requests : Asked' = Asked \cup {n}) /\ Answers' = Answers
  /\ E!Answer <=>
       /\ \E n \in Asked \ ToSet(Answers) :
            /\ KeepsOrder => n = Len(Answers) + 1
            /\ Answers' = Append(Answers, n)
       /\ Asked' = Asked
  /\ E!Next <=> E!Ask \/ E!Answer
  /\ UNCHANGED E!vars <=> UNCHANGED <<Asked, Answers>>
<1>1. E!Init <=> Asked = {} /\ Answers = <<>>
  BY Zenon DEF E!Init, Answers
<1>2. E!Ask <=> (\E n \in Requests : Asked' = Asked \cup {n}) /\ Answers' = Answers
  BY Zenon DEF E!Ask, Answers
<1>3. E!Answer <=>
        /\ \E n \in Asked \ ToSet(Answers) :
             /\ KeepsOrder => n = Len(Answers) + 1
             /\ Answers' = Append(Answers, n)
        /\ Asked' = Asked
  <2>1. \A q : E!ToSet(q) = ToSet(q)
    BY DEF E!ToSet, ToSet
  <2> QED BY <2>1, Zenon DEF E!Answer, Answers
<1>4. E!Next <=> E!Ask \/ E!Answer
  BY Zenon DEF E!Next
<1>5. UNCHANGED E!vars <=> UNCHANGED <<Asked, Answers>>
  BY DEF E!vars, Answers
<1> QED BY <1>1, <1>2, <1>3, <1>4, <1>5

LEMMA AnswersAreComplete ==
  ASSUME DataTypes
  PROVE  Answers = Complete("client", FALSE)
<1>1. got["client"] \in Seq(Units)
  BY DEF DataTypes, Side
<1> QED BY <1>1, NumbersIsFlatMap DEF Answers, Complete

\* The last unit of a request, and the requests that are whole in a stream.
EndOf(n) == UnitAt("req", n, LastPart("req", n))
WholeIn(snt) == {n \in Requests : Has(snt, EndOf(n))}

LEMMA AskedAre ==
  ASSUME NEW snt \in Seq(Received)
  PROVE  {n \in Requests : <<"req", n, LastPart("req", n)>> \in ToSet(snt)} = WholeIn(snt)
<1>1. \A x : x \in ToSet(snt) <=> Has(snt, x)
  <2>1. DOMAIN snt = Places(snt)
    BY LenProperties DEF Places
  <2> QED BY <2>1 DEF ToSet, Has
<1> QED BY <1>1, Zenon DEF EndOf, UnitAt, WholeIn

\* A unit that the client sends asks for one request more or for none.
LEMMA SendAsks ==
  ASSUME DataTypes, DataTypes', SendEffect("client")
  PROVE  Asked' = Asked \/ \E n \in Requests : Asked' = Asked \cup {n}
<1> PICK u : sent' = [sent EXCEPT !["client"] = Append(@, u)]
  BY DEF SendEffect
<1>1. sent'["client"] = Append(sent["client"], u)
  BY DEF DataTypes, Side
<1> PICK p : p = sent["client"]
  OBVIOUS
<1> PICK q : q = sent'["client"]
  OBVIOUS
<1>2. p \in Seq(Received) /\ q \in Seq(Received) /\ q = Append(p, u)
  BY <1>1 DEF DataTypes, Side
<1>3. /\ Len(p) \in Nat /\ Len(q) = Len(p) + 1 /\ q[Len(p) + 1] = u
      /\ \A k \in 1 .. Len(p) : q[k] = p[k]
  <2>1. Len(p) \in Nat
    BY <1>2, LenProperties
  <2> QED BY <1>2, <2>1
<1>4. \A x : Has(q, x) <=> Has(p, x) \/ x = u
  <2>1. \A k : k \in 1 .. Len(q) <=> k \in 1 .. Len(p) \/ k = Len(p) + 1
    BY <1>3
  <2> QED BY <1>3, <2>1, Zenon DEF Has, Places
<1>5. Asked = WholeIn(p) /\ Asked' = WholeIn(q)
  BY <1>2, AskedAre, Zenon DEF Asked
<1>6. \A n, m \in Requests : EndOf(n) = EndOf(m) => n = m
  BY DEF EndOf, UnitAt
<1>7. CASE \E n \in Requests : EndOf(n) = u
  <2>1. PICK n \in Requests : EndOf(n) = u
    BY <1>7
  <2>2. \A m \in Requests : Has(q, EndOf(m)) <=> Has(p, EndOf(m)) \/ m = n
    BY <1>4, <1>6, <2>1
  <2>3. Asked' = Asked \cup {n}
    BY <1>5, <2>2 DEF WholeIn
  <2> QED BY <2>3
<1>8. CASE ~ \E n \in Requests : EndOf(n) = u
  BY <1>4, <1>5, <1>8 DEF WholeIn
<1> QED BY <1>7, <1>8

\* The requests parsed were sent whole.
LEMMA ParsedWereAsked ==
  ASSUME LiveInv, NEW k \in Places(parsed["client"])
  PROVE  parsed["client"][k] \in Asked
<1>1. DataTypes /\ ControlTypes /\ ReadInv("client") /\ "client" \in Side
  BY DEF LiveInv, Side
<1>2. PICK rest, tail :
        Stream(Messages(Kind("client")), Nums("client"), parsed["client"], sent["client"],
               Held("client"), in["client"], rest, tail)
  BY <1>1 DEF ReadInv
<1> PICK n : n = parsed["client"][k]
  OBVIOUS
<1> PICK x : x = UnitAt("req", n, LastPart("req", n))
  OBVIOUS
<1>3. /\ parsed["client"] \in Seq(Requests) /\ sent["client"] \in Seq(Received)
      /\ in["client"] \in Seq(Received) /\ Held("client") \in Seq(Received)
  BY <1>1, HeldType DEF DataTypes
<1>4. n \in Requests
  BY <1>3, NumberSeq
<1>5. Has(Messages("req")[n], x) /\ Kind("client") = "req"
  BY <1>4, RequestHas DEF Kind
<1> PICK M : M = Messages(Kind("client"))
  OBVIOUS
<1>6. Has(M[parsed["client"][k]], x) /\ Maps(M, Requests, Seq(Received))
  BY <1>5, KindType
<1>7. Stream(M, Nums("client"), parsed["client"], sent["client"],
             Held("client"), in["client"], rest, tail)
  BY <1>2
<1>8. Has(sent["client"], x)
  BY ONLY <1>3, <1>6, <1>7, k \in Places(parsed["client"]), ParsedWasSent
<1>9. Asked = WholeIn(sent["client"])
  BY <1>3, AskedAre DEF Asked
<1> QED BY <1>4, <1>8, <1>9 DEF WholeIn, EndOf

\* The answers the client has got are the first of those queued for it.
AnswersBegin == Begins(Complete("client", FALSE), QueuedNumbers("client"))

LEMMA AnswersBeginQueued == OrderInv => AnswersBegin
BY OrderShows DEF ClientBegins, AnswersBegin

\* The next answer the client gets whole is that of a request it has sent whole.
LEMMA TakeAnswers ==
  ASSUME LiveOrder, DataTypes', AnswersBegin', TakeEffect("client")
  PROVE  \/ Answers' = Answers
         \/ \E n \in Asked \ ToSet(Answers) :
              /\ KeepsOrder => n = Len(Answers) + 1
              /\ Answers' = Append(Answers, n)
<1>1. LiveInv /\ DataTypes /\ RouteInv /\ "client" \in Side
  BY DEF LiveOrder, LiveInv, Side
<1> PICK a : a = Answers
  OBVIOUS
<1> PICK P : P = parsed["client"]
  OBVIOUS
<1> PICK Q : Q = QueuedNumbers("client")
  OBVIOUS
<1>2. a = Complete("client", FALSE) /\ Answers' = Complete("client", FALSE)'
  <2>1. got'["client"] \in Seq(Units)
    BY <1>1, Zenon DEF DataTypes
  <2>2. Numbers(got'["client"], LastPart) = FlatMap(Mark(FALSE), got'["client"])
    BY <2>1, NumbersIsFlatMap
  <2>3. Answers' = Complete("client", FALSE)'
    BY <2>2 DEF Answers, Complete
  <2> QED BY <1>1, <2>3, AnswersAreComplete
<1>3. Q = QueuedNumbers("client")'
  BY DEF TakeEffect, QueuedNumbers
<1>4. a \in Seq(Requests) /\ P \in Seq(Requests) /\ Q \in Seq(Requests) /\ Begins(a, Q)
  BY <1>1, <1>2, CompleteBegins, QueuedNumbersType DEF LiveOrder, DataTypes
<1>5. Begins(Answers', Q)
  BY <1>2, <1>3, Zenon DEF AnswersBegin
<1>6. Answers' = a \/ \E n \in Requests : Answers' = Append(a, n)
  BY <1>1, <1>2, CompleteTaken
<1>7. ASSUME NEW n \in Requests, Answers' = Append(a, n)
      PROVE  n \in Asked \ ToSet(a) /\ (KeepsOrder => n = Len(a) + 1)
  <2> PICK a2 : a2 = Append(a, n)
    OBVIOUS
  <2>1. Len(a) \in Nat /\ Len(Q) \in Nat /\ Longer(a, n, a2) /\ Begins(a2, Q)
    BY <1>4, <1>5, <1>7, NumberSeq, AppendedIsLonger
  <2>2. Len(a2) \in Places(Q) /\ Q[Len(a2)] = n /\ Len(a2) = Len(a) + 1
    BY <2>1 DEF Longer, Begins, Places
  <2>3. Routed(Here, P, QueuedNumbers("backend"), parsed["backend"], Q)
    BY <1>1 DEF RouteInv
  <2>4. KeepsOrder => n = Len(a) + 1
    BY <2>2, <2>3 DEF Routed, InOrder
  <2>5. n \in Asked
    <3>1. n <= Len(P) /\ n \in Nat /\ n >= 1 /\ Len(P) \in Nat
      <4>1. n <= Len(P)
        BY <2>2, <2>3 DEF Routed, Answered
      <4>2. n \in Nat /\ n >= 1
        BY RelayAssumption DEF Requests
      <4> QED BY <1>4, <4>1, <4>2, NumberSeq
    <3>2. n \in Places(P) /\ P[n] = n
      BY <2>3, <3>1 DEF Routed, Places
    <3> QED BY <1>1, <3>2, ParsedWereAsked
  <2>6. n \notin ToSet(a)
    <3>1. SUFFICES ASSUME n \in ToSet(a) PROVE FALSE
      OBVIOUS
    <3>2. DOMAIN a = Places(a)
      BY <1>4, LenProperties DEF Places
    <3>3. PICK k \in Places(a) : a[k] = n
      BY <3>1, <3>2 DEF ToSet
    <3>4. k \in Places(Q) /\ Q[k] = n /\ k # Len(a2)
      BY <1>4, <2>1, <2>2, <3>3 DEF Begins, Places
    <3>5. k = Len(a2)
      BY <2>2, <2>3, <3>4 DEF Routed, Answered
    <3> QED BY <3>4, <3>5
  <2> QED BY <2>4, <2>5, <2>6
<1> QED BY <1>6, <1>7

LEMMA InitExchange == Init => E!Init
<1> SUFFICES ASSUME Init PROVE Asked = {} /\ Answers = <<>>
  BY ExchangeIs
<1>1. sent["client"] = <<>> /\ got["client"] = <<>>
  BY DEF Init, Each, Side
<1>2. Len(<<>>) = 0 /\ <<>> \in Seq(Units) /\ ToSet(<<>>) = {}
  BY EmptySeq DEF ToSet
<1>3. Asked = {}
  BY <1>1, <1>2 DEF Asked
<1>4. FlatMap(Mark(FALSE), <<>>) = <<>>
  BY FlatMapOfEmpty
<1>5. Numbers(<<>>, LastPart) = <<>>
  BY <1>2, <1>4, NumbersIsFlatMap
<1>6. Answers = <<>>
  BY <1>1, <1>5, Zenon DEF Answers
<1> QED BY <1>3, <1>6

LEMMA StepExchange ==
  OrderInv /\ DataTypes' /\ AnswersBegin' /\ [Next]_vars => [E!Next]_(E!vars)
<1> SUFFICES ASSUME OrderInv, DataTypes', AnswersBegin', [Next]_vars
             PROVE  E!Next \/ UNCHANGED E!vars
  OBVIOUS
<1>1. /\ DataTypes
      /\ \/ LiveOrder /\ LiveInv /\ StepEffect
         \/ sent' = sent /\ got' = got
  <2>1. CASE LiveOrder
    BY <2>1, EveryEffect DEF LiveOrder, LiveInv, EndEffect
  <2>2. CASE EndedOrder
    <3>1. UNCHANGED vars
      BY <2>2, StepsAreLive DEF EndedOrder, EndedInv
    <3>2. sent' = sent /\ got' = got
      BY <3>1, Zenon DEF vars, history
    <3> QED BY <2>2, <3>2 DEF EndedOrder, EndedInv
  <2> QED BY <2>1, <2>2 DEF OrderInv
<1>2. ASSUME sent'["client"] = sent["client"] PROVE Asked' = Asked
  BY <1>2, Zenon DEF Asked
<1>3. ASSUME got'["client"] = got["client"] PROVE Answers' = Answers
  BY <1>3, Zenon DEF Answers
<1>4. CASE sent'["client"] = sent["client"] /\ got'["client"] = got["client"]
  BY <1>2, <1>3, <1>4, ExchangeIs
<1>5. CASE SendEffect("client")
  <2>1. Answers' = Answers
    BY <1>3, <1>5 DEF SendEffect
  <2> QED BY <1>1, <1>5, <2>1, SendAsks, ExchangeIs
<1>6. CASE SendEffect("backend")
  <2>1. sent'["client"] = sent["client"] /\ got'["client"] = got["client"]
    BY <1>1, <1>6 DEF SendEffect, DataTypes, Side
  <2> QED BY <1>4, <2>1
<1>7. CASE TakeEffect("client")
  <2>1. Asked' = Asked
    BY <1>2, <1>7 DEF TakeEffect
  <2>2. CASE LiveOrder
    BY <1>7, <2>1, <2>2, TakeAnswers, ExchangeIs
  <2>3. CASE sent' = sent /\ got' = got
    BY <1>4, <2>3
  <2> QED BY <1>1, <2>2, <2>3
<1>8. CASE TakeEffect("backend")
  <2>1. sent'["client"] = sent["client"] /\ got'["client"] = got["client"]
    BY <1>1, <1>8 DEF TakeEffect, DataTypes, Side
  <2> QED BY <1>4, <2>1
<1>9. ASSUME NEW s \in Side, ResetEffect(s) \/ DeliverEffect(s) \/ WriteEffect(s)
      PROVE  sent' = sent /\ got' = got
  BY <1>9, Zenon DEF ResetEffect, DeliverEffect, WriteEffect
<1>10. CASE NoEffect
  BY <1>4, <1>10 DEF NoEffect
<1> QED BY <1>1, <1>4, <1>5, <1>6, <1>7, <1>8, <1>9, <1>10 DEF StepEffect, Side

\* Spec => ImplementsExchange: whatever is read, written, cut short, closed and
\* reset, every answer the client gets whole is that of a request it has sent
\* whole, no request is answered twice, and where the session keeps the order
\* the answers come in that of the requests.
THEOREM RelayImplementsExchange == Spec => ImplementsExchange
<1>1. OrderInv => DataTypes
  BY OrderShows
<1> QED BY <1>1, InitExchange, StepExchange, AnswersBeginQueued, OrderInvariant, PTL
     DEF Spec, ImplementsExchange, E!Spec
=============================================================================
