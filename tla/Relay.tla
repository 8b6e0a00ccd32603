------------------------------- MODULE Relay --------------------------------
(***************************************************************************)
(* One ProxyHandler at work: the two NormalConnHandlers of a session       *)
(* (src/src/proxy_handler.cpp), each on a non-blocking socket that epoll   *)
(* watches edge-triggered, and the client and the backend beyond them.     *)
(* Messages have a Content-Length; chunked ones are left out.              *)
(*                                                                         *)
(* Data is a sequence of units <<kind, n, k>>: part k of the n-th message  *)
(* of a kind, the header's HeaderLen parts first.  One step is one system  *)
(* call with the code up to the next, so the peers move between any two.   *)
(***************************************************************************)
EXTENDS Naturals, Sequences, SequencesExt

CONSTANTS
  NumReq,      \* bound: requests the client sends
  HeaderLen,   \* units of a header
  ReqLen,      \* units of a request's content, by number
  RspLen,      \* units of a response's content, by number
  Handlers,    \* the handlers a session may have for its backend: "normal",
               \* "failed" (FailedBackendHandler), "static" (StaticFileHandler)
  Invalid,     \* requests without a method and a path
  BadUrl,      \* requests whose path has an escape that is no number
  BadStatus,   \* responses whose status code does not parse
  SndBuf,      \* units a socket's send buffer holds
  MaxWire,     \* bound: units written to a socket
  Pipelining,  \* the client sends a request before the last is answered
  EarlyAnswer, \* the backend answers a request when it has its header
  Closes       \* sides whose peer may close its connection

Requests == 1 .. NumReq
Side == {"client", "backend"}

ASSUME RelayAssumption ==
  /\ NumReq \in Nat
  /\ HeaderLen \in Nat \ {0}
  /\ SndBuf \in Nat \ {0}
  /\ MaxWire \in Nat
  /\ ReqLen \in [Requests -> Nat]
  /\ RspLen \in [Requests -> Nat]
  /\ Handlers \subseteq {"normal", "failed", "static"}
  /\ Invalid \subseteq Requests
  /\ BadUrl \subseteq Requests
  /\ BadStatus \subseteq Requests
  /\ Pipelining \in BOOLEAN
  /\ EarlyAnswer \in BOOLEAN
  /\ Closes \subseteq Side

VARIABLES
  \* the sockets and epoll, by side
  in,        \* units received and not read
  out,       \* units written and not yet taken by the peer
  eof,       \* the peer has closed
  reset,     \* the connection was reset
  ready,     \* the socket is on epoll's ready list
  watchOut,  \* its event mask has EPOLLOUT
  noSpace,   \* the kernel owes an edge when the send buffer drains
  \* the two NormalConnHandlers
  raw,       \* raw_buffer
  state,     \* READ_HEADERS or READ_BODY
  tmp,       \* tmp_context
  queue,     \* contexts to send
  is_sending,
  \* the worker's thread
  pc,
  batch,     \* the events of the current epoll_wait
  reader,    \* the side whose handle_read_event runs, or "none"
  writer,    \* the side whose handle_write_event runs
  \* the handler of the backend, chosen by Worker::accept
  handler,
  \* history
  sent,      \* units the peer has sent
  got,       \* units the peer has received
  parsed,    \* numbers of the messages of the peer that were parsed
  queued,    \* messages that entered the queue
  resent,    \* a write of content was short
  missed     \* an EPOLLOUT came together with EPOLLIN

sockets  == <<in, out, eof, reset>>
epoll    == <<ready, watchOut, noSpace>>
handlers == <<raw, state, tmp, queue, is_sending>>
thread   == <<pc, batch, reader, writer>>
history  == <<handler, sent, got, parsed, queued, resent, missed>>
vars     == <<sockets, epoll, handlers, thread, history>>

-----------------------------------------------------------------------------
(* Messages.                                                               *)

ContentLen(kind, n) ==
  CASE kind = "req" -> ReqLen[n]
    [] kind = "rsp" -> RspLen[n]
    [] kind = "err" -> 1

Part(kind, n, first, last) == [k \in 1 .. last - first + 1 |-> <<kind, n, first + k - 1>>]
Header(kind, n)  == Part(kind, n, 1, HeaderLen)
Content(kind, n) == Part(kind, n, HeaderLen + 1, HeaderLen + ContentLen(kind, n))
Message(kind, n) == Header(kind, n) \o Content(kind, n)

\* The messages of a kind with these numbers, on the wire.
Wire(kind, numbers) ==
  FlattenSeq([k \in DOMAIN numbers |-> Message(kind, numbers[k])])

\* Numbers of the messages whose k-th unit is in a sequence of units.
Numbers(units, At(_, _)) ==
  FlattenSeq([j \in DOMAIN units |->
    LET u == units[j] IN IF u[3] = At(u[1], u[2]) THEN <<u[2]>> ELSE <<>>])

LastPart(kind, n) == HeaderLen + ContentLen(kind, n)
HeaderEnd(kind, n) == HeaderLen

\* HttpContext: what is left of the header, the content, and how far it is.
Context == [msg : {"req", "rsp", "err"} \X Requests,
            header : Seq({"req", "rsp", "err"} \X Requests \X Nat),
            content : Seq({"req", "rsp", "err"} \X Requests \X Nat),
            phase : {"SEND_HEADER", "SEND_CONTENT"}]

NewContext(kind, n) ==
  [msg |-> <<kind, n>>, header |-> Header(kind, n),
   content |-> Content(kind, n), phase |-> "SEND_HEADER"]

\* A tmp_context that was just made.
NoMessage == [msg |-> <<"req", 1>>, content |-> <<>>]

Each(v) == [s \in Side |-> v]

TypeOK ==
  /\ \A s \in Side : in[s] \in Seq({"req", "rsp"} \X Requests \X Nat)
  /\ \A s \in Side : Len(out[s]) <= SndBuf
  /\ {eof, reset, ready, watchOut, noSpace, is_sending, resent, missed}
       \subseteq [Side -> BOOLEAN]
  /\ state \in [Side -> {"READ_HEADERS", "READ_BODY"}]
  /\ \A s \in Side : \A j \in DOMAIN queue[s] : queue[s][j] \in Context
  /\ pc \in {"wait", "dispatch", "read", "parse", "write", "closed", "killed"}
  /\ batch \in [Side -> {"none", "in", "out"}]
  /\ reader \in Side \cup {"none"}
  /\ writer \in Side
  /\ handler \in Handlers

Init ==
  /\ in = Each(<<>>)
  /\ out = Each(<<>>)
  /\ eof = Each(FALSE)
  /\ reset = Each(FALSE)
  /\ ready = Each(FALSE)
  /\ watchOut = Each(FALSE)
  /\ noSpace = Each(FALSE)
  /\ raw = Each(<<>>)
  /\ state = Each("READ_HEADERS")
  /\ tmp = Each(NoMessage)
  /\ queue = Each(<<>>)
  /\ is_sending = Each(FALSE)
  /\ pc = "wait"
  /\ batch = Each("none")
  /\ reader = "none"
  /\ writer = "client"
  /\ handler \in Handlers
  /\ sent = Each(<<>>)
  /\ got = Each(<<>>)
  /\ parsed = Each(<<>>)
  /\ queued = Each(<<>>)
  /\ resent = Each(FALSE)
  /\ missed = Each(FALSE)

-----------------------------------------------------------------------------
(* The peers and the kernel.                                               *)

Up == pc \notin {"closed", "killed"}
Readable(s) == in[s] # <<>> \/ eof[s] \/ reset[s]
Writable(s) == Len(out[s]) < SndBuf \/ reset[s]

Send(s, u) ==
  /\ Up /\ ~eof[s] /\ ~reset[s]
  /\ in' = [in EXCEPT ![s] = Append(@, u)]
  /\ sent' = [sent EXCEPT ![s] = Append(@, u)]
  /\ ready' = [ready EXCEPT ![s] = TRUE]
  /\ UNCHANGED <<out, eof, reset, watchOut, noSpace, handlers, thread, handler,
                 got, parsed, queued, resent, missed>>

\* Requests one after the other; without pipelining, after the last answer.
ClientSends ==
  LET stream == Wire("req", [n \in Requests |-> n])
      k == Len(sent["client"]) + 1
  IN  /\ k <= Len(stream)
      /\ \/ Pipelining
         \/ stream[k][3] > 1
         \/ Len(Numbers(got["client"], LastPart)) >= stream[k][2] - 1
      /\ Send("client", stream[k])

\* Responses in the order of the requests that have arrived.
BackendSends ==
  LET due == IF EarlyAnswer THEN Numbers(got["backend"], HeaderEnd)
                            ELSE Numbers(got["backend"], LastPart)
      stream == Wire("rsp", due)
      k == Len(sent["backend"]) + 1
  IN  k <= Len(stream) /\ Send("backend", stream[k])

\* The peer takes a unit.  Space in a buffer that was found full is an edge.
PeerReads(s) ==
  /\ Up /\ ~eof[s]
  /\ out[s] # <<>>
  /\ got' = [got EXCEPT ![s] = Append(@, Head(out[s]))]
  /\ out' = [out EXCEPT ![s] = Tail(@)]
  /\ ready' = [ready EXCEPT ![s] = @ \/ (noSpace[s] /\ watchOut[s])]
  /\ noSpace' = [noSpace EXCEPT ![s] = FALSE]
  /\ UNCHANGED <<in, eof, reset, watchOut, handlers, thread, handler,
                 sent, parsed, queued, resent, missed>>

PeerCloses(s) ==
  /\ Up /\ ~eof[s] /\ s \in Closes
  /\ s = "backend" => handler = "normal"
  /\ eof' = [eof EXCEPT ![s] = TRUE]
  /\ ready' = [ready EXCEPT ![s] = TRUE]
  /\ UNCHANGED <<in, out, reset, watchOut, noSpace, handlers, thread, history>>

\* A closed peer answers what it had not read, or is still sent, by a reset.
PeerResets(s) ==
  /\ Up /\ eof[s] /\ ~reset[s]
  /\ reset' = [reset EXCEPT ![s] = TRUE]
  /\ out' = [out EXCEPT ![s] = <<>>]
  /\ ready' = [ready EXCEPT ![s] = TRUE]
  /\ UNCHANGED <<in, eof, watchOut, noSpace, handlers, thread, history>>

\* epoll_wait polls what is on the ready list and reports what is ready.  A
\* socket with EPOLLIN is only read (worker.cpp:172).
EpollWait ==
  LET fires(s) == ready[s] /\ (Readable(s) \/ (watchOut[s] /\ Writable(s)))
  IN  /\ pc = "wait"
      /\ \E s \in Side : ready[s]
      /\ batch' = [s \in Side |-> CASE ~fires(s)  -> "none"
                                    [] Readable(s) -> "in"
                                    [] OTHER       -> "out"]
      /\ missed' = [s \in Side |-> missed[s]
                       \/ (fires(s) /\ Readable(s) /\ watchOut[s] /\ Writable(s))]
      /\ noSpace' = [s \in Side |-> noSpace[s] \/ (ready[s] /\ ~Writable(s))]
      /\ ready' = Each(FALSE)
      /\ pc' = "dispatch"
      /\ UNCHANGED <<sockets, watchOut, handlers, reader, writer, handler,
                     sent, got, parsed, queued, resent>>

\* EPOLL_CTL_MOD polls the socket again.
ModifyEvent(s, wantOut) ==
  /\ watchOut' = [watchOut EXCEPT ![s] = wantOut]
  /\ ready' = [ready EXCEPT ![s] = @ \/ Readable(s) \/ (wantOut /\ Writable(s))]
  /\ noSpace' = [noSpace EXCEPT ![s] = @ \/ ~Writable(s)]

-----------------------------------------------------------------------------
(* The event loop.                                                         *)

Dispatch(s) ==
  /\ pc = "dispatch"
  /\ batch[s] # "none"
  /\ batch' = [batch EXCEPT ![s] = "none"]
  /\ IF batch[s] = "in"
       THEN pc' = "read" /\ reader' = s /\ UNCHANGED writer
       ELSE pc' = "write" /\ writer' = s /\ reader' = "none"
  /\ UNCHANGED <<sockets, epoll, handlers, history>>

BatchDone ==
  /\ pc = "dispatch"
  /\ batch = Each("none")
  /\ pc' = "wait"
  /\ UNCHANGED <<sockets, epoll, handlers, batch, reader, writer, history>>

\* Both sockets are closed and both handlers destroyed, with all that was
\* received or queued: by Worker::disconnect, or because the process dies.
Destroy(how) ==
  /\ pc' = how
  /\ in' = Each(<<>>)
  /\ raw' = Each(<<>>)
  /\ state' = Each("READ_HEADERS")
  /\ tmp' = Each(NoMessage)
  /\ queue' = Each(<<>>)
  /\ is_sending' = Each(FALSE)
  /\ UNCHANGED <<out, eof, reset, epoll, batch, reader, writer, history>>

Disconnect == Destroy("closed")

-----------------------------------------------------------------------------
(* NormalConnHandler::handle_read_event.                                   *)

\* Mutant: what raw_buffer held is overwritten.
ReadSomeOverwrites ==
  /\ pc = "read"
  /\ in[reader] # <<>>
  /\ raw' = [raw EXCEPT ![reader] = in[reader]]
  /\ in' = [in EXCEPT ![reader] = <<>>]
  /\ UNCHANGED <<out, eof, reset, epoll, state, tmp, queue, is_sending, thread, history>>

ReadSome ==
  /\ pc = "read"
  /\ in[reader] # <<>>
  /\ raw' = [raw EXCEPT ![reader] = @ \o in[reader]]
  /\ in' = [in EXCEPT ![reader] = <<>>]
  /\ UNCHANGED <<out, eof, reset, epoll, state, tmp, queue, is_sending, thread, history>>

\* Nothing left: parse what was read.
ReadDrained ==
  /\ pc = "read"
  /\ ~Readable(reader)
  /\ pc' = "parse"
  /\ UNCHANGED <<sockets, epoll, handlers, batch, reader, writer, history>>

\* End of file, or an error.  What the same handle_read_event had read before
\* it is not parsed any more.
ReadEnds ==
  /\ pc = "read"
  /\ in[reader] = <<>> /\ Readable(reader)
  /\ Disconnect

\* Index of the end of the first header in raw_buffer, 0 if there is none.
FindHeaderEnd(s) == SelectInSeq(raw[s], LAMBDA u : u[3] = HeaderLen)

ParseStops ==
  /\ pc = "parse"
  /\ \/ raw[reader] = <<>>
     \/ state[reader] = "READ_HEADERS" /\ FindHeaderEnd(reader) = 0
  /\ pc' = "dispatch"
  /\ UNCHANGED <<sockets, epoll, handlers, batch, reader, writer, history>>

\* Mutant: a context goes to the front of the queue.
EnqueueFront(t, c) ==
  /\ queue' = [queue EXCEPT ![t] = <<c>> \o @]
  /\ queued' = [queued EXCEPT ![t] = Append(@, c.msg)]
  /\ IF is_sending[t] THEN UNCHANGED <<pc, writer>>
                      ELSE pc' = "write" /\ writer' = t

\* The end of NormalConnHandler::recv_content of side t.
Enqueue(t, c) ==
  /\ queue' = [queue EXCEPT ![t] = Append(@, c)]
  /\ queued' = [queued EXCEPT ![t] = Append(@, c.msg)]
  /\ IF is_sending[t] THEN UNCHANGED <<pc, writer>>
                      ELSE pc' = "write" /\ writer' = t

\* The requests that this session answers itself.
Here == IF handler = "normal" THEN Invalid ELSE Requests

\* rev_handler->recv_content for a parsed message.  A request is forwarded or
\* answered at once; a response without a status code is replaced.
RecvContent(kind, n) ==
  CASE kind = "req" /\ n \notin Here      -> Enqueue("backend", NewContext("req", n))
    [] kind = "rsp" /\ n \notin BadStatus -> Enqueue("client", NewContext("rsp", n))
    [] OTHER                              -> Enqueue("client", NewContext("err", n))

Deliver(s, kind, n) ==
  /\ state' = [state EXCEPT ![s] = "READ_HEADERS"]
  /\ parsed' = [parsed EXCEPT ![s] = Append(@, n)]
  /\ RecvContent(kind, n)
  /\ UNCHANGED is_sending

\* This pass of the parser completes message n of a kind.
Completes(kind, n) ==
  LET end == FindHeaderEnd(reader) IN
  \/ /\ state[reader] = "READ_HEADERS"
     /\ end # 0
     /\ raw[reader][end] = <<kind, n, HeaderLen>>
     /\ ContentLen(kind, n) = 0
  \/ /\ state[reader] = "READ_BODY"
     /\ raw[reader] # <<>>
     /\ tmp[reader].msg = <<kind, n>>
     /\ ContentLen(kind, n) - Len(tmp[reader].content) <= Len(raw[reader])

\* StaticFileHandler::url_decode throws for the request it is handed, and nothing
\* catches it.
UrlThrows == handler = "static" /\ \E n \in BadUrl : Completes("req", n)

ParseKills ==
  /\ pc = "parse"
  /\ UrlThrows
  /\ Destroy("killed")

\* A complete header: the message is delivered if it has no content.
ParseHeader ==
  LET end == FindHeaderEnd(reader)
      kind == raw[reader][end][1]
      n == raw[reader][end][2]
  IN  /\ pc = "parse"
      /\ state[reader] = "READ_HEADERS"
      /\ end # 0
      /\ ~UrlThrows
      /\ raw' = [raw EXCEPT ![reader] = SubSeq(@, end + 1, Len(@))]
      /\ tmp' = [tmp EXCEPT ![reader] = [msg |-> <<kind, n>>, content |-> <<>>]]
      /\ IF ContentLen(kind, n) = 0
           THEN Deliver(reader, kind, n)
           ELSE /\ state' = [state EXCEPT ![reader] = "READ_BODY"]
                /\ UNCHANGED <<queue, is_sending, pc, writer, parsed, queued>>
      /\ UNCHANGED <<sockets, epoll, batch, reader, handler, sent, got, resent, missed>>

\* bytes_to_read
BytesToRead(s, remaining) == IF remaining < Len(raw[s]) THEN remaining ELSE Len(raw[s])

ParseBody ==
  LET kind == tmp[reader].msg[1]
      n == tmp[reader].msg[2]
      remaining == ContentLen(kind, n) - Len(tmp[reader].content)
      take == BytesToRead(reader, remaining)
  IN  /\ pc = "parse"
      /\ state[reader] = "READ_BODY"
      /\ raw[reader] # <<>>
      /\ ~UrlThrows
      /\ tmp' = [tmp EXCEPT ![reader].content = @ \o SubSeq(raw[reader], 1, take)]
      /\ raw' = [raw EXCEPT ![reader] = SubSeq(@, take + 1, Len(@))]
      /\ IF take = remaining
           THEN Deliver(reader, kind, n)
           ELSE UNCHANGED <<state, queue, is_sending, pc, writer, parsed, queued>>
      /\ UNCHANGED <<sockets, epoll, batch, reader, handler, sent, got, resent, missed>>

-----------------------------------------------------------------------------
(* NormalConnHandler::handle_write_event.                                  *)

\* Back to where it was called: process_events, or parse_http_context.
Return == pc' = IF reader = "none" THEN "dispatch" ELSE "parse"

\* Mutant: is_sending stays set.
WriteDoneStillSending ==
  /\ pc = "write"
  /\ queue[writer] = <<>>
  /\ IF is_sending[writer]
       THEN ModifyEvent(writer, FALSE)
       ELSE UNCHANGED epoll
  /\ Return
  /\ UNCHANGED <<sockets, handlers, batch, reader, writer, history>>

WriteDone ==
  /\ pc = "write"
  /\ queue[writer] = <<>>
  /\ IF is_sending[writer]
       THEN ModifyEvent(writer, FALSE) /\ is_sending' = [is_sending EXCEPT ![writer] = FALSE]
       ELSE UNCHANGED <<epoll, is_sending>>
  /\ Return
  /\ UNCHANGED <<sockets, raw, state, tmp, queue, batch, reader, writer, history>>

\* Mutant: the part of the buffer that was written is not erased.
AfterWriteKeeps(t, c, n) ==
  IF n < Len(IF c.phase = "SEND_HEADER" THEN c.header ELSE c.content)
    THEN UNCHANGED queue
    ELSE queue' = [queue EXCEPT ![t] =
           IF c.phase = "SEND_CONTENT" \/ c.content = <<>>
             THEN Tail(@)
             ELSE [@ EXCEPT ![1].phase = "SEND_CONTENT"]]

\* Mutant: a context without content is not popped.
AfterWriteNoPop(t, c, n) ==
  LET buffer == IF c.phase = "SEND_HEADER" THEN c.header ELSE c.content
  IN  queue' = [queue EXCEPT ![t] =
        IF n < Len(buffer)
          THEN [@ EXCEPT ![1].header = SubSeq(buffer, n + 1, Len(buffer))]
          ELSE IF c.phase = "SEND_CONTENT"
                 THEN Tail(@)
                 ELSE [@ EXCEPT ![1].phase = IF c.content = <<>> THEN "DONE" ELSE "SEND_CONTENT"]]

\* Mutant: a context whose content was written stays in the queue.
AfterWriteKeepsContent(t, c, n) ==
  LET buffer == IF c.phase = "SEND_HEADER" THEN c.header ELSE c.content
  IN  queue' = [queue EXCEPT ![t] =
        IF n < Len(buffer)
          THEN [@ EXCEPT ![1].header = SubSeq(buffer, n + 1, Len(buffer))]
          ELSE IF c.content = <<>>
                 THEN Tail(@)
                 ELSE [@ EXCEPT ![1].phase = "SEND_CONTENT"]]

\* The front context c after n of its units were written.  Content is written
\* from a fresh copy every time, so nothing of it is ever erased.
AfterWrite(t, c, n) ==
  LET buffer == IF c.phase = "SEND_HEADER" THEN c.header ELSE c.content
  IN  queue' = [queue EXCEPT ![t] =
        IF n < Len(buffer)
          THEN [@ EXCEPT ![1].header = SubSeq(buffer, n + 1, Len(buffer))]
          ELSE IF c.phase = "SEND_CONTENT" \/ c.content = <<>>
                 THEN Tail(@)
                 ELSE [@ EXCEPT ![1].phase = "SEND_CONTENT"]]

WriteSome ==
  LET c == Head(queue[writer])
      buffer == IF c.phase = "SEND_HEADER" THEN c.header ELSE c.content
      free == SndBuf - Len(out[writer])
      n == IF free < Len(buffer) THEN free ELSE Len(buffer)
  IN  /\ pc = "write"
      /\ queue[writer] # <<>>
      /\ ~reset[writer]
      /\ free > 0
      /\ Len(got[writer]) + Len(out[writer]) + n <= MaxWire
      /\ out' = [out EXCEPT ![writer] = @ \o SubSeq(buffer, 1, n)]
      /\ AfterWrite(writer, c, n)
      /\ resent' = [resent EXCEPT ![writer] =
                      @ \/ (c.phase = "SEND_CONTENT" /\ n < Len(buffer))]
      /\ UNCHANGED <<in, eof, reset, epoll, raw, state, tmp, is_sending, thread,
                     handler, sent, got, parsed, queued, missed>>

\* Mutant: EPOLLOUT is not asked for.
WriteBlockedSilently ==
  /\ pc = "write"
  /\ queue[writer] # <<>>
  /\ ~Writable(writer)
  /\ noSpace' = [noSpace EXCEPT ![writer] = TRUE]
  /\ is_sending' = [is_sending EXCEPT ![writer] = TRUE]
  /\ Return
  /\ UNCHANGED <<sockets, ready, watchOut, raw, state, tmp, queue, batch, reader, writer, history>>

\* EAGAIN: ask for EPOLLOUT unless that was done.
WriteBlocked ==
  /\ pc = "write"
  /\ queue[writer] # <<>>
  /\ ~Writable(writer)
  /\ IF is_sending[writer]
       THEN /\ noSpace' = [noSpace EXCEPT ![writer] = TRUE]
            /\ UNCHANGED <<ready, watchOut, is_sending>>
       ELSE /\ ModifyEvent(writer, TRUE)
            /\ is_sending' = [is_sending EXCEPT ![writer] = TRUE]
  /\ Return
  /\ UNCHANGED <<sockets, raw, state, tmp, queue, batch, reader, writer, history>>

\* The connection was reset.  process_events disconnects; recv_content drops
\* the result, and the context stays queued.
WriteFails ==
  /\ pc = "write"
  /\ queue[writer] # <<>>
  /\ reset[writer]
  /\ IF reader = "none"
       THEN Disconnect
       ELSE /\ pc' = "parse"
            /\ UNCHANGED <<sockets, epoll, handlers, batch, reader, writer, history>>

\* Or the write raises SIGPIPE, which nothing handles.
WriteKills ==
  /\ pc = "write"
  /\ queue[writer] # <<>>
  /\ reset[writer]
  /\ Destroy("killed")

-----------------------------------------------------------------------------
Peers ==
  \/ ClientSends \/ BackendSends
  \/ \E s \in Side : PeerReads(s) \/ PeerCloses(s) \/ PeerResets(s)

HandleRead == ReadSome \/ ReadDrained \/ ReadEnds \/ ParseStops
              \/ ParseHeader \/ ParseBody \/ ParseKills

HandleWrite == WriteDone \/ WriteSome \/ WriteBlocked \/ WriteFails \/ WriteKills

Worker ==
  \/ EpollWait \/ BatchDone \/ HandleRead \/ HandleWrite
  \/ \E s \in Side : Dispatch(s)

Next == Peers \/ Worker

Spec == Init /\ [][Next]_vars

\* The thread is scheduled, the client and the backend say what they have to
\* say and take what is sent to them.
FairSpec ==
  /\ Spec
  /\ WF_vars(Worker)
  /\ WF_vars(ClientSends)
  /\ WF_vars(BackendSends)
  /\ \A s \in Side : WF_vars(PeerReads(s))

-----------------------------------------------------------------------------
(* Properties.                                                             *)

\* What a context still has to write.
Unsent(c) == IF c.phase = "SEND_HEADER" THEN c.header \o c.content ELSE c.content

Queued(t) ==
  FlattenSeq([k \in DOMAIN queued[t] |-> Message(queued[t][k][1], queued[t][k][2])])

\* While the session lasts, nothing is lost, doubled or reordered on the way out:
\* what the peer has, what is in the socket and what is still queued are the
\* messages that were queued, until a write of content is short or the connection
\* is reset.
WriteConserves ==
  Up => \A t \in Side :
    ~resent[t] /\ ~reset[t] =>
      got[t] \o out[t] \o FlattenSeq([k \in DOMAIN queue[t] |-> Unsent(queue[t][k])])
        = Queued(t)

\* Nor on the way in, however the stream is cut: the messages parsed, the one
\* being parsed, raw_buffer and the socket are what the peer has sent.  The end
\* of the session loses all but the messages parsed, what came in the same drain
\* as the end of file included; and what was parsed is still how the stream began.
ReadConserves ==
  \A s \in Side :
    LET kind == IF s = "client" THEN "req" ELSE "rsp"
        partial == IF state[s] = "READ_HEADERS" THEN <<>>
                   ELSE Header(kind, tmp[s].msg[2]) \o tmp[s].content
        kept == Wire(kind, parsed[s]) \o partial \o raw[s] \o in[s]
    IN  IF Up THEN kept = sent[s] ELSE IsPrefix(kept, sent[s])

\* The k-th response completed on the client's connection answers the k-th
\* request.
ResponsesInOrder ==
  LET responses == Numbers(got["client"] \o out["client"], LastPart)
  IN  \A k \in DOMAIN responses : responses[k] = k

\* A session keeps the order of the requests if it forwards them all, or answers
\* them all, or never has two of them at a time.  Otherwise an answer of its own
\* overtakes those that are still to come from the backend.
KeepsOrder == Invalid = {} \/ Invalid = Requests \/ ~Pipelining

\* The requests the client has sent whole.
Asked == {n \in Requests : <<"req", n, LastPart("req", n)>> \in ToSet(sent["client"])}

E == INSTANCE Exchange WITH
  InOrder <- KeepsOrder, asked <- Asked, answers <- Numbers(got["client"], LastPart)

\* However the two connections are read, written, cut short and reset, what the
\* client gets answers what it has sent, nothing twice, and in order if the
\* session keeps it.
ImplementsExchange == E!Spec

\* No edge is lost: when the thread waits, unread data has an event coming,
\* and a context is queued only while the buffer is full and EPOLLOUT is
\* watched for, unless an EPOLLOUT was missed.
NoEdgeLost ==
  pc = "wait" =>
    \A s \in Side :
      /\ Readable(s) => ready[s]
      /\ queue[s] # <<>> /\ ~reset[s] /\ ~missed[s] =>
           is_sending[s] /\ watchOut[s] /\ (ready[s] \/ noSpace[s])

\* The requests that no death of the worker of a URL can precede.
Answerable == {n \in Requests : \A m \in BadUrl : ~Pipelining /\ n < m}

\* Every request is answered, if none of the two peers closes.
EveryRequestAnswered ==
  \A n \in Answerable :
    (Len(Numbers(sent["client"], LastPart)) >= n)
      ~> (Len(Numbers(got["client"], LastPart)) >= n)
=============================================================================
