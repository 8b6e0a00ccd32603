----------------------------- MODULE HttpParser -----------------------------
(***************************************************************************)
(* parse_http_context and parse_chunked_content of one NormalConnHandler   *)
(* (src/src/proxy_handler.cpp), fed with a stream of messages in pieces    *)
(* cut anywhere.                                                           *)
(*                                                                         *)
(* The stream is a sequence of tokens <<kind, value>>: CR, LF, a header    *)
(* without its final line ends, the digits of a chunk size, one unit of    *)
(* content.  A content may hold CR and LF.  One step is one pass through a *)
(* loop's body, of parse_http_context (pc = "parse") or of                 *)
(* parse_chunked_content (pc = "chunk").                                   *)
(***************************************************************************)
EXTENDS Naturals, Sequences, SequencesExt, FiniteSetsExt

CONSTANTS
  Streams,     \* bound: the sequences of messages a peer may send
  BadSizes,    \* chunk sizes whose line stoul refuses: no number, or out of range
  is_request   \* the peer is the client: header lines with its address are added

CR == <<"CR", 0>>
LF == <<"LF", 0>>
CRLF == <<CR, LF>>
HeadLine(n) == <<"head", n>>   \* the header of the stream's n-th message
SizeLine(k) == <<"size", k>>   \* the line of a chunk of k units, extensions included
Address == <<"address", 0>>    \* X-Forwarded-For and X-Real-IP

(* A message's kind is what its header announces: "length", "chunked",     *)
(* "max" (the length 2^64-1, which stoul also makes of -1), "unread" (a    *)
(* length that stoul does not read: it counts as 0) or "huge" (one that no *)
(* string can hold).  The parts are the chunks of a chunked message; of    *)
(* another one, pieces that make up its content.                           *)
Tokens == {"CR", "LF", "head", "size", "address", "data"} \X Nat
MessageKinds == {"length", "chunked", "max", "unread", "huge"}
SomeMessages == [kind : MessageKinds, parts : Seq(Seq(Tokens) \ {<<>>})]

\* What the parser leaves of a message in raw_buffer, for the next header to
\* begin with: the CRLF behind a last chunk, a content it does not know of.
Leftover(m) ==
  CASE m.kind = "chunked"           -> CRLF
    [] m.kind \in {"max", "unread"} -> FlattenSeq(m.parts)
    [] OTHER                        -> <<>>

\* It is no header of its own: that needs an empty line.
Headless(d) ==
  /\ \A i \in DOMAIN d : d[i][1] # "head"
  /\ \A i \in 1 .. Len(d) - 3 :
       ~ (d[i] = CR /\ d[i + 1] = LF /\ d[i + 2] = CR /\ d[i + 3] = LF)

ASSUME StreamsAssumption ==
  /\ Streams \subseteq Seq(SomeMessages)
  /\ \A s \in Streams : \A n \in DOMAIN s : Headless(Leftover(s[n]))
  /\ BadSizes \subseteq Nat
  /\ is_request \in BOOLEAN

(***************************************************************************)
(* The peer's side: what it sends, and what a cut after each token does.   *)
(***************************************************************************)
Chunk(c) == <<SizeLine(Len(c))>> \o CRLF \o c \o CRLF
LastChunk == <<SizeLine(0)>> \o CRLF \o CRLF

Body(m) ==
  CASE m.kind \in {"length", "max", "unread"} -> FlattenSeq(m.parts)
    [] m.kind = "chunked" ->
         FlattenSeq([i \in DOMAIN m.parts |-> Chunk(m.parts[i])]) \o LastChunk
    [] OTHER -> <<>>

Encoded(s, n) == <<HeadLine(n)>> \o CRLF \o CRLF \o Body(s[n])

Wire(s) == FlattenSeq([n \in DOMAIN s |-> Encoded(s, n)])

\* "line": in a line the parser waits for in a busy loop, "seam": between a
\* chunk's data and its CRLF, "safe": anywhere else.
ChunkCuts(c) ==
  <<"line", "line", "safe">>
    \o [i \in DOMAIN c |-> IF i = Len(c) THEN "seam" ELSE "safe"]
    \o <<"line", "safe">>
LastCuts == <<"line", "line", "safe", "safe", "safe">>

BodyCuts(m) ==
  IF m.kind = "chunked"
  THEN FlattenSeq([i \in DOMAIN m.parts |-> ChunkCuts(m.parts[i])]) \o LastCuts
  ELSE [i \in DOMAIN Body(m) |-> "safe"]

Cuts(s) ==
  FlattenSeq([n \in DOMAIN s |-> [i \in 1 .. 5 |-> "safe"] \o BodyCuts(s[n])])

\* The tokens after which the n-th message can be handed over: all of it but what
\* the parser leaves.
CompleteAt(s, n) == Len(Wire(SubSeq(s, 1, n))) - Len(Leftover(s[n]))

\* Messages that are handed over, and with which content.
IsGood(m) == m.kind \in {"length", "chunked", "unread"}
ContentOf(m) == IF m.kind = "unread" THEN <<>> ELSE FlattenSeq(m.parts)

\* Messages with a length that no string can hold or the line of a chunk, maybe
\* the last, that stoul refuses.
IsDeadly(m) ==
  \/ m.kind = "huge"
  \/ /\ m.kind = "chunked"
     /\ 0 \in BadSizes \/ \E i \in DOMAIN m.parts : Len(m.parts[i]) \in BadSizes

VARIABLES
  stream,      \* the messages the peer sends
  fed,         \* how many of its tokens have been read
  cuts,        \* history: where reads have ended
  raw,         \* raw_buffer
  state,       \* the ConnState
  tmp,         \* tmp_context
  delivered,   \* the contexts passed to rev_handler->recv_content
  pc           \* "wait", "parse", "chunk" or "killed"

vars == <<stream, fed, cuts, raw, state, tmp, delivered, pc>>

ConnState ==
  {"READ_HEADERS", "READ_BODY", "READ_CHUNK_SIZE", "READ_CHUNK_DATA"}

NoContext == [header |-> <<>>, content |-> <<>>, remaining |-> 0]

Init ==
  /\ stream \in Streams
  /\ fed = 0
  /\ cuts = {}
  /\ raw = <<>>
  /\ state = "READ_HEADERS"
  /\ tmp = NoContext
  /\ delivered = <<>>
  /\ pc = "wait"

Drop(s, k) == SubSeq(s, k + 1, Len(s))

\* Where pattern first occurs in s, 0 if nowhere.
Find(pattern, s) ==
  LET places == {i \in DOMAIN s : IsPrefix(pattern, Drop(s, i - 1))}
  IN IF places = {} THEN 0 ELSE Min(places)

(***************************************************************************)
(* read_raw_buff: everything that has arrived when the event is handled.   *)
(***************************************************************************)
Read ==
  /\ pc = "wait"
  /\ \E upto \in fed + 1 .. Len(Wire(stream)) :
       /\ raw' = raw \o SubSeq(Wire(stream), fed + 1, upto)
       /\ fed' = upto
       /\ cuts' = cuts \cup {Cuts(stream)[upto]}
  /\ pc' = "parse"
  /\ UNCHANGED <<stream, state, tmp, delivered>>

Deliver(context) == delivered' = Append(delivered, context)

(***************************************************************************)
(* The loop of parse_http_context.                                         *)
(***************************************************************************)
\* Mutant: the parser returns when it has no message half read, whatever is left.
ParseEndsBetween ==
  /\ pc = "parse"
  /\ raw = <<>> \/ state = "READ_HEADERS"
  /\ pc' = "wait"
  /\ UNCHANGED <<stream, fed, cuts, raw, state, tmp, delivered>>

ParseEnds ==
  /\ pc = "parse"
  /\ raw = <<>>
  /\ pc' = "wait"
  /\ UNCHANGED <<stream, fed, cuts, raw, state, tmp, delivered>>

\* Mutant: an incomplete header is looked at again instead of waiting.
HeaderRetried ==
  /\ pc = "parse"
  /\ state = "READ_HEADERS"
  /\ UNCHANGED vars

HeaderIncomplete ==
  /\ pc = "parse"
  /\ raw # <<>>
  /\ state = "READ_HEADERS"
  /\ Find(CRLF \o CRLF, raw) = 0
  /\ pc' = "wait"
  /\ UNCHANGED <<stream, fed, cuts, raw, state, tmp, delivered>>

\* The messages whose headers are in what is taken for one.
HeadsIn(header) == {n \in DOMAIN stream : HeadLine(n) \in Range(header)}

\* process_http_headers: what the header announces; nothing found is no content.
Announced(header) ==
  IF HeadsIn(header) = {} THEN [kind |-> "length", parts |-> <<>>]
  ELSE stream[Min(HeadsIn(header))]

\* ... and the header it rebuilds, with the lines it adds to a request.
Rebuilt(header) ==
  header \o CRLF \o (IF is_request THEN <<Address>> \o CRLF ELSE <<>>) \o CRLF

\* Mutant: tmp_context is not reset.
FreshKeepsContent(header) == [tmp EXCEPT !.header = header]

\* reset(), and the header put in.
Fresh(header) == [NoContext EXCEPT !.header = header]

\* Mutant: one byte too few is erased.
AfterMostOfHeader(end) == Drop(raw, end + 2)

\* raw_buffer without the header and the four bytes that end it.
AfterHeader(end) == Drop(raw, end + 3)

ParseHeader ==
  LET end == Find(CRLF \o CRLF, raw)
      header == SubSeq(raw, 1, end - 1)
      m == Announced(header)
      length == Len(ContentOf(m))
      context == Fresh(Rebuilt(header))
  IN /\ pc = "parse"
     /\ state = "READ_HEADERS"
     /\ end # 0
     /\ \/ /\ m.kind = "chunked"
           /\ state' = "READ_CHUNK_SIZE"
           /\ tmp' = context
           /\ UNCHANGED <<delivered, pc>>
        \/ /\ m.kind = "max"
           /\ tmp' = context
           /\ UNCHANGED <<state, delivered, pc>>
        \/ /\ m.kind = "huge"
           /\ pc' = "killed"
           /\ tmp' = context
           /\ state' = "READ_BODY"
           /\ UNCHANGED delivered
        \/ /\ m.kind \in {"length", "unread"}
           /\ length = 0
           /\ tmp' = context
           /\ Deliver(context)
           /\ UNCHANGED <<state, pc>>
        \/ /\ m.kind = "length"
           /\ length > 0
           /\ tmp' = [context EXCEPT !.remaining = length]
           /\ state' = "READ_BODY"
           /\ UNCHANGED <<delivered, pc>>
     /\ raw' = IF m.kind = "huge" THEN raw ELSE AfterHeader(end)
     /\ UNCHANGED <<stream, fed, cuts>>

\* Mutant: all of raw_buffer is taken for the content.
FilledWithAll(k) ==
  [tmp EXCEPT !.content = @ \o raw, !.remaining = @ - Len(raw)]

\* The context with the next k tokens of raw_buffer added to its content.
Filled(k) ==
  [tmp EXCEPT !.content = @ \o SubSeq(raw, 1, k), !.remaining = @ - k]

ParseBody ==
  LET k == Min({tmp.remaining, Len(raw)})
  IN /\ pc = "parse"
     /\ raw # <<>>
     /\ state = "READ_BODY"
     /\ tmp' = Filled(k)
     /\ raw' = Drop(raw, k)
     /\ IF k = tmp.remaining
        THEN /\ state' = "READ_HEADERS"
             /\ Deliver(tmp')
        ELSE UNCHANGED <<state, delivered>>
     /\ UNCHANGED <<stream, fed, cuts, pc>>

EnterChunked ==
  /\ pc = "parse"
  /\ raw # <<>>
  /\ state \in {"READ_CHUNK_SIZE", "READ_CHUNK_DATA"}
  /\ pc' = "chunk"
  /\ UNCHANGED <<stream, fed, cuts, raw, state, tmp, delivered>>

(***************************************************************************)
(* The loop of parse_chunked_content.                                      *)
(***************************************************************************)
ChunkedEnds ==
  /\ pc = "chunk"
  /\ \/ raw = <<>>
     \/ state = "READ_CHUNK_SIZE" /\ Find(CRLF, raw) = 0
  /\ pc' = "parse"
  /\ UNCHANGED <<stream, fed, cuts, raw, state, tmp, delivered>>

\* A line that is no number makes stoul throw; nobody catches it.
IsNumber(line) ==
  Len(line) = 1 /\ line[1] = SizeLine(line[1][2]) /\ line[1][2] \notin BadSizes

ChunkSize ==
  LET end == Find(CRLF, raw)
      line == SubSeq(raw, 1, end - 1)
  IN /\ pc = "chunk"
     /\ state = "READ_CHUNK_SIZE"
     /\ end # 0
     /\ \/ /\ ~ IsNumber(line)
           /\ pc' = "killed"
           /\ UNCHANGED <<raw, state, tmp, delivered>>
        \/ /\ IsNumber(line)
           /\ raw' = Drop(raw, end + 1)
           /\ IF line[1][2] = 0
              THEN /\ state' = "READ_HEADERS"
                   /\ Deliver(tmp)
                   /\ pc' = "parse"
                   /\ UNCHANGED tmp
              ELSE /\ state' = "READ_CHUNK_DATA"
                   /\ tmp' = [tmp EXCEPT !.remaining = line[1][2]]
                   /\ UNCHANGED <<delivered, pc>>
     /\ UNCHANGED <<stream, fed, cuts>>

\* Mutant: the CRLF after a chunk's data is left there.
KeepCRLF(s) == s

\* The CRLF after the data is skipped only if both bytes are there.
WithoutCRLF(s) == IF IsPrefix(CRLF, s) THEN Drop(s, 2) ELSE s

ChunkData ==
  LET k == Min({tmp.remaining, Len(raw)})
  IN /\ pc = "chunk"
     /\ raw # <<>>
     /\ state = "READ_CHUNK_DATA"
     /\ tmp' = Filled(k)
     /\ IF k = tmp.remaining
        THEN /\ raw' = WithoutCRLF(Drop(raw, k))
             /\ state' = "READ_CHUNK_SIZE"
        ELSE /\ raw' = Drop(raw, k)
             /\ UNCHANGED state
     /\ UNCHANGED <<stream, fed, cuts, delivered, pc>>

Parse ==
  \/ ParseEnds \/ HeaderIncomplete \/ ParseHeader \/ ParseBody \/ EnterChunked
  \/ ChunkedEnds \/ ChunkSize \/ ChunkData

Next == Read \/ Parse

Spec == Init /\ [][Next]_vars

\* The worker's thread is scheduled; the peer need not send anything.
FairSpec == Spec /\ WF_vars(Parse)

-----------------------------------------------------------------------------
\* Every variable has its type, and nothing is counted below zero.
TypeOK ==
  /\ stream \in Streams
  /\ fed \in 0 .. Len(Wire(stream))
  /\ cuts \subseteq {"safe", "line", "seam"}
  /\ raw \in Seq(Range(Wire(stream)))
  /\ state \in ConnState
  /\ DOMAIN tmp = DOMAIN NoContext
  /\ tmp.remaining \in Nat
  /\ \A i \in DOMAIN delivered : DOMAIN delivered[i] = DOMAIN NoContext
  /\ pc \in {"wait", "parse", "chunk", "killed"}

\* The messages that are to be handed over, in order; those of an impossible
\* length are not.
Goods == {n \in DOMAIN stream : IsGood(stream[n])}
Good(i) == CHOOSE n \in Goods : Cardinality({m \in Goods : m < n}) = i - 1
ArrivedCount == Cardinality({n \in Goods : CompleteAt(stream, n) <= fed})
Number(context) == Min(HeadsIn(context.header))

F == INSTANCE Framing WITH
  sent <- [i \in 1 .. Cardinality(Goods) |->
             [number |-> Good(i), content |-> ContentOf(stream[Good(i)])]],
  arrived <- ArrivedCount,
  handed <- [i \in DOMAIN delivered |->
               [number |-> Number(delivered[i]),
                content |-> delivered[i].content]]

\* However the stream is cut, recv_content is called once for each message, in
\* order, with exactly its content (chunks joined), and not before the message
\* has arrived: a cut makes the parser die or spin, never misread.
ImplementsFraming == F!Spec

\* What goes on is the header that was sent, with the proxy's lines and line
\* ends; but it begins with what the parser left of the message before: the CRLF
\* that ended a chunked one, the content of one whose length it did not know.
HeadersAsSent ==
  \A i \in DOMAIN delivered :
    LET n == Number(delivered[i])
        left == IF n > 1 THEN Leftover(stream[n - 1]) ELSE <<>>
    IN delivered[i].header = left \o Rebuilt(<<HeadLine(n)>>)

\* When the handler goes back to wait for an event, every complete message has
\* been handed over: none is left in raw_buffer until more data happens to come.
NothingLeftBehind == pc = "wait" => Len(delivered) = ArrivedCount

\* An exception that ends the worker is the doing of a read that ended between a
\* chunk's data and its CRLF, or of the first message not yet handed over: its
\* length no string can hold, or the line of one of its chunks stoul refuses.
KilledOnlyForCause ==
  pc = "killed" =>
    \/ "seam" \in cuts
    \/ \E n \in DOMAIN stream :
         IsDeadly(stream[n]) /\ Len(delivered) = Cardinality({k \in Goods : k < n})

\* If no read has ended inside the line of a chunk size or of a chunk's end,
\* parsing ends: the worker gets back to its other sessions.
ParsingEnds ==
  (pc = "parse" /\ "line" \notin cuts) ~> (pc \in {"wait", "killed"})

\* proxy_handler.cpp:387 says of a header that is not complete: "wait for more
\* data".  The same of every incomplete piece: parsing ends wherever the cut is.
IncompleteWaits == (pc = "parse") ~> (pc \in {"wait", "killed"})
=============================================================================
