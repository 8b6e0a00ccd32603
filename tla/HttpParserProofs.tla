-------------------------- MODULE HttpParserProofs --------------------------
(***************************************************************************)
(* Proofs about HttpParser: for every sequence of messages and every cut   *)
(* of the stream, which headers go on, that nothing complete is left       *)
(* behind, when an exception ends the worker, and that each message is     *)
(* handed over whole, once and in order.                                   *)
(***************************************************************************)
EXTENDS HttpParser, FoldLemmas

-----------------------------------------------------------------------------
(* Tokens.                                                                 *)

LEMMA TokensDiffer ==
  /\ CR \in Tokens /\ LF \in Tokens /\ Address \in Tokens
  /\ CR # LF
  /\ \A n \in Nat : /\ HeadLine(n) \in Tokens /\ SizeLine(n) \in Tokens
                    /\ HeadLine(n) \notin {CR, LF} /\ HeadLine(n)[1] = "head"
                    /\ SizeLine(n) # CR /\ SizeLine(n)[2] = n
  /\ \A n, m \in Nat : HeadLine(n) = HeadLine(m) => n = m
  /\ CR[1] # "head" /\ LF[1] # "head" /\ Address[1] # "head"
BY DEF CR, LF, Address, HeadLine, SizeLine, Tokens

\* What CatType and CatElements say of a concatenation.
Joins(d, A, s, t) ==
  /\ d \in Seq(A) /\ Len(d) = Len(s) + Len(t)
  /\ Len(s) \in Nat /\ Len(t) \in Nat
  /\ \A k \in 1 .. Len(s) : d[k] = s[k]
  /\ \A k \in 1 .. Len(t) : d[Len(s) + k] = t[k]

LEMMA CatJoins ==
  ASSUME NEW A, NEW s \in Seq(A), NEW t \in Seq(A)
  PROVE  Joins(Cat(s, t), A, s, t)
<1>1. /\ Len(s) \in Nat /\ Len(t) \in Nat
      /\ Len(Cat(s, t)) = Len(s) + Len(t)
      /\ \A i \in 1 .. Len(s) : Cat(s, t)[i] = s[i]
      /\ \A i \in 1 .. Len(t) : Cat(s, t)[Len(s) + i] = t[i]
  BY CatElements
<1>2. Cat(s, t) \in Seq(A)
  BY CatType
<1> QED BY <1>1, <1>2, Zenon DEF Joins

LEMMA LineEnd ==
  /\ CRLF \in Seq(Tokens) /\ Len(CRLF) = 2 /\ CRLF[1] = CR /\ CRLF[2] = LF
<1>1. CR \in Tokens /\ LF \in Tokens
  BY TokensDiffer
<1> QED BY <1>1 DEF CRLF

LEMMA DoubleLineEnd ==
  /\ CRLF \o CRLF \in Seq(Tokens) /\ Len(CRLF \o CRLF) = 4
  /\ (CRLF \o CRLF)[1] = CR /\ (CRLF \o CRLF)[2] = LF
  /\ (CRLF \o CRLF)[3] = CR /\ (CRLF \o CRLF)[4] = LF
<1> DEFINE c == CRLF
           d == Cat(c, c)
<1>1. c \in Seq(Tokens) /\ Len(c) = 2 /\ c[1] = CR /\ c[2] = LF
  BY LineEnd
<1>2. CRLF \o CRLF = d
  BY DEF Cat
<1> HIDE DEF c
<1>3. Joins(d, Tokens, c, c)
  BY <1>1, CatJoins
<1> HIDE DEF d
<1>4. d \in Seq(Tokens) /\ Len(d) = 4 /\ d[1] = CR /\ d[2] = LF
  BY <1>1, <1>3 DEF Joins
<1>5. d[2 + 1] = c[1] /\ d[2 + 2] = c[2]
  BY <1>1, <1>3 DEF Joins
<1> QED BY <1>1, <1>2, <1>4, <1>5

\* A token on a line of its own.
LEMMA LineIs ==
  ASSUME NEW x \in Tokens
  PROVE  /\ <<x>> \o CRLF \in Seq(Tokens) /\ Len(<<x>> \o CRLF) = 3
         /\ (<<x>> \o CRLF)[1] = x /\ (<<x>> \o CRLF)[2] = CR /\ (<<x>> \o CRLF)[3] = LF
<1> DEFINE c == CRLF
           d == Cat(One(x), c)
<1>1. c \in Seq(Tokens) /\ Len(c) = 2 /\ c[1] = CR /\ c[2] = LF
  BY LineEnd
<1>2. <<x>> \o CRLF = d
  BY DEF Cat, One
<1>3. One(x) \in Seq(Tokens) /\ Len(One(x)) = 1 /\ One(x)[1] = x
  BY OneType
<1> HIDE DEF c
<1>4. Joins(d, Tokens, One(x), c)
  BY <1>1, <1>3, CatJoins
<1> HIDE DEF d
<1>5. d \in Seq(Tokens) /\ Len(d) = 3 /\ d[1] = x
  BY <1>1, <1>3, <1>4 DEF Joins
<1>6. d[1 + 1] = c[1] /\ d[1 + 2] = c[2]
  BY <1>1, <1>3, <1>4 DEF Joins
<1>7. /\ d \in Seq(Tokens) /\ Len(d) = 3
      /\ d[1] = x /\ d[2] = CR /\ d[3] = LF
  BY <1>1, <1>5, <1>6
<1> QED BY <1>2, <1>7, Zenon

-----------------------------------------------------------------------------
(* Where the parts of a chunk are.                                         *)

IsChunk(e, c) ==
  /\ e \in Seq(Tokens) /\ Len(e) = Len(c) + 5
  /\ e[1] = SizeLine(Len(c)) /\ e[2] = CR /\ e[3] = LF
  /\ \A k \in 1 .. Len(c) : e[3 + k] = c[k]
  /\ e[Len(c) + 4] = CR /\ e[Len(c) + 5] = LF

LEMMA ChunkIs ==
  ASSUME NEW c \in Seq(Tokens)
  PROVE  IsChunk(Chunk(c), c) /\ Len(c) \in Nat
<1> DEFINE lead == <<SizeLine(Len(c))>> \o CRLF
           data == Cat(lead, c)
           all == Cat(data, CRLF)
<1>1. Len(c) \in Nat
  BY LenProperties
<1>2. SizeLine(Len(c)) \in Tokens
  BY <1>1, TokensDiffer
<1>3. lead \in Seq(Tokens) /\ Len(lead) = 3 /\ lead[1] = SizeLine(Len(c)) /\ lead[2] = CR /\ lead[3] = LF
  BY <1>2, LineIs
<1>4. Chunk(c) = all
  BY Zenon DEF Chunk, Cat
<1> HIDE DEF lead
<1>5. /\ data \in Seq(Tokens) /\ Len(data) = 3 + Len(c)
      /\ \A k \in 1 .. 3 : data[k] = lead[k]
      /\ \A k \in 1 .. Len(c) : data[3 + k] = c[k]
  <2>1. Joins(data, Tokens, lead, c)
    BY <1>3, CatJoins
  <2> QED BY <1>3, <2>1 DEF Joins
<1> HIDE DEF data
<1>6. /\ all \in Seq(Tokens) /\ Len(all) = Len(data) + 2
      /\ \A k \in 1 .. Len(data) : all[k] = data[k]
      /\ \A k \in 1 .. 2 : all[Len(data) + k] = CRLF[k]
  <2>1. Joins(all, Tokens, data, CRLF)
    BY <1>5, LineEnd, CatJoins
  <2> QED BY <2>1, LineEnd DEF Joins
<1> HIDE DEF all
<1>7. all[1] = SizeLine(Len(c)) /\ all[2] = CR /\ all[3] = LF
  BY <1>1, <1>3, <1>5, <1>6
<1>8. \A k \in 1 .. Len(c) : all[3 + k] = c[k]
  BY <1>1, <1>5, <1>6
<1>9. all[Len(c) + 4] = CR /\ all[Len(c) + 5] = LF
  <2>1. all[Len(data) + 1] = CRLF[1] /\ all[Len(data) + 2] = CRLF[2]
    BY <1>6
  <2>2. Len(data) + 1 = Len(c) + 4 /\ Len(data) + 2 = Len(c) + 5
    BY <1>1, <1>5
  <2> QED BY <2>1, <2>2, LineEnd
<1> QED BY <1>1, <1>4, <1>5, <1>6, <1>7, <1>8, <1>9 DEF IsChunk

-----------------------------------------------------------------------------
(* Where the chunks are in a chunked body.                                 *)

\* The last chunk is an empty one.
AllParts(m) == Append(m.parts, <<>>)
Chunks(m) == [i \in 1 .. Len(m.parts) + 1 |-> Chunk(AllParts(m)[i])]
ChunkAt(m, c) == FlatLen(Chunks(m), c - 1)

LEMMA PartsAre ==
  ASSUME NEW m \in SomeMessages
  PROVE  /\ m.kind \in MessageKinds /\ m.parts \in Seq(Seq(Tokens)) /\ Len(m.parts) \in Nat
         /\ \A i \in 1 .. Len(m.parts) :
              m.parts[i] \in Seq(Tokens) /\ Len(m.parts[i]) \in Nat \ {0}
         /\ AllParts(m) \in Seq(Seq(Tokens)) /\ Len(AllParts(m)) = Len(m.parts) + 1
         /\ \A i \in 1 .. Len(m.parts) : AllParts(m)[i] = m.parts[i]
         /\ AllParts(m)[Len(m.parts) + 1] = <<>>
<1>1. m.kind \in MessageKinds /\ m.parts \in Seq(Seq(Tokens) \ {<<>>})
  BY DEF SomeMessages
<1>2. Len(m.parts) \in Nat /\ \A i \in 1 .. Len(m.parts) : m.parts[i] \in Seq(Tokens) \ {<<>>}
  BY <1>1, LenProperties, ElementOfSeq
<1>3. \A i \in 1 .. Len(m.parts) : m.parts[i] \in Seq(Tokens) /\ Len(m.parts[i]) \in Nat \ {0}
  BY <1>2, EmptySeq, LenProperties
<1>4. m.parts \in Seq(Seq(Tokens))
  <2>1. Seq(Tokens) \ {<<>>} \subseteq Seq(Tokens)
    OBVIOUS
  <2>2. m.parts \in [1 .. Len(m.parts) -> Seq(Tokens)]
    BY <1>1, <1>3, LenProperties
  <2> QED BY <1>2, <2>2
<1>5. <<>> \in Seq(Tokens)
  BY EmptySeq
<1> DEFINE all == AllParts(m)
<1>6. /\ all \in Seq(Seq(Tokens)) /\ Len(all) = Len(m.parts) + 1
      /\ \A i \in 1 .. Len(m.parts) : all[i] = m.parts[i]
      /\ all[Len(m.parts) + 1] = <<>>
  BY <1>4, <1>5, AppendProperties DEF AllParts
<1> QED BY <1>1, <1>2, <1>3, <1>4, <1>6

\* A function on 1 .. n is a sequence.
LEMMA MakesSeq ==
  ASSUME NEW A, NEW n \in Nat, NEW f, f = [i \in 1 .. n |-> f[i]], \A i \in 1 .. n : f[i] \in A
  PROVE  f \in Seq(A) /\ Len(f) = n
<1>1. f \in [1 .. n -> A]
  BY Zenon
<1> QED BY <1>1

LEMMA ChunksAre ==
  ASSUME NEW m \in SomeMessages
  PROVE  /\ Chunks(m) \in Seq(Seq(Tokens)) /\ Len(Chunks(m)) = Len(m.parts) + 1
         /\ \A i \in 1 .. Len(m.parts) + 1 :
              /\ AllParts(m)[i] \in Seq(Tokens)
              /\ IsChunk(Chunks(m)[i], AllParts(m)[i])
<1>1. Len(m.parts) + 1 \in Nat /\ Len(AllParts(m)) = Len(m.parts) + 1
  BY PartsAre
<1>2. \A i \in 1 .. Len(m.parts) + 1 : AllParts(m)[i] \in Seq(Tokens)
  <2>1. AllParts(m) \in Seq(Seq(Tokens))
    BY PartsAre
  <2> QED BY <1>1, <2>1, ElementOfSeq
<1>3. \A i \in 1 .. Len(m.parts) + 1 : Chunks(m)[i] = Chunk(AllParts(m)[i])
  BY DEF Chunks
<1>4. \A i \in 1 .. Len(m.parts) + 1 : IsChunk(Chunks(m)[i], AllParts(m)[i])
  BY <1>2, <1>3, ChunkIs
<1>5. \A i \in 1 .. Len(m.parts) + 1 : Chunks(m)[i] \in Seq(Tokens)
  BY <1>4 DEF IsChunk
<1>6. Chunks(m) = [i \in 1 .. Len(m.parts) + 1 |-> Chunks(m)[i]]
  BY DEF Chunks
<1> QED BY ZenonT(40), <1>1, <1>2, <1>4, <1>5, <1>6, MakesSeq

LEMMA ChunkedBody ==
  ASSUME NEW m \in SomeMessages, m.kind = "chunked"
  PROVE  Body(m) = FlattenSeq(Chunks(m)) /\ Body(m) \in Seq(Tokens)
<1> DEFINE early == [i \in DOMAIN m.parts |-> Chunk(m.parts[i])]
           n == Len(m.parts)
<1>1. n \in Nat /\ DOMAIN m.parts = 1 .. n
  BY PartsAre, LenProperties
<1>2. Body(m) = FlattenSeq(early) \o LastChunk
  BY DEF Body
<1>3. \A i \in 1 .. n : early[i] = Chunk(m.parts[i]) /\ early[i] \in Seq(Tokens)
  BY <1>1, PartsAre, ChunkIs DEF IsChunk
<1>4. early \in Seq(Seq(Tokens)) /\ Len(early) = n
  <2>1. early = [i \in 1 .. n |-> early[i]]
    BY <1>1
  <2> HIDE DEF early
  <2> QED BY <1>1, <1>3, <2>1, MakesSeq
<1>5. LastChunk = Chunk(<<>>)
  <2>1. Len(<<>>) = 0
    OBVIOUS
  <2>2. <<SizeLine(0)>> \o CRLF \o <<>> = <<SizeLine(0)>> \o CRLF
    BY DEF CRLF
  <2> QED BY <2>1, <2>2, Zenon DEF Chunk, LastChunk
<1>6. LastChunk \in Seq(Tokens)
  BY <1>5, EmptySeq, ChunkIs DEF IsChunk
<1> HIDE DEF early
<1>7. Append(early, LastChunk) = Chunks(m)
  <2> DEFINE a == Append(early, LastChunk)
             b == Chunks(m)
  <2>1. /\ a \in Seq(Seq(Tokens)) /\ Len(a) = n + 1
        /\ \A i \in 1 .. n : a[i] = early[i]
        /\ a[n + 1] = LastChunk
    BY <1>4, <1>6, AppendProperties
  <2>2. b \in Seq(Seq(Tokens)) /\ Len(b) = n + 1
    BY ChunksAre
  <2>3. \A i \in 1 .. n : b[i] = Chunk(m.parts[i])
    BY <1>1, PartsAre DEF Chunks
  <2>4. b[n + 1] = Chunk(<<>>)
    BY <1>1, PartsAre DEF Chunks
  <2> HIDE DEF a, b
  <2>5. \A i \in 1 .. n + 1 : a[i] = b[i]
    <3>1. \A i \in 1 .. n : a[i] = b[i]
      BY <1>3, <2>1, <2>3
    <3>2. a[n + 1] = b[n + 1]
      BY <1>5, <2>1, <2>4
    <3> QED BY <1>1, <3>1, <3>2
  <2> QED BY <2>1, <2>2, <2>5, SeqEqual DEF a, b
<1>8. FlattenSeq(Append(early, LastChunk)) = FlattenSeq(early) \o LastChunk
  BY <1>4, <1>6, FlattenOfAppend
<1>9. FlattenSeq(Chunks(m)) \in Seq(Tokens)
  BY ChunksAre, FlattenType
<1> QED BY <1>2, <1>7, <1>8, <1>9, Zenon

LEMMA BodyType ==
  ASSUME NEW m \in SomeMessages
  PROVE  Body(m) \in Seq(Tokens) /\ Len(Body(m)) \in Nat
<1>1. CASE m.kind \in {"length", "max", "unread"}
  BY <1>1, PartsAre, FlattenType, LenProperties DEF Body
<1>2. CASE m.kind = "chunked"
  BY <1>2, ChunkedBody, LenProperties
<1>3. CASE m.kind \notin {"length", "max", "unread", "chunked"}
  <2>1. Body(m) = <<>>
    BY <1>3 DEF Body
  <2> QED BY <2>1, EmptySeq
<1> QED BY <1>1, <1>2, <1>3

\* What is left of a message is the end of it.
LEMMA LeftoverIs ==
  ASSUME NEW m \in SomeMessages
  PROVE  /\ Leftover(m) \in Seq(Tokens) /\ Len(Leftover(m)) \in Nat
         /\ m.kind = "chunked" => Leftover(m) = CRLF /\ Len(Leftover(m)) = 2
         /\ m.kind \in {"max", "unread"} => Leftover(m) = Body(m)
         /\ m.kind \in {"length", "huge"} => Len(Leftover(m)) = 0
<1>0. m.kind \in MessageKinds /\ Body(m) \in Seq(Tokens) /\ Len(Body(m)) \in Nat
  BY PartsAre, BodyType
<1>1. CASE m.kind = "chunked"
  BY <1>1, LineEnd DEF Leftover
<1>2. CASE m.kind \in {"max", "unread"}
  BY <1>0, <1>2 DEF Leftover, Body
<1>3. CASE m.kind \in {"length", "huge"}
  <2>1. Leftover(m) = <<>>
    BY <1>3 DEF Leftover
  <2> QED BY <1>3, <2>1, EmptySeq
<1> QED BY <1>0, <1>1, <1>2, <1>3 DEF MessageKinds

-----------------------------------------------------------------------------
(* Where the messages are in the stream.                                   *)

\* The header of the n-th message, and its body.
LEMMA EncodedIs ==
  ASSUME NEW s \in Seq(SomeMessages), NEW n \in 1 .. Len(s)
  PROVE  /\ s[n] \in SomeMessages
         /\ Encoded(s, n) \in Seq(Tokens)
         /\ Len(Encoded(s, n)) = 5 + Len(Body(s[n])) /\ Len(Body(s[n])) \in Nat
         /\ Encoded(s, n)[1] = HeadLine(n)
         /\ Encoded(s, n)[2] = CR /\ Encoded(s, n)[3] = LF
         /\ Encoded(s, n)[4] = CR /\ Encoded(s, n)[5] = LF
         /\ \A k \in 1 .. Len(Body(s[n])) : Encoded(s, n)[5 + k] = Body(s[n])[k]
<1> DEFINE line == <<HeadLine(n)>> \o CRLF
           head == Cat(line, CRLF)
           body == Body(s[n])
           all == Cat(head, body)
<1>1. s[n] \in SomeMessages /\ n \in Nat
  BY ElementOfSeq, LenProperties
<1>2. body \in Seq(Tokens) /\ Len(body) \in Nat
  BY <1>1, BodyType
<1>3. /\ line \in Seq(Tokens) /\ Len(line) = 3
      /\ line[1] = HeadLine(n) /\ line[2] = CR /\ line[3] = LF
  BY <1>1, TokensDiffer, LineIs
<1>4. Encoded(s, n) = all
  BY Zenon DEF Encoded, Cat
<1> HIDE DEF line, body
<1>5. Joins(head, Tokens, line, CRLF)
  BY <1>3, LineEnd, CatJoins
<1>6. /\ head \in Seq(Tokens) /\ Len(head) = 5
      /\ head[1] = HeadLine(n) /\ head[2] = CR /\ head[3] = LF
      /\ head[4] = CR /\ head[5] = LF
  <2> HIDE DEF head
  <2>1. head \in Seq(Tokens) /\ Len(head) = 5
    BY <1>3, <1>5, LineEnd DEF Joins
  <2>2. head[1] = line[1] /\ head[2] = line[2] /\ head[3] = line[3]
    BY <1>3, <1>5 DEF Joins
  <2>3. head[3 + 1] = CRLF[1] /\ head[3 + 2] = CRLF[2]
    BY <1>3, <1>5, LineEnd DEF Joins
  <2> QED BY <1>3, <2>1, <2>2, <2>3, LineEnd
<1> HIDE DEF head
<1>7. Joins(all, Tokens, head, body)
  BY <1>2, <1>6, CatJoins
<1> HIDE DEF all
<1>8. /\ all \in Seq(Tokens) /\ Len(all) = 5 + Len(body)
      /\ \A k \in 1 .. 5 : all[k] = head[k]
      /\ \A k \in 1 .. Len(body) : all[5 + k] = body[k]
  BY <1>6, <1>7 DEF Joins
<1>9. all[1] = HeadLine(n) /\ all[2] = CR /\ all[3] = LF /\ all[4] = CR /\ all[5] = LF
  BY <1>6, <1>8
<1>10. all \in Seq(Tokens) /\ Len(all) = 5 + Len(body)
       /\ \A k \in 1 .. Len(body) : all[5 + k] = body[k]
  BY <1>8
<1> HIDE <1>8
<1> QED BY <1>1, <1>2, <1>4, <1>9, <1>10, Zenon DEF body

Encodeds(s) == [n \in 1 .. Len(s) |-> Encoded(s, n)]

\* The tokens before the n-th message.
Place(s, n) == FlatLen(Encodeds(s), n - 1)

LEMMA EncodedsAre ==
  ASSUME NEW s \in Seq(SomeMessages)
  PROVE  /\ Len(s) \in Nat
         /\ Encodeds(s) \in Seq(Seq(Tokens)) /\ Len(Encodeds(s)) = Len(s)
         /\ Wire(s) = FlattenSeq(Encodeds(s))
         /\ Wire(s) \in Seq(Tokens) /\ Len(Wire(s)) \in Nat
         /\ \A n \in 1 .. Len(s) : Encodeds(s)[n] = Encoded(s, n)
<1>1. Len(s) \in Nat /\ DOMAIN s = 1 .. Len(s)
  BY LenProperties
<1>2. \A n \in 1 .. Len(s) : Encodeds(s)[n] = Encoded(s, n) /\ Encodeds(s)[n] \in Seq(Tokens)
  BY EncodedIs DEF Encodeds
<1>3. Encodeds(s) = [n \in 1 .. Len(s) |-> Encodeds(s)[n]]
  BY DEF Encodeds
<1>4. Encodeds(s) \in Seq(Seq(Tokens)) /\ Len(Encodeds(s)) = Len(s)
  BY <1>1, <1>2, <1>3, MakesSeq
<1>5. Wire(s) = FlattenSeq(Encodeds(s))
  BY <1>1 DEF Wire, Encodeds
<1>6. Wire(s) \in Seq(Tokens)
  BY <1>4, <1>5, FlattenType
<1> QED BY <1>1, <1>2, <1>4, <1>5, <1>6, LenProperties

\* A message starts where the one before ends; the tokens of each.
LEMMA PlaceIs ==
  ASSUME NEW s \in Seq(SomeMessages), NEW n \in 1 .. Len(s)
  PROVE  /\ Place(s, n) \in Nat /\ Place(s, n + 1) \in Nat
         /\ Place(s, n + 1) = Place(s, n) + 5 + Len(Body(s[n]))
         /\ Place(s, n + 1) <= Len(Wire(s))
         /\ \A k \in 1 .. 5 + Len(Body(s[n])) : Wire(s)[Place(s, n) + k] = Encoded(s, n)[k]
<1> DEFINE e == Encodeds(s)
           w == Wire(s)
           l == 5 + Len(Body(s[n]))
<1>1. e \in Seq(Seq(Tokens)) /\ n \in 1 .. Len(e) /\ e[n] = Encoded(s, n) /\ n \in Nat
  BY EncodedsAre
<1>2. w = FlattenSeq(e)
  BY EncodedsAre
<1>3. Len(e[n]) = l /\ l \in Nat
  BY <1>1, EncodedIs
<1> HIDE DEF e, l, w
<1>4. /\ FlatLen(e, n - 1) \in Nat
      /\ FlatLen(e, n) = FlatLen(e, n - 1) + l
      /\ FlatLen(e, n) <= Len(w)
      /\ \A k \in 1 .. l : w[FlatLen(e, n - 1) + k] = e[n][k]
  BY <1>1, <1>2, <1>3, FlattenAt
<1>5. Place(s, n) = FlatLen(e, n - 1) /\ Place(s, n + 1) = FlatLen(e, n)
  BY <1>1 DEF Place, e
<1>6. Place(s, n + 1) = Place(s, n) + 5 + Len(Body(s[n]))
  BY <1>3, <1>4, <1>5, EncodedIs DEF l
<1> QED BY SMTT(30), <1>1, <1>3, <1>4, <1>5, <1>6 DEF l, w

LEMMA PlaceEnds ==
  ASSUME NEW s \in Seq(SomeMessages)
  PROVE  Place(s, 1) = 0 /\ Place(s, Len(s) + 1) = Len(Wire(s)) /\ Len(s) \in Nat
<1>1. Encodeds(s) \in Seq(Seq(Tokens)) /\ Len(Encodeds(s)) = Len(s) /\ Len(s) \in Nat
      /\ Wire(s) = FlattenSeq(Encodeds(s))
  BY EncodedsAre
<1>2. 1 - 1 = 0 /\ Len(s) + 1 - 1 = Len(s)
  BY <1>1
<1> QED BY <1>1, <1>2, FlatLenEnds DEF Place

\* The first n messages on their own take as much.
LEMMA WireOfPrefix ==
  ASSUME NEW s \in Seq(SomeMessages), NEW n \in 1 .. Len(s)
  PROVE  Len(Wire(SubSeq(s, 1, n))) = Place(s, n + 1)
<1> DEFINE t == SubSeq(s, 1, n)
<1>1. Len(s) \in Nat /\ n \in 0 .. Len(s) /\ n \in Nat
  BY LenProperties
<1>2. t \in Seq(SomeMessages) /\ Len(t) = n
  BY <1>1, SplitAt
<1>3. \A k \in 1 .. n : t[k] = s[k]
  <2>1. \A k \in 1 .. n : s[k] \in SomeMessages
    BY <1>1, ElementOfSeq
  <2> QED BY <1>1, <2>1, SubSeqProperties
<1> HIDE DEF t
<1>4. \A k \in 1 .. n : Encoded(t, k) = Encoded(s, k)
  BY <1>3 DEF Encoded
<1>5. Encodeds(t) = SubSeq(Encodeds(s), 1, n)
  <2> DEFINE a == Encodeds(t)
             e == Encodeds(s)
             b == SubSeq(e, 1, n)
  <2>1. a \in Seq(Seq(Tokens)) /\ Len(a) = n /\ \A k \in 1 .. n : a[k] = Encoded(s, k)
    BY <1>2, <1>4, EncodedsAre
  <2>2. e \in Seq(Seq(Tokens)) /\ Len(e) = Len(s) /\ \A k \in 1 .. Len(s) : e[k] = Encoded(s, k)
    BY EncodedsAre
  <2> HIDE DEF e
  <2>3. b \in Seq(Seq(Tokens)) /\ Len(b) = n
    BY <1>1, <2>2, SplitAt
  <2>4. \A k \in 1 .. n : b[k] = e[k]
    <3>1. \A k \in 1 .. n : e[k] \in Seq(Tokens)
      BY <1>1, <2>2, ElementOfSeq
    <3>2. \A k \in 1 .. n - 1 + 1 : b[k] = e[1 + k - 1]
      BY <1>1, <3>1, SubSeqProperties
    <3> QED BY <1>1, <3>2
  <2> HIDE DEF a, b
  <2>5. \A k \in 1 .. n : a[k] = b[k]
    <3>1. ASSUME NEW k \in 1 .. n PROVE a[k] = b[k]
      <4>1. k \in 1 .. Len(s)
        BY <1>1
      <4>2. a[k] = Encoded(s, k) /\ e[k] = Encoded(s, k) /\ b[k] = e[k]
        BY <2>1, <2>2, <2>4, <4>1
      <4> QED BY <4>2
    <3> QED BY <3>1
  <2> QED BY <2>1, <2>3, <2>5, SeqEqual DEF a, b, e
<1>6. Len(Wire(t)) = Len(FlattenSeq(Encodeds(t)))
  BY <1>2, EncodedsAre
<1>7. n + 1 - 1 = n
  BY <1>1
<1>8. Place(s, n + 1) = Len(FlattenSeq(SubSeq(Encodeds(s), 1, n)))
  BY <1>7 DEF Place, FlatLen
<1> QED BY <1>5, <1>6, <1>8 DEF t

\* Where the n-th message's chunk c begins.
Base(s, n, c) == Place(s, n) + 5 + ChunkAt(s[n], c)

\* The tokens of a chunk, from token base on.
ChunkIn(w, base, part) ==
  /\ w[base + 1] = SizeLine(Len(part))
  /\ w[base + 2] = CR
  /\ w[base + 3] = LF
  /\ \A k \in 1 .. Len(part) : w[base + 3 + k] = part[k]
  /\ w[base + 4 + Len(part)] = CR
  /\ w[base + 5 + Len(part)] = LF

LEMMA ChunkPlace ==
  ASSUME NEW m \in SomeMessages, m.kind = "chunked", NEW c \in 1 .. Len(m.parts) + 1
  PROVE  /\ ChunkAt(m, c) \in Nat
         /\ ChunkAt(m, c + 1) = ChunkAt(m, c) + 5 + Len(AllParts(m)[c])
         /\ ChunkAt(m, c + 1) <= Len(Body(m))
         /\ ChunkIn(Body(m), ChunkAt(m, c), AllParts(m)[c])
         /\ ChunkAt(m, 1) = 0
         /\ ChunkAt(m, Len(m.parts) + 2) = Len(Body(m))
         /\ Len(AllParts(m)[c]) \in Nat
<1> DEFINE e == Chunks(m)
           part == AllParts(m)[c]
           body == Body(m)
           base == FlatLen(e, c - 1)
<1>1. /\ e \in Seq(Seq(Tokens)) /\ Len(e) = Len(m.parts) + 1 /\ c \in 1 .. Len(e) /\ c \in Nat
      /\ part \in Seq(Tokens) /\ IsChunk(e[c], part) /\ Len(m.parts) \in Nat
  BY ChunksAre, PartsAre
<1>2. body = FlattenSeq(e)
  BY ChunkedBody
<1>3. Len(part) \in Nat
  BY <1>1, LenProperties
<1>4. Len(e[c]) = Len(part) + 5
  BY <1>1 DEF IsChunk
<1>5. ChunkAt(m, c) = base /\ ChunkAt(m, c + 1) = FlatLen(e, c)
      /\ ChunkAt(m, 1) = FlatLen(e, 0) /\ ChunkAt(m, Len(m.parts) + 2) = FlatLen(e, Len(e))
  <2>1. c + 1 - 1 = c /\ 1 - 1 = 0 /\ Len(m.parts) + 2 - 1 = Len(e)
    BY <1>1
  <2> QED BY <2>1 DEF ChunkAt, e
<1> HIDE DEF e, part, body
<1>6. /\ base \in Nat
      /\ FlatLen(e, c) = base + Len(e[c])
      /\ FlatLen(e, c) <= Len(body)
      /\ \A k \in 1 .. Len(e[c]) : body[base + k] = e[c][k]
  BY <1>1, <1>2, FlattenAt
<1>7. FlatLen(e, 0) = 0 /\ FlatLen(e, Len(e)) = Len(body)
  BY <1>1, <1>2, FlatLenEnds
<1> DEFINE l == Len(part)
           x == e[c]
<1>8. ChunkIn(body, base, part)
  <2>1. /\ Len(x) = l + 5 /\ x[1] = SizeLine(l) /\ x[2] = CR /\ x[3] = LF
        /\ \A k \in 1 .. l : x[3 + k] = part[k]
        /\ x[l + 4] = CR /\ x[l + 5] = LF
    BY <1>1 DEF IsChunk
  <2>2. \A k \in 1 .. Len(x) : body[base + k] = x[k]
    BY <1>6
  <2>3. l \in Nat /\ base \in Nat
    BY <1>3, <1>6
  <2> HIDE DEF x, l, base
  <2>4. body[base + 1] = SizeLine(l) /\ body[base + 2] = CR /\ body[base + 3] = LF
    BY <2>1, <2>2, <2>3
  <2>5. ASSUME NEW k \in 1 .. l PROVE body[base + 3 + k] = part[k]
    <3>1. 3 + k \in 1 .. Len(x) /\ base + (3 + k) = base + 3 + k
      BY <2>1, <2>3
    <3> QED BY <2>1, <2>2, <3>1
  <2>6. body[base + 4 + l] = CR /\ body[base + 5 + l] = LF
    <3>1. l + 4 \in 1 .. Len(x) /\ base + (l + 4) = base + 4 + l
      BY <2>1, <2>3
    <3>2. l + 5 \in 1 .. Len(x) /\ base + (l + 5) = base + 5 + l
      BY <2>1, <2>3
    <3> QED BY <2>1, <2>2, <3>1, <3>2
  <2> QED BY <2>4, <2>5, <2>6 DEF ChunkIn, l
<1>9. base \in Nat /\ FlatLen(e, c) = base + 5 + l /\ FlatLen(e, c) <= Len(body) /\ l \in Nat
  BY <1>3, <1>4, <1>6
<1> QED BY <1>5, <1>7, <1>8, <1>9, Zenon DEF part, body

\* The chunks in the stream.
LEMMA BaseIs ==
  ASSUME NEW s \in Seq(SomeMessages), NEW n \in 1 .. Len(s), s[n].kind = "chunked",
         NEW c \in 1 .. Len(s[n].parts) + 1
  PROVE  /\ Base(s, n, c) \in Nat /\ Len(AllParts(s[n])[c]) \in Nat
         /\ Base(s, n, c + 1) = Base(s, n, c) + 5 + Len(AllParts(s[n])[c])
         /\ Base(s, n, c + 1) <= Place(s, n + 1)
         /\ ChunkIn(Wire(s), Base(s, n, c), AllParts(s[n])[c])
         /\ Base(s, n, 1) = Place(s, n) + 5
         /\ Base(s, n, Len(s[n].parts) + 2) = Place(s, n + 1)
<1> DEFINE m == s[n]
           w == Wire(s)
           p == Place(s, n)
           at == ChunkAt(m, c)
           part == AllParts(m)[c]
           l == Len(part)
           body == Body(m)
<1>1. m \in SomeMessages /\ Len(body) \in Nat
  BY EncodedIs
<1>2. /\ at \in Nat /\ l \in Nat /\ ChunkAt(m, c + 1) = at + 5 + l
      /\ ChunkAt(m, c + 1) <= Len(body) /\ ChunkIn(body, at, part)
      /\ ChunkAt(m, 1) = 0 /\ ChunkAt(m, Len(m.parts) + 2) = Len(body)
  BY <1>1, ChunkPlace
<1>3. /\ p \in Nat /\ Place(s, n + 1) = p + 5 + Len(body)
      /\ \A k \in 1 .. 5 + Len(body) : w[p + k] = Encoded(s, n)[k]
  BY PlaceIs
<1>4. \A k \in 1 .. Len(body) : Encoded(s, n)[5 + k] = body[k]
  BY EncodedIs
<1> DEFINE base == p + 5 + at
<1>5. Base(s, n, c) = base /\ Base(s, n, 1) = p + 5 + 0
      /\ Base(s, n, c + 1) = p + 5 + (at + 5 + l)
      /\ Base(s, n, Len(m.parts) + 2) = p + 5 + Len(body)
  BY <1>2 DEF Base
<1> HIDE DEF m, w, p, at, part, body
<1>6. \A k \in 1 .. Len(body) : w[p + 5 + k] = body[k]
  <2> TAKE k \in 1 .. Len(body)
  <2>1. 5 + k \in 1 .. 5 + Len(body) /\ p + (5 + k) = p + 5 + k
    BY <1>1, <1>3
  <2> QED BY <1>3, <1>4, <2>1
<1>7. ASSUME NEW k \in 1 .. 5 + l PROVE w[base + k] = body[at + k]
  <2>1. at + k \in 1 .. Len(body) /\ p + 5 + (at + k) = base + k
    BY <1>1, <1>2, <1>3
  <2> QED BY <1>6, <2>1
<1>8. base \in Nat
  BY SMTT(30), <1>2, <1>3
<1>9. ChunkIn(w, base, part)
  <2> HIDE DEF base, l
  <2>1. /\ w[base + 1] = body[at + 1] /\ w[base + 2] = body[at + 2] /\ w[base + 3] = body[at + 3]
        /\ w[base + (4 + l)] = body[at + (4 + l)] /\ w[base + (5 + l)] = body[at + (5 + l)]
        /\ \A k \in 1 .. l : w[base + (3 + k)] = body[at + (3 + k)]
    BY SMTT(30), <1>2, <1>7
  <2>2. /\ base + (4 + l) = base + 4 + l /\ at + (4 + l) = at + 4 + l
        /\ base + (5 + l) = base + 5 + l /\ at + (5 + l) = at + 5 + l
        /\ \A k \in 1 .. l : base + (3 + k) = base + 3 + k /\ at + (3 + k) = at + 3 + k
    <3>1. base \in Nat /\ at \in Nat /\ l \in Nat
      BY <1>2, <1>8
    <3> QED BY ONLY <3>1
  <2>3. ChunkIn(body, at, part)
    BY <1>2
  <2>4. \A k \in 1 .. l : w[base + 3 + k] = part[k]
    BY <2>1, <2>2, <2>3 DEF ChunkIn, l
  <2>5. w[base + 4 + l] = CR /\ w[base + 5 + l] = LF
    BY <2>1, <2>2, <2>3 DEF ChunkIn, l
  <2>6. w[base + 1] = SizeLine(l) /\ w[base + 2] = CR /\ w[base + 3] = LF
    BY <2>1, <2>3 DEF ChunkIn, l
  <2> QED BY <2>4, <2>5, <2>6 DEF ChunkIn, l
<1>10. Base(s, n, c + 1) = base + 5 + l /\ Base(s, n, c + 1) <= Place(s, n + 1)
       /\ Base(s, n, 1) = p + 5 /\ Base(s, n, Len(m.parts) + 2) = Place(s, n + 1)
  BY <1>1, <1>2, <1>3, <1>5
<1> QED BY <1>2, <1>5, <1>8, <1>9, <1>10, Zenon DEF m, w, p, at, part, body

-----------------------------------------------------------------------------
(* What Drop, IsPrefix and Find do.                                        *)

\* The elements from..to of a sequence.
LEMMA PieceIs ==
  ASSUME NEW A, NEW s \in Seq(A), NEW from \in 0 .. Len(s), NEW to \in from .. Len(s)
  PROVE  /\ SubSeq(s, from + 1, to) \in Seq(A)
         /\ Len(SubSeq(s, from + 1, to)) = to - from
         /\ \A i \in 1 .. to - from : SubSeq(s, from + 1, to)[i] = s[from + i]
<1>1. Len(s) \in Nat /\ from \in Nat /\ to \in Nat /\ from <= to /\ to <= Len(s)
  BY LenProperties
<1>2. \A i \in from + 1 .. to : s[i] \in A
  <2>1. \A i \in from + 1 .. to : i \in 1 .. Len(s)
    BY <1>1
  <2> QED BY <2>1, ElementOfSeq
<1> DEFINE t == SubSeq(s, from + 1, to)
<1>3. /\ t \in Seq(A)
      /\ Len(t) = IF from + 1 <= to THEN to - (from + 1) + 1 ELSE 0
      /\ \A i \in 1 .. to - (from + 1) + 1 : t[i] = s[(from + 1) + i - 1]
  BY <1>1, <1>2, SubSeqProperties
<1> HIDE DEF t
<1>4. Len(t) = to - from
  BY <1>1, <1>3
<1>5. ASSUME NEW i \in 1 .. to - from PROVE t[i] = s[from + i]
  <2>1. i \in 1 .. to - (from + 1) + 1 /\ (from + 1) + i - 1 = from + i
    BY <1>1
  <2> QED BY <1>3, <2>1
<1> QED BY <1>3, <1>4, <1>5 DEF t

LEMMA DropIs ==
  ASSUME NEW A, NEW s \in Seq(A), NEW k \in 0 .. Len(s)
  PROVE  /\ Drop(s, k) \in Seq(A) /\ Len(Drop(s, k)) = Len(s) - k
         /\ \A i \in 1 .. Len(s) - k : Drop(s, k)[i] = s[k + i]
<1>1. Len(s) \in k .. Len(s)
  BY LenProperties
<1> QED BY <1>1, PieceIs DEF Drop

\* The first k elements.
LEMMA TakeIs ==
  ASSUME NEW A, NEW s \in Seq(A), NEW k \in 0 .. Len(s)
  PROVE  /\ SubSeq(s, 1, k) \in Seq(A) /\ Len(SubSeq(s, 1, k)) = k
         /\ \A i \in 1 .. k : SubSeq(s, 1, k)[i] = s[i]
<1>1. 0 \in 0 .. Len(s) /\ k \in 0 .. Len(s) /\ k - 0 = k /\ 0 + 1 = 1 /\ \A i \in 1 .. k : 0 + i = i
  BY LenProperties
<1>2. /\ SubSeq(s, 0 + 1, k) \in Seq(A)
      /\ Len(SubSeq(s, 0 + 1, k)) = k - 0
      /\ \A i \in 1 .. k - 0 : SubSeq(s, 0 + 1, k)[i] = s[0 + i]
  BY ONLY <1>1, s \in Seq(A), PieceIs
<1> QED BY <1>1, <1>2

LEMMA PrefixIs ==
  ASSUME NEW A, NEW p \in Seq(A), NEW s \in Seq(A)
  PROVE  IsPrefix(p, s) <=> Len(p) <= Len(s) /\ \A i \in 1 .. Len(p) : p[i] = s[i]
<1>1. IsPrefix(p, s) <=> Len(p) <= Len(s) /\ SubSeq(p, 1, Len(p)) = SubSeq(s, 1, Len(p))
  BY DEF IsPrefix
<1>2. Len(p) \in Nat /\ Len(s) \in Nat /\ SubSeq(p, 1, Len(p)) = p
  BY LenProperties, SubSeqFull
<1>3. ASSUME Len(p) <= Len(s)
      PROVE  p = SubSeq(s, 1, Len(p)) <=> \A i \in 1 .. Len(p) : p[i] = s[i]
  <2> DEFINE t == SubSeq(s, 1, Len(p))
  <2>1. Len(p) \in 0 .. Len(s)
    BY <1>2, <1>3
  <2>2. t \in Seq(A) /\ Len(t) = Len(p) /\ \A i \in 1 .. Len(p) : t[i] = s[i]
    BY <2>1, TakeIs
  <2> HIDE DEF t
  <2>3. ASSUME \A i \in 1 .. Len(p) : p[i] = s[i] PROVE p = t
    BY <2>2, <2>3, SeqEqual
  <2>4. p = t <=> \A i \in 1 .. Len(p) : p[i] = s[i]
    BY <2>2, <2>3
  <2> QED BY <2>4 DEF t
<1> QED BY <1>1, <1>2, <1>3, Zenon

Occurs(p, s, i) ==
  /\ i - 1 + Len(p) <= Len(s)
  /\ \A k \in 1 .. Len(p) : s[i - 1 + k] = p[k]

LEMMA OccursIs ==
  ASSUME NEW A, NEW p \in Seq(A), NEW s \in Seq(A), NEW i \in 1 .. Len(s)
  PROVE  IsPrefix(p, Drop(s, i - 1)) <=> Occurs(p, s, i)
<1> DEFINE t == Drop(s, i - 1)
<1>1. Len(p) \in Nat /\ Len(s) \in Nat /\ i - 1 \in 0 .. Len(s) /\ i \in Nat
  BY LenProperties
<1>2. /\ t \in Seq(A) /\ Len(t) = Len(s) - (i - 1)
      /\ \A k \in 1 .. Len(s) - (i - 1) : t[k] = s[i - 1 + k]
  BY <1>1, DropIs
<1> HIDE DEF t
<1>3. IsPrefix(p, t) <=> Len(p) <= Len(t) /\ \A k \in 1 .. Len(p) : p[k] = t[k]
  BY <1>2, PrefixIs
<1>4. Len(p) <= Len(t) <=> i - 1 + Len(p) <= Len(s)
  BY <1>1, <1>2
<1>5. ASSUME Len(p) <= Len(t)
      PROVE  \A k \in 1 .. Len(p) : t[k] = s[i - 1 + k]
  <2>1. \A k \in 1 .. Len(p) : k \in 1 .. Len(s) - (i - 1)
    BY <1>1, <1>2, <1>5
  <2> QED BY <1>2, <2>1
<1>6. IsPrefix(p, t) <=> Occurs(p, s, i)
  BY <1>3, <1>4, <1>5 DEF Occurs
<1> QED BY <1>6 DEF t

LEMMA FindIs ==
  ASSUME NEW A, NEW p \in Seq(A), NEW s \in Seq(A)
  PROVE  /\ (\A i \in 1 .. Len(s) : ~ Occurs(p, s, i)) => Find(p, s) = 0
         /\ \A e \in 1 .. Len(s) :
              Occurs(p, s, e) /\ (\A i \in 1 .. Len(s) : Occurs(p, s, i) => e <= i)
                => Find(p, s) = e
<1> DEFINE places == {i \in DOMAIN s : IsPrefix(p, Drop(s, i - 1))}
           found == {i \in 1 .. Len(s) : Occurs(p, s, i)}
<1>1. Find(p, s) = IF places = {} THEN 0 ELSE Min(places)
  BY Zenon DEF Find
<1>2. places = found
  <2>1. DOMAIN s = 1 .. Len(s)
    BY LenProperties
  <2> QED BY <2>1, OccursIs
<1> HIDE DEF places
<1>3. ASSUME \A i \in 1 .. Len(s) : ~ Occurs(p, s, i) PROVE Find(p, s) = 0
  BY <1>1, <1>2, <1>3
<1>4. ASSUME NEW e \in 1 .. Len(s), Occurs(p, s, e),
             \A i \in 1 .. Len(s) : Occurs(p, s, i) => e <= i
      PROVE  Find(p, s) = e
  <2>1. e \in found /\ found # {} /\ found \in SUBSET Nat
    BY <1>4
  <2>2. \A i \in found : e <= i
    BY <1>4
  <2> HIDE DEF found
  <2>3. Min(found) \in found /\ Min(found) <= e
    BY <2>1, LeastElement
  <2>4. Min(found) = e
    <3>1. Min(found) \in Nat /\ e \in Nat /\ e <= Min(found)
      BY <2>1, <2>2, <2>3
    <3> QED BY <2>3, <3>1
  <2> QED BY <1>1, <1>2, <2>1, <2>4
<1> QED BY <1>3, <1>4

\* A beginning, continued by what follows it.
LEMMA Continued ==
  ASSUME NEW A, NEW s \in Seq(A), NEW r \in Seq(A), NEW k \in Nat, NEW j \in 0 .. Len(r),
         k + j <= Len(s), \A i \in 1 .. j : r[i] = s[k + i]
  PROVE  Cat(SubSeq(s, 1, k), SubSeq(r, 1, j)) = SubSeq(s, 1, k + j)
<1> DEFINE a == SubSeq(s, 1, k)
           b == SubSeq(r, 1, j)
           c == SubSeq(s, 1, k + j)
           d == Cat(a, b)
<1>1. Len(s) \in Nat /\ Len(r) \in Nat /\ k \in 0 .. Len(s) /\ k + j \in 0 .. Len(s) /\ j \in Nat
  BY LenProperties
<1>2. a \in Seq(A) /\ Len(a) = k /\ \A i \in 1 .. k : a[i] = s[i]
  BY <1>1, TakeIs
<1>3. b \in Seq(A) /\ Len(b) = j /\ \A i \in 1 .. j : b[i] = r[i]
  BY TakeIs
<1>4. c \in Seq(A) /\ Len(c) = k + j /\ \A i \in 1 .. k + j : c[i] = s[i]
  BY <1>1, TakeIs
<1> HIDE DEF a, b, c
<1>5. Joins(d, A, a, b)
  BY <1>2, <1>3, CatJoins
<1> HIDE DEF d
<1>6. ASSUME NEW i \in 1 .. k + j PROVE d[i] = c[i]
  <2>1. CASE i <= k
    BY SMTT(30), <1>2, <1>4, <1>5, <2>1 DEF Joins
  <2>2. CASE i > k
    <3>1. PICK x \in 1 .. j : i = k + x
      <4>1. i - k \in 1 .. j /\ i = k + (i - k)
        BY <1>1, <2>2
      <4> QED BY <4>1
    <3>2. d[k + x] = b[x]
      BY <1>2, <1>3, <1>5, <3>1 DEF Joins
    <3>3. b[x] = s[k + x] /\ c[k + x] = s[k + x]
      BY <1>3, <1>4, <3>1
    <3> QED BY <3>1, <3>2, <3>3
  <2> QED BY <1>1, <2>1, <2>2
<1>7. d \in Seq(A) /\ Len(d) = k + j
  BY <1>2, <1>3, <1>5 DEF Joins
<1>8. d = c
  BY <1>4, <1>6, <1>7, SeqEqual
<1> QED BY <1>8 DEF a, b, c, d

-----------------------------------------------------------------------------
(* What a cut after each token does.                                       *)

CutKinds == {"safe", "line", "seam"}
AllCuts(m) ==
  [i \in 1 .. Len(m.parts) + 1 |->
     IF i <= Len(m.parts) THEN ChunkCuts(m.parts[i]) ELSE LastCuts]
MessageCuts(s) == [n \in 1 .. Len(s) |-> [i \in 1 .. 5 |-> "safe"] \o BodyCuts(s[n])]

LEMMA ChunkCutsAre ==
  ASSUME NEW c \in Seq(Tokens)
  PROVE  /\ ChunkCuts(c) \in Seq(CutKinds) /\ Len(ChunkCuts(c)) = Len(c) + 5
         /\ Len(c) > 0 => ChunkCuts(c)[3 + Len(c)] = "seam"
<1> DEFINE lead == <<"line", "line", "safe">>
           data == [i \in DOMAIN c |-> IF i = Len(c) THEN "seam" ELSE "safe"]
           end == <<"line", "safe">>
           early == Cat(lead, data)
           all == Cat(early, end)
<1>1. Len(c) \in Nat /\ DOMAIN c = 1 .. Len(c)
  BY LenProperties
<1>2. lead \in Seq(CutKinds) /\ Len(lead) = 3 /\ end \in Seq(CutKinds) /\ Len(end) = 2
  BY DEF CutKinds
<1>3. data \in Seq(CutKinds) /\ Len(data) = Len(c) /\ (Len(c) > 0 => data[Len(c)] = "seam")
  <2>1. data = [i \in 1 .. Len(c) |-> data[i]]
    BY <1>1
  <2>2. \A i \in 1 .. Len(c) : data[i] = IF i = Len(c) THEN "seam" ELSE "safe"
    BY <1>1
  <2> HIDE DEF data
  <2>3. \A i \in 1 .. Len(c) : data[i] \in CutKinds
    BY <2>2 DEF CutKinds
  <2>4. Len(c) > 0 => data[Len(c)] = "seam"
    <3>1. Len(c) > 0 => Len(c) \in 1 .. Len(c)
      BY <1>1
    <3> QED BY <2>2, <3>1
  <2> QED BY <1>1, <2>1, <2>3, <2>4, MakesSeq
<1>4. ChunkCuts(c) = all
  BY Zenon DEF ChunkCuts, Cat
<1> HIDE DEF lead, data, end
<1>5. Joins(early, CutKinds, lead, data)
  BY <1>2, <1>3, CatJoins
<1> HIDE DEF early
<1>6. /\ early \in Seq(CutKinds) /\ Len(early) = 3 + Len(c)
      /\ (Len(c) > 0 => early[3 + Len(c)] = "seam")
  <2>1. Len(c) > 0 => early[3 + Len(c)] = data[Len(c)]
    <3>1. Len(c) > 0 => Len(c) \in 1 .. Len(data)
      BY <1>1, <1>3
    <3>2. \A k \in 1 .. Len(data) : early[Len(lead) + k] = data[k]
      BY <1>5 DEF Joins
    <3> QED BY <1>2, <3>1, <3>2
  <2> QED BY <1>2, <1>3, <1>5, <2>1 DEF Joins
<1>7. Joins(all, CutKinds, early, end)
  BY <1>2, <1>6, CatJoins
<1> HIDE DEF all
<1>8. all \in Seq(CutKinds) /\ Len(all) = Len(c) + 5
  BY <1>1, <1>2, <1>6, <1>7 DEF Joins
<1>9. all[3 + Len(c)] = early[3 + Len(c)]
  BY <1>1, <1>6, <1>7 DEF Joins
<1> QED BY <1>4, <1>6, <1>8, <1>9

LEMMA AllCutsAre ==
  ASSUME NEW m \in SomeMessages
  PROVE  /\ AllCuts(m) \in Seq(Seq(CutKinds)) /\ Len(AllCuts(m)) = Len(m.parts) + 1
         /\ \A i \in 1 .. Len(m.parts) : AllCuts(m)[i] = ChunkCuts(m.parts[i])
         /\ AllCuts(m)[Len(m.parts) + 1] = LastCuts
         /\ \A i \in 1 .. Len(m.parts) + 1 : Len(AllCuts(m)[i]) = Len(AllParts(m)[i]) + 5
<1> DEFINE n == Len(m.parts)
           a == AllCuts(m)
<1>1. n \in Nat /\ \A i \in 1 .. n : m.parts[i] \in Seq(Tokens)
  BY PartsAre
<1>2. /\ \A i \in 1 .. n + 1 : a[i] = IF i <= n THEN ChunkCuts(m.parts[i]) ELSE LastCuts
      /\ a = [i \in 1 .. n + 1 |-> a[i]]
  BY DEF AllCuts
<1>3. LastCuts \in Seq(CutKinds) /\ Len(LastCuts) = 5
  BY DEF LastCuts, CutKinds
<1> HIDE DEF a, n
<1>4. a[n + 1] = LastCuts /\ \A i \in 1 .. n : a[i] = ChunkCuts(m.parts[i])
  <2>1. n + 1 \in 1 .. n + 1 /\ ~ (n + 1 <= n) /\ \A i \in 1 .. n : i \in 1 .. n + 1 /\ i <= n
    BY <1>1
  <2> QED BY <1>2, <2>1
<1>5. \A i \in 1 .. n + 1 : a[i] \in Seq(CutKinds) /\ Len(a[i]) = Len(AllParts(m)[i]) + 5
  <2>1. \A i \in 1 .. n : a[i] \in Seq(CutKinds) /\ Len(a[i]) = Len(AllParts(m)[i]) + 5
    BY <1>1, <1>4, ChunkCutsAre, PartsAre DEF n
  <2>2. a[n + 1] \in Seq(CutKinds) /\ Len(a[n + 1]) = Len(AllParts(m)[n + 1]) + 5
    <3>1. AllParts(m)[n + 1] = <<>> /\ Len(<<>>) = 0
      BY PartsAre DEF n
    <3> QED BY <1>3, <1>4, <3>1
  <2>3. \A i \in 1 .. n + 1 : i \in 1 .. n \/ i = n + 1
    BY <1>1
  <2> QED BY <2>1, <2>2, <2>3
<1>6. a \in Seq(Seq(CutKinds)) /\ Len(a) = n + 1
  <2>1. n + 1 \in Nat
    BY <1>1
  <2> QED BY <1>2, <1>5, <2>1, MakesSeq
<1> QED BY <1>4, <1>5, <1>6 DEF a, n

LEMMA BodyCutsOfChunked ==
  ASSUME NEW m \in SomeMessages, m.kind = "chunked"
  PROVE  BodyCuts(m) = FlattenSeq(AllCuts(m))
<1> DEFINE early == [i \in DOMAIN m.parts |-> ChunkCuts(m.parts[i])]
           n == Len(m.parts)
           all == Append(early, LastCuts)
           a == AllCuts(m)
<1>1. n \in Nat /\ DOMAIN m.parts = 1 .. n /\ \A i \in 1 .. n : m.parts[i] \in Seq(Tokens)
  BY PartsAre, LenProperties
<1>2. BodyCuts(m) = FlattenSeq(early) \o LastCuts
  BY DEF BodyCuts
<1>3. /\ \A i \in 1 .. n : early[i] = ChunkCuts(m.parts[i])
      /\ early = [i \in 1 .. n |-> early[i]]
  BY <1>1
<1> HIDE DEF early
<1>4. early \in Seq(Seq(CutKinds)) /\ Len(early) = n
  <2>1. \A i \in 1 .. n : early[i] \in Seq(CutKinds)
    BY <1>1, <1>3, ChunkCutsAre
  <2> QED BY ZenonT(40), <1>1, <1>3, <2>1, MakesSeq
<1>5. LastCuts \in Seq(CutKinds)
  BY DEF LastCuts, CutKinds
<1>6. /\ all \in Seq(Seq(CutKinds)) /\ Len(all) = n + 1
      /\ \A i \in 1 .. n : all[i] = early[i]
      /\ all[n + 1] = LastCuts
  BY <1>4, <1>5, AppendProperties
<1>7. FlattenSeq(all) = FlattenSeq(early) \o LastCuts
  BY <1>4, <1>5, FlattenOfAppend
<1>8. /\ a \in Seq(Seq(CutKinds)) /\ Len(a) = n + 1
      /\ \A i \in 1 .. n : a[i] = ChunkCuts(m.parts[i])
      /\ a[n + 1] = LastCuts
  BY AllCutsAre
<1> HIDE DEF all, a
<1>9. \A i \in 1 .. n + 1 : all[i] = a[i]
  <2>1. \A i \in 1 .. n : all[i] = a[i]
    BY <1>3, <1>6, <1>8
  <2>2. all[n + 1] = a[n + 1]
    BY <1>6, <1>8
  <2> QED BY <1>1, <2>1, <2>2
<1>10. all = a
  BY <1>6, <1>8, <1>9, SeqEqual
<1> QED BY <1>2, <1>7, <1>10 DEF a

LEMMA BodyCutsAre ==
  ASSUME NEW m \in SomeMessages
  PROVE  /\ BodyCuts(m) \in Seq(CutKinds) /\ Len(BodyCuts(m)) = Len(Body(m))
         /\ m.kind = "chunked" => \A c \in 1 .. Len(m.parts) :
              BodyCuts(m)[ChunkAt(m, c + 1) - 2] = "seam"
<1>1. CASE m.kind # "chunked"
  <2> DEFINE b == BodyCuts(m)
  <2>1. Body(m) \in Seq(Tokens) /\ Len(Body(m)) \in Nat /\ DOMAIN Body(m) = 1 .. Len(Body(m))
    BY BodyType, LenProperties
  <2>2. b = [i \in 1 .. Len(Body(m)) |-> "safe"]
    BY <1>1, <2>1 DEF BodyCuts
  <2> HIDE DEF b
  <2>3. b \in Seq(CutKinds) /\ Len(b) = Len(Body(m))
    BY <2>1, <2>2, MakesSeq DEF CutKinds
  <2> QED BY <1>1, <2>3 DEF b
<1>2. CASE m.kind = "chunked"
  <2> DEFINE a == AllCuts(m)
             e == Chunks(m)
             n == Len(m.parts)
             b == BodyCuts(m)
  <2>1. /\ a \in Seq(Seq(CutKinds)) /\ Len(a) = n + 1 /\ n \in Nat
        /\ \A i \in 1 .. n : a[i] = ChunkCuts(m.parts[i])
        /\ \A i \in 1 .. n + 1 : Len(a[i]) = Len(AllParts(m)[i]) + 5
    BY AllCutsAre, PartsAre
  <2>2. b = FlattenSeq(a) /\ Body(m) = FlattenSeq(e)
    BY <1>2, BodyCutsOfChunked, ChunkedBody
  <2>3. e \in Seq(Seq(Tokens)) /\ Len(e) = n + 1 /\ \A i \in 1 .. n + 1 : Len(e[i]) = Len(AllParts(m)[i]) + 5
    BY ChunksAre DEF IsChunk
  <2> HIDE DEF a, e, b
  <2>4. \A k \in 0 .. n + 1 : FlatLen(e, k) = FlatLen(a, k)
    <3>1. Len(e) = Len(a) /\ \A i \in 1 .. Len(e) : Len(e[i]) = Len(a[i])
      BY <2>1, <2>3
    <3> QED BY <2>1, <2>3, <3>1, FlatLenAgree
  <2>5. b \in Seq(CutKinds) /\ Len(b) = Len(Body(m))
    <3>1. Len(b) = FlatLen(a, n + 1) /\ Len(Body(m)) = FlatLen(e, n + 1)
      BY <2>1, <2>2, <2>3, FlatLenEnds
    <3>2. n + 1 \in 0 .. n + 1
      BY <2>1
    <3>3. b \in Seq(CutKinds)
      BY <2>1, <2>2, FlattenType
    <3> QED BY <2>4, <3>1, <3>2, <3>3
  <2>6. ASSUME NEW c \in 1 .. n PROVE b[ChunkAt(m, c + 1) - 2] = "seam"
    <3> DEFINE l == Len(m.parts[c])
    <3>1. l \in Nat \ {0} /\ m.parts[c] \in Seq(Tokens) /\ c \in 1 .. n + 1 /\ c \in Nat
          /\ AllParts(m)[c] = m.parts[c]
      <4>1. c \in 1 .. n + 1 /\ c \in Nat
        BY <2>1
      <4> QED BY <4>1, PartsAre
    <3>2. ChunkAt(m, c + 1) = ChunkAt(m, c) + 5 + l /\ ChunkAt(m, c) \in Nat
      BY <1>2, <3>1, ChunkPlace
    <3>3. ChunkAt(m, c) = FlatLen(a, c - 1)
      <4>1. c - 1 \in 0 .. n + 1
        BY <2>1
      <4> QED BY <2>4, <4>1 DEF ChunkAt, e
    <3>4. \A k \in 1 .. Len(a[c]) : b[FlatLen(a, c - 1) + k] = a[c][k]
      <4>1. c \in 1 .. Len(a)
        BY <2>1, <3>1
      <4> QED BY <2>1, <2>2, <4>1, FlattenAt
    <3>5. a[c][3 + l] = "seam" /\ Len(a[c]) = l + 5
      <4>1. l > 0 /\ a[c] = ChunkCuts(m.parts[c])
        BY <2>1, <3>1
      <4> QED BY <3>1, <4>1, ChunkCutsAre
    <3> HIDE DEF l
    <3>6. 3 + l \in 1 .. Len(a[c]) /\ ChunkAt(m, c + 1) - 2 = ChunkAt(m, c) + (3 + l)
      BY <3>1, <3>2, <3>5
    <3>7. b[FlatLen(a, c - 1) + (3 + l)] = a[c][3 + l]
      BY <3>4, <3>6
    <3> QED BY <3>3, <3>5, <3>6, <3>7
  <2> QED BY <2>5, <2>6 DEF b
<1> QED BY <1>1, <1>2

LEMMA CutsAre ==
  ASSUME NEW s \in Seq(SomeMessages)
  PROVE  /\ Cuts(s) \in Seq(CutKinds) /\ Len(Cuts(s)) = Len(Wire(s))
         /\ \A n \in 1 .. Len(s) : s[n].kind = "chunked" =>
              \A c \in 1 .. Len(s[n].parts) : Cuts(s)[Base(s, n, c + 1) - 2] = "seam"
<1> DEFINE mc == MessageCuts(s)
           e == Encodeds(s)
           w == Wire(s)
           all == Cuts(s)
           head == [i \in 1 .. 5 |-> "safe"]
<1>1. Len(s) \in Nat /\ DOMAIN s = 1 .. Len(s) /\ \A n \in 1 .. Len(s) : s[n] \in SomeMessages
  BY LenProperties, ElementOfSeq
<1>2. all = FlattenSeq(mc)
  BY <1>1 DEF Cuts, MessageCuts
<1>3. \A n \in 1 .. Len(s) : mc[n] = Cat(head, BodyCuts(s[n]))
  BY Zenon DEF MessageCuts, Cat
<1>4. head \in Seq(CutKinds) /\ Len(head) = 5
  <2> HIDE DEF head
  <2>1. head = [i \in 1 .. 5 |-> "safe"]
    BY DEF head
  <2> QED BY <2>1, MakesSeq DEF CutKinds
<1> HIDE DEF head
<1>5. \A n \in 1 .. Len(s) : Joins(mc[n], CutKinds, head, BodyCuts(s[n]))
  BY <1>1, <1>3, <1>4, BodyCutsAre, CatJoins
<1>6. \A n \in 1 .. Len(s) : mc[n] \in Seq(CutKinds) /\ Len(mc[n]) = 5 + Len(Body(s[n]))
                             /\ Len(BodyCuts(s[n])) = Len(Body(s[n]))
  BY <1>1, <1>4, <1>5, BodyCutsAre DEF Joins
<1>7. mc \in Seq(Seq(CutKinds)) /\ Len(mc) = Len(s)
  <2>1. mc = [n \in 1 .. Len(s) |-> mc[n]]
    BY DEF MessageCuts
  <2> QED BY <1>1, <1>6, <2>1, MakesSeq
<1>8. /\ e \in Seq(Seq(Tokens)) /\ Len(e) = Len(s) /\ w = FlattenSeq(e)
      /\ \A n \in 1 .. Len(s) : Len(e[n]) = 5 + Len(Body(s[n]))
  BY EncodedsAre, EncodedIs
<1> HIDE DEF mc, e, w, all
<1>9. \A k \in 0 .. Len(s) : FlatLen(e, k) = FlatLen(mc, k)
  <2>1. Len(e) = Len(mc) /\ \A n \in 1 .. Len(e) : Len(e[n]) = Len(mc[n])
    BY <1>6, <1>7, <1>8
  <2> QED BY <1>7, <1>8, <2>1, FlatLenAgree
<1>10. all \in Seq(CutKinds) /\ Len(all) = Len(w)
  <2>1. Len(all) = FlatLen(mc, Len(s)) /\ Len(w) = FlatLen(e, Len(s))
    BY <1>2, <1>7, <1>8, FlatLenEnds
  <2>2. Len(s) \in 0 .. Len(s)
    BY <1>1
  <2> QED BY <1>2, <1>7, <1>9, <2>1, <2>2, FlattenType
<1>11. ASSUME NEW n \in 1 .. Len(s), s[n].kind = "chunked", NEW c \in 1 .. Len(s[n].parts)
       PROVE  all[Base(s, n, c + 1) - 2] = "seam"
  <2> DEFINE m == s[n]
             at == ChunkAt(m, c + 1) - 2
             l == Len(Body(m))
             b == BodyCuts(m)
  <2>1. m \in SomeMessages /\ n \in Nat /\ n - 1 \in 0 .. Len(s) /\ n \in 1 .. Len(mc)
    BY <1>1, <1>7
  <2>2. b[at] = "seam" /\ Len(b) = l /\ l \in Nat
    BY <1>11, <2>1, BodyCutsAre, BodyType
  <2>3. at \in 1 .. l
    <3>1. c \in 1 .. Len(m.parts) + 1 /\ Len(m.parts) \in Nat
      BY <2>1, PartsAre
    <3>2. /\ ChunkAt(m, c) \in Nat /\ ChunkAt(m, c + 1) = ChunkAt(m, c) + 5 + Len(AllParts(m)[c])
          /\ ChunkAt(m, c + 1) <= l /\ Len(AllParts(m)[c]) \in Nat
      BY <1>11, <2>1, <3>1, ChunkPlace
    <3> HIDE DEF m, l
    <3> QED BY SMTT(30), <2>2, <3>2
  <2>4. Place(s, n) = FlatLen(mc, n - 1) /\ Place(s, n) \in Nat
    BY <1>9, <2>1, PlaceIs DEF Place, e
  <2>5. \A k \in 1 .. Len(mc[n]) : all[FlatLen(mc, n - 1) + k] = mc[n][k]
    BY <1>2, <1>7, <2>1, FlattenAt
  <2>6. mc[n][5 + at] = b[at] /\ 5 + at \in 1 .. Len(mc[n])
    <3>1. Joins(mc[n], CutKinds, head, b)
      BY <1>5
    <3>2. at \in 1 .. Len(b)
      BY <2>2, <2>3
    <3> HIDE DEF b, at
    <3> QED BY <1>4, <3>1, <3>2 DEF Joins
  <2>7. Base(s, n, c + 1) - 2 = Place(s, n) + (5 + at)
    <3>1. Base(s, n, c + 1) = Place(s, n) + 5 + (at + 2)
      <4>1. ChunkAt(m, c + 1) = at + 2
        <5>1. ChunkAt(m, c + 1) - 2 \in Int
          BY <2>3
        <5>2. ChunkAt(m, c + 1) \in Nat
          <6>1. c \in 1 .. Len(m.parts) + 1 /\ Len(m.parts) \in Nat
            BY <2>1, PartsAre
          <6> QED BY <1>11, <2>1, <6>1, ChunkPlace
        <5> QED BY <5>2
      <4> QED BY <4>1 DEF Base
    <3> HIDE DEF at
    <3> QED BY <2>3, <2>4, <3>1
  <2> HIDE DEF at, b
  <2>8. all[Place(s, n) + (5 + at)] = mc[n][5 + at]
    BY <2>4, <2>5, <2>6
  <2> QED BY <2>2, <2>6, <2>7, <2>8
<1> QED BY <1>10, <1>11 DEF all, w

-----------------------------------------------------------------------------
(* The inductive invariant: where in the stream the parser is.             *)

Contexts == [header : Seq(Tokens), content : Seq(Tokens), remaining : Nat]

\* What the message before leaves in front of the n-th one's header.
Left(s, n) == IF n > 1 THEN Leftover(s[n - 1]) ELSE <<>>
LeftLen(s, n) == Len(Left(s, n))

\* The context of the n-th message, and the one that is handed over.
HeaderOf(s, n) == Cat(Left(s, n), Rebuilt(<<HeadLine(n)>>))
Context(s, n, content, remaining) ==
  [header |-> HeaderOf(s, n), content |-> content, remaining |-> remaining]
Handed(s, n) == Context(s, n, ContentOf(s[n]), 0)

GoodsOf(s) == {n \in 1 .. Len(s) : IsGood(s[n])}
Below(s, n) == {k \in GoodsOf(s) : k < n}
Rank(s, n) == Cardinality(Below(s, n))

\* The messages before the n-th one have been handed over, if they are good.
HandedBefore(n) ==
  /\ delivered \in Seq(Contexts)
  /\ Len(delivered) = Rank(stream, n)
  /\ \A k \in Below(stream, n) : delivered[Rank(stream, k) + 1] = Handed(stream, k)

\* raw_buffer holds the tokens read and not yet parsed.
Consumed == fed - Len(raw)
Window ==
  /\ stream \in Streams
  /\ fed \in 0 .. Len(Wire(stream))
  /\ raw \in Seq(Tokens) /\ Len(raw) <= fed
  /\ \A i \in 1 .. Len(raw) : raw[i] = Wire(stream)[Consumed + i]

\* Where reads have ended is known, of the last one too.
CutsKnown ==
  /\ cuts \subseteq {"safe", "line", "seam"}
  /\ fed > 0 => Cuts(stream)[fed] \in cuts

AtHeader(n) ==
  /\ state = "READ_HEADERS"
  /\ Consumed = Place(stream, n) - LeftLen(stream, n)

InBody(n) ==
  /\ state = "READ_BODY"
  /\ n <= Len(stream) /\ stream[n].kind = "length"
  /\ \E k \in 0 .. Len(Body(stream[n])) - 1 :
       /\ Consumed = Place(stream, n) + 5 + k
       /\ tmp = Context(stream, n, SubSeq(Body(stream[n]), 1, k), Len(Body(stream[n])) - k)

\* Before the line of chunk c; or before the CRLF of the chunk before, when it
\* had not arrived with the data.
Parts(s, n, c) == FlattenSeq(SubSeq(s[n].parts, 1, c))
AtSize(n) ==
  /\ state = "READ_CHUNK_SIZE"
  /\ n <= Len(stream) /\ stream[n].kind = "chunked"
  /\ \E c \in 1 .. Len(stream[n].parts) + 1 :
       /\ tmp = Context(stream, n, Parts(stream, n, c - 1), 0)
       /\ \/ Consumed = Base(stream, n, c)
          \/ /\ c > 1
             /\ Consumed = Base(stream, n, c) - 2
             /\ "seam" \in cuts \/ (pc # "wait" /\ Len(raw) = 1)

InChunk(n) ==
  /\ state = "READ_CHUNK_DATA"
  /\ n <= Len(stream) /\ stream[n].kind = "chunked"
  /\ \E c \in 1 .. Len(stream[n].parts) : \E k \in 0 .. Len(stream[n].parts[c]) - 1 :
       /\ Consumed = Base(stream, n, c) + 3 + k
       /\ tmp = Context(stream, n,
                        Cat(Parts(stream, n, c - 1), SubSeq(stream[n].parts[c], 1, k)),
                        Len(stream[n].parts[c]) - k)

\* Waiting, the parser has used all there is, or has no header to look at.
Waiting(n) ==
  pc = "wait" => \/ raw = <<>>
                 \/ AtHeader(n) /\ (n <= Len(stream) => fed < Place(stream, n) + 5)

At(n) ==
  /\ HandedBefore(n)
  /\ AtHeader(n) \/ InBody(n) \/ AtSize(n) \/ InChunk(n)
  /\ Waiting(n)

Killed ==
  /\ state \in ConnState
  /\ \E n \in 1 .. Len(stream) + 1 :
       /\ HandedBefore(n)
       /\ "seam" \in cuts \/ (n \in DOMAIN stream /\ IsDeadly(stream[n]))

IInv ==
  /\ Window /\ CutsKnown
  /\ tmp \in Contexts
  /\ pc \in {"wait", "parse", "chunk", "killed"}
  /\ IF pc = "killed" THEN Killed ELSE \E n \in 1 .. Len(stream) + 1 : At(n)

-----------------------------------------------------------------------------
(* The order of the messages.                                              *)

LEMMA PlaceGrows ==
  ASSUME NEW s \in Seq(SomeMessages), NEW k \in 1 .. Len(s) + 1, NEW n \in k .. Len(s) + 1
  PROVE  Place(s, k) \in Nat /\ Place(s, n) \in Nat /\ Place(s, k) <= Place(s, n)
<1> DEFINE T == {d \in Nat : k + d <= Len(s) + 1 =>
                   Place(s, k + d) \in Nat /\ Place(s, k) <= Place(s, k + d)}
<1>1. Len(s) \in Nat /\ k \in Nat /\ n \in Nat /\ n - k \in Nat /\ k + (n - k) = n /\ k + 0 = k
  BY LenProperties
<1>2. Place(s, k) \in Nat
  <2>1. CASE k \in 1 .. Len(s)
    BY <2>1, PlaceIs
  <2>2. CASE k = Len(s) + 1
    BY <2>2, PlaceEnds, EncodedsAre
  <2> QED BY <1>1, <2>1, <2>2
<1>3. 0 \in T
  BY <1>1, <1>2
<1>4. ASSUME NEW d \in Nat, d \in T PROVE d + 1 \in T
  <2> SUFFICES ASSUME k + (d + 1) <= Len(s) + 1
               PROVE  Place(s, k + (d + 1)) \in Nat /\ Place(s, k) <= Place(s, k + (d + 1))
    OBVIOUS
  <2> DEFINE x == k + d
  <2>1. x \in 1 .. Len(s) /\ x + 1 = k + (d + 1) /\ x <= Len(s) + 1
    BY <1>1
  <2>2. Place(s, x) \in Nat /\ Place(s, k) <= Place(s, x)
    BY <1>4, <2>1
  <2> HIDE DEF x
  <2>3. /\ Place(s, x + 1) = Place(s, x) + 5 + Len(Body(s[x])) /\ Place(s, x + 1) \in Nat
        /\ Len(Body(s[x])) \in Nat
    BY <2>1, PlaceIs, EncodedIs
  <2>4. Place(s, k) <= Place(s, x + 1)
    BY <1>2, <2>2, <2>3
  <2> QED BY <2>1, <2>3, <2>4
<1>5. Nat \subseteq T
  <2> HIDE DEF T
  <2> QED BY <1>3, <1>4, NatInductionOnSet
<1>6. n - k \in T
  BY <1>1, <1>5
<1> QED BY <1>1, <1>2, <1>6

\* Where a message is complete.
LEMMA LeftIs ==
  ASSUME NEW s \in Seq(SomeMessages), NEW n \in 1 .. Len(s) + 1
  PROVE  /\ Left(s, n) \in Seq(Tokens) /\ LeftLen(s, n) \in Nat
         /\ n = 1 => LeftLen(s, n) = 0
         /\ n > 1 => n - 1 \in 1 .. Len(s) /\ Left(s, n) = Leftover(s[n - 1])
<1>1. CASE n = 1
  BY <1>1, EmptySeq DEF Left, LeftLen
<1>2. CASE n > 1
  <2>1. n - 1 \in 1 .. Len(s)
    BY <1>2, LenProperties
  <2>2. s[n - 1] \in SomeMessages
    BY <2>1, ElementOfSeq
  <2> QED BY <1>2, <2>1, <2>2, LeftoverIs DEF Left, LeftLen
<1> QED BY <1>1, <1>2

LEMMA LeftNext ==
  ASSUME NEW s \in Seq(SomeMessages), NEW n \in 1 .. Len(s)
  PROVE  Left(s, n + 1) = Leftover(s[n]) /\ LeftLen(s, n + 1) = Len(Leftover(s[n]))
<1>1. n + 1 > 1 /\ n + 1 - 1 = n
  OBVIOUS
<1> DEFINE k == n + 1
<1>2. k > 1 /\ k - 1 = n
  BY <1>1
<1> HIDE DEF k
<1>3. Left(s, k) = Leftover(s[k - 1])
  BY <1>2, Zenon DEF Left
<1>4. Left(s, k) = Leftover(s[n])
  BY <1>2, <1>3, Zenon
<1> QED BY <1>4, Zenon DEF LeftLen, k

LEMMA CompleteIs ==
  ASSUME NEW s \in Seq(SomeMessages), NEW n \in 1 .. Len(s)
  PROVE  /\ CompleteAt(s, n) = Place(s, n + 1) - LeftLen(s, n + 1)
         /\ CompleteAt(s, n) \in Nat /\ Place(s, n) + 5 <= CompleteAt(s, n)
         /\ CompleteAt(s, n) <= Place(s, n + 1)
<1> DEFINE m == s[n]
           l == Len(Body(m))
           left == Len(Leftover(m))
<1>1. Len(Wire(SubSeq(s, 1, n))) = Place(s, n + 1)
  BY WireOfPrefix
<1>2. CompleteAt(s, n) = Place(s, n + 1) - left
  BY <1>1 DEF CompleteAt
<1>3. LeftLen(s, n + 1) = left
  BY LeftNext
<1>4. Place(s, n + 1) = Place(s, n) + 5 + l /\ Place(s, n) \in Nat /\ l \in Nat /\ m \in SomeMessages
  BY PlaceIs, EncodedIs
<1>5. left \in Nat /\ left <= l
  <2>1. CASE m.kind = "chunked"
    <3>1. Len(m.parts) \in Nat /\ 1 \in 1 .. Len(m.parts) + 1
      <4>1. Len(m.parts) \in Nat
        <5> HIDE DEF m
        <5> QED BY <1>4, PartsAre
      <4> QED BY <4>1
    <3> DEFINE c == 1
    <3>2. /\ ChunkAt(m, c + 1) = ChunkAt(m, c) + 5 + Len(AllParts(m)[c])
          /\ ChunkAt(m, c + 1) <= l
          /\ ChunkAt(m, c) \in Nat /\ Len(AllParts(m)[c]) \in Nat
      <4>1. m \in SomeMessages /\ m.kind = "chunked" /\ c \in 1 .. Len(m.parts) + 1
        BY <1>4, <2>1, <3>1
      <4> HIDE DEF m, c
      <4> QED BY <4>1, ChunkPlace DEF m
    <3>3. left = 2
      BY <1>4, <2>1, LeftoverIs
    <3> HIDE DEF m, l, left, c
    <3> QED BY <1>4, <3>2, <3>3
  <2>2. CASE m.kind # "chunked"
    <3>1. m.kind \in MessageKinds
      BY <1>4, PartsAre
    <3>2. left = l \/ left = 0
      BY <1>4, <2>2, <3>1, LeftoverIs DEF MessageKinds
    <3> HIDE DEF m, l, left
    <3> QED BY <1>4, <3>2
  <2> QED BY <2>1, <2>2
<1> HIDE DEF l, left
<1> QED BY <1>2, <1>3, <1>4, <1>5

\* The messages before the n-th are complete when its header begins.
LEMMA CompleteBelow ==
  ASSUME NEW s \in Seq(SomeMessages), NEW n \in 1 .. Len(s) + 1, NEW k \in 1 .. Len(s), k < n
  PROVE  CompleteAt(s, k) <= Place(s, n) - LeftLen(s, n)
<1>1. Len(s) \in Nat /\ k \in Nat /\ n \in Nat
  BY LenProperties
<1>2. CASE n = k + 1
  BY <1>2, CompleteIs, PlaceGrows
<1>3. CASE n # k + 1
  <2>1. n - 1 \in 1 .. Len(s) /\ k + 1 \in 1 .. Len(s) + 1 /\ n - 1 \in k + 1 .. Len(s) + 1
        /\ n - 1 + 1 = n
    BY <1>1, <1>3
  <2>2. CompleteAt(s, k) \in Nat /\ CompleteAt(s, k) <= Place(s, k + 1)
    BY CompleteIs
  <2>3. Place(s, k + 1) \in Nat /\ Place(s, n - 1) \in Nat /\ Place(s, k + 1) <= Place(s, n - 1)
    BY <2>1, PlaceGrows
  <2>4. /\ CompleteAt(s, n - 1) = Place(s, n) - LeftLen(s, n)
        /\ CompleteAt(s, n - 1) \in Nat /\ Place(s, n - 1) + 5 <= CompleteAt(s, n - 1)
    BY <2>1, CompleteIs
  <2> QED BY <2>2, <2>3, <2>4
<1> QED BY <1>2, <1>3

-----------------------------------------------------------------------------
(* The messages that are handed over, counted.                             *)

LEMMA RankType ==
  ASSUME NEW s, Len(s) \in Nat, NEW n
  PROVE  /\ IsFiniteSet(GoodsOf(s)) /\ IsFiniteSet(Below(s, n)) /\ Rank(s, n) \in Nat
         /\ Cardinality(GoodsOf(s)) \in Nat
         /\ GoodsOf(s) \subseteq 1 .. Len(s) /\ Below(s, n) \subseteq GoodsOf(s)
<1>1. GoodsOf(s) \subseteq 1 .. Len(s) /\ Below(s, n) \subseteq GoodsOf(s)
  BY DEF GoodsOf, Below
<1>2. IsFiniteSet(1 .. Len(s))
  BY FS_Interval
<1>3. IsFiniteSet(GoodsOf(s)) /\ IsFiniteSet(Below(s, n))
  BY <1>1, <1>2, FS_Subset
<1> QED BY <1>1, <1>3, FS_CardinalityType DEF Rank

LEMMA RankNext ==
  ASSUME NEW s, Len(s) \in Nat, NEW n \in 1 .. Len(s)
  PROVE  /\ IsGood(s[n]) => /\ n \in GoodsOf(s)
                            /\ Below(s, n + 1) = Below(s, n) \cup {n}
                            /\ Rank(s, n + 1) = Rank(s, n) + 1
         /\ ~ IsGood(s[n]) => /\ Below(s, n + 1) = Below(s, n)
                              /\ Rank(s, n + 1) = Rank(s, n)
<1>1. \A k \in GoodsOf(s) : k < n + 1 <=> k < n \/ k = n
  BY DEF GoodsOf
<1>2. n \in GoodsOf(s) <=> IsGood(s[n])
  BY Zenon DEF GoodsOf
<1>3. IsFiniteSet(Below(s, n)) /\ n \notin Below(s, n)
  <2>1. ~ (n < n)
    OBVIOUS
  <2>2. n \notin Below(s, n)
    BY <2>1 DEF Below
  <2> QED BY <2>2, RankType
<1>4. ASSUME IsGood(s[n])
      PROVE  Below(s, n + 1) = Below(s, n) \cup {n}
  BY <1>1, <1>2, <1>4 DEF Below
<1>5. ASSUME ~ IsGood(s[n])
      PROVE  Below(s, n + 1) = Below(s, n)
  BY <1>1, <1>2, <1>5 DEF Below
<1>6. Cardinality(Below(s, n) \cup {n}) = Cardinality(Below(s, n)) + 1
  BY <1>3, FS_AddElement
<1> QED BY <1>2, <1>4, <1>5, <1>6 DEF Rank

LEMMA RankGrows ==
  ASSUME NEW s, Len(s) \in Nat, NEW k \in GoodsOf(s), NEW n \in Nat, k < n
  PROVE  Rank(s, k) + 1 <= Rank(s, n) /\ Rank(s, k) \in Nat /\ Rank(s, n) \in Nat
<1>1. k \in Nat
  BY DEF GoodsOf
<1>2. IsFiniteSet(Below(s, k)) /\ IsFiniteSet(Below(s, n)) /\ k \notin Below(s, k)
      /\ Rank(s, k) \in Nat /\ Rank(s, n) \in Nat
  <2>1. ~ (k < k)
    BY <1>1
  <2>2. k \notin Below(s, k)
    BY <2>1 DEF Below
  <2> QED BY <2>2, RankType
<1>3. Below(s, k) \cup {k} \subseteq Below(s, n)
  BY <1>1 DEF Below, GoodsOf
<1>4. Cardinality(Below(s, k) \cup {k}) = Cardinality(Below(s, k)) + 1
  BY <1>2, FS_AddElement
<1>5. Cardinality(Below(s, k) \cup {k}) <= Cardinality(Below(s, n))
  BY <1>2, <1>3, FS_Subset
<1> QED BY <1>2, <1>4, <1>5 DEF Rank

\* Every place below a message's rank is taken.
LEMMA RankTaken ==
  ASSUME NEW s, Len(s) \in Nat, NEW n \in 1 .. Len(s) + 1, NEW i \in 1 .. Rank(s, n)
  PROVE  \E k \in Below(s, n) : Rank(s, k) + 1 = i
<1> DEFINE T == {d \in Nat : d + 1 <= Len(s) + 1 =>
                   \A j \in 1 .. Rank(s, d + 1) : \E k \in Below(s, d + 1) : Rank(s, k) + 1 = j}
<1>1. 0 \in T
  <2>1. Below(s, 0 + 1) = {}
    BY DEF Below, GoodsOf
  <2>2. Rank(s, 0 + 1) = 0
    BY <2>1, FS_EmptySet DEF Rank
  <2> QED BY <2>2
<1>2. ASSUME NEW d \in Nat, d \in T PROVE d + 1 \in T
  <2> DEFINE x == d + 1
  <2> SUFFICES ASSUME x + 1 <= Len(s) + 1, NEW j \in 1 .. Rank(s, x + 1)
               PROVE  \E k \in Below(s, x + 1) : Rank(s, k) + 1 = j
    OBVIOUS
  <2>1. x \in 1 .. Len(s) /\ x <= Len(s) + 1
    OBVIOUS
  <2>2. \A i_1 \in 1 .. Rank(s, x) : \E k \in Below(s, x) : Rank(s, k) + 1 = i_1
    BY <1>2, <2>1
  <2> HIDE DEF x
  <2>3. Rank(s, x) \in Nat
    BY RankType
  <2>4. CASE IsGood(s[x])
    <3>1. Below(s, x + 1) = Below(s, x) \cup {x} /\ Rank(s, x + 1) = Rank(s, x) + 1
      BY <2>1, <2>4, RankNext
    <3>2. j \in 1 .. Rank(s, x) \/ j = Rank(s, x) + 1
      BY <2>3, <3>1
    <3> QED BY <2>2, <3>1, <3>2
  <2>5. CASE ~ IsGood(s[x])
    <3>1. Below(s, x + 1) = Below(s, x) /\ Rank(s, x + 1) = Rank(s, x)
      BY <2>1, <2>5, RankNext
    <3> QED BY <2>2, <3>1
  <2> QED BY <2>4, <2>5
<1>3. Nat \subseteq T
  <2> HIDE DEF T
  <2> QED BY <1>1, <1>2, NatInductionOnSet
<1>4. n - 1 \in T /\ n - 1 + 1 = n /\ n <= Len(s) + 1
  <2>1. n - 1 \in Nat /\ n - 1 + 1 = n /\ n <= Len(s) + 1
    OBVIOUS
  <2> HIDE DEF T
  <2> QED BY <1>3, <2>1
<1> QED BY <1>4

\* Of two good messages the later one has the higher rank.
LEMMA RankTells ==
  ASSUME NEW s, Len(s) \in Nat, NEW k \in GoodsOf(s), NEW n \in GoodsOf(s), Rank(s, k) = Rank(s, n)
  PROVE  k = n
<1>1. k \in Nat /\ n \in Nat
  BY DEF GoodsOf
<1>2. ~ (k < n)
  BY <1>1, RankGrows
<1>3. ~ (n < k)
  BY <1>1, RankGrows
<1> QED BY <1>1, <1>2, <1>3

-----------------------------------------------------------------------------
(* The headers.                                                            *)

\* A header whose only message is the n-th.
HeadOnly(d, n) ==
  /\ d \in Seq(Tokens)
  /\ \E i \in 1 .. Len(d) : d[i] = HeadLine(n)
  /\ \A i \in 1 .. Len(d) : d[i] = HeadLine(n) \/ d[i][1] # "head"

\* What is put behind a header.
Lines == Cat(Cat(CRLF, IF is_request THEN Cat(One(Address), CRLF) ELSE <<>>), CRLF)

NoHeads(d) == d \in Seq(Tokens) /\ \A i \in 1 .. Len(d) : d[i][1] # "head"

LEMMA NoHeadsJoin ==
  ASSUME NEW a, NoHeads(a), NEW b, NoHeads(b)
  PROVE  NoHeads(Cat(a, b))
<1> DEFINE d == Cat(a, b)
<1>1. Joins(d, Tokens, a, b)
  BY CatJoins DEF NoHeads
<1> HIDE DEF d
<1>2. ASSUME NEW i \in 1 .. Len(d) PROVE d[i][1] # "head"
  <2>1. CASE i <= Len(a)
    <3>1. i \in 1 .. Len(a) /\ d[i] = a[i]
      BY <1>1, <2>1 DEF Joins
    <3> QED BY <3>1 DEF NoHeads
  <2>2. CASE i > Len(a)
    <3>1. i - Len(a) \in 1 .. Len(b) /\ Len(a) + (i - Len(a)) = i
      BY <1>1, <2>2 DEF Joins
    <3>2. d[Len(a) + (i - Len(a))] = b[i - Len(a)]
      BY <1>1, <3>1 DEF Joins
    <3>3. d[i] = b[i - Len(a)]
      BY <3>1, <3>2
    <3> QED BY <3>1, <3>3 DEF NoHeads
  <2>3. i <= Len(a) \/ i > Len(a)
    BY <1>1 DEF Joins
  <2> QED BY <2>1, <2>2, <2>3
<1>3. d \in Seq(Tokens)
  BY <1>1 DEF Joins
<1> QED BY <1>2, <1>3 DEF NoHeads, d

LEMMA NoHeadsIn == NoHeads(CRLF) /\ NoHeads(<<>>) /\ NoHeads(One(Address)) /\ NoHeads(Lines)
<1>1. NoHeads(CRLF)
  <2>1. \A i \in 1 .. 2 : i = 1 \/ i = 2
    OBVIOUS
  <2> QED BY <2>1, LineEnd, TokensDiffer DEF NoHeads
<1>2. NoHeads(<<>>)
  BY EmptySeq DEF NoHeads
<1>3. NoHeads(One(Address))
  <2>1. One(Address) \in Seq(Tokens) /\ Len(One(Address)) = 1 /\ One(Address)[1] = Address
    BY TokensDiffer, OneType
  <2>2. \A i \in 1 .. 1 : i = 1
    OBVIOUS
  <2> QED BY <2>1, <2>2, TokensDiffer DEF NoHeads
<1>4. NoHeads(Cat(One(Address), CRLF))
  BY <1>1, <1>3, NoHeadsJoin
<1>5. NoHeads(IF is_request THEN Cat(One(Address), CRLF) ELSE <<>>)
  BY <1>2, <1>4
<1> QED BY <1>1, <1>2, <1>3, <1>5, NoHeadsJoin DEF Lines

LEMMA RebuiltIs ==
  ASSUME NEW h \in Seq(Tokens)
  PROVE  Rebuilt(h) = Cat(h, Lines)
<1> DEFINE x == IF is_request THEN Cat(One(Address), CRLF) ELSE <<>>
           c == CRLF
<1>1. c \in Seq(Tokens) /\ x \in Seq(Tokens)
  <2>1. NoHeads(x) /\ NoHeads(c)
    BY NoHeadsIn, NoHeadsJoin
  <2> HIDE DEF x, c
  <2> QED BY <2>1 DEF NoHeads
<1>2. Rebuilt(h) = Cat(Cat(Cat(h, c), x), c)
  BY Zenon DEF Rebuilt, Cat, One
<1>3. Lines = Cat(Cat(c, x), c)
  BY Zenon DEF Lines
<1> HIDE DEF c, x
<1>4. Cat(Cat(h, c), x) = Cat(h, Cat(c, x)) /\ Cat(c, x) \in Seq(Tokens)
  BY <1>1, CatAssociative, CatType
<1>5. Cat(Cat(h, Cat(c, x)), c) = Cat(h, Cat(Cat(c, x), c))
  BY <1>1, <1>4, CatAssociative
<1> QED BY <1>2, <1>3, <1>4, <1>5, Zenon

LEMMA HeadOnlyJoins ==
  ASSUME NEW a, NoHeads(a), NEW n, NEW b, HeadOnly(b, n)
  PROVE  HeadOnly(Cat(a, b), n) /\ HeadOnly(Cat(b, a), n)
<1> DEFINE Ok(x) == x = HeadLine(n) \/ x[1] # "head"
<1>1. ASSUME NEW d, NEW p, NEW q, Joins(d, Tokens, p, q),
             \A i \in 1 .. Len(p) : Ok(p[i]), \A i \in 1 .. Len(q) : Ok(q[i])
      PROVE  \A i \in 1 .. Len(d) : Ok(d[i])
  <2> HIDE DEF Ok
  <2> TAKE i \in 1 .. Len(d)
  <2>1. CASE i <= Len(p)
    <3>1. i \in 1 .. Len(p) /\ d[i] = p[i]
      BY <1>1, <2>1 DEF Joins
    <3> QED BY <1>1, <3>1
  <2>2. CASE i > Len(p)
    <3>1. i - Len(p) \in 1 .. Len(q) /\ Len(p) + (i - Len(p)) = i
      BY <1>1, <2>2 DEF Joins
    <3>2. d[Len(p) + (i - Len(p))] = q[i - Len(p)]
      BY <1>1, <3>1 DEF Joins
    <3>3. d[i] = q[i - Len(p)]
      BY <3>1, <3>2
    <3> QED BY <1>1, <3>1, <3>3
  <2>3. i <= Len(p) \/ i > Len(p)
    BY <1>1 DEF Joins
  <2> QED BY <2>1, <2>2, <2>3
<1>2. \A i \in 1 .. Len(a) : Ok(a[i])
  BY DEF NoHeads
<1>3. \A i \in 1 .. Len(b) : Ok(b[i])
  BY DEF HeadOnly
<1>4. PICK j \in 1 .. Len(b) : b[j] = HeadLine(n)
  BY DEF HeadOnly
<1> DEFINE c == Cat(a, b)
           d == Cat(b, a)
<1>5. Joins(c, Tokens, a, b) /\ Joins(d, Tokens, b, a)
  BY CatJoins DEF NoHeads, HeadOnly
<1> HIDE DEF c, d
<1>6. (\A i \in 1 .. Len(c) : Ok(c[i])) /\ (\A i \in 1 .. Len(d) : Ok(d[i]))
  <2> HIDE DEF Ok
  <2> QED BY <1>1, <1>2, <1>3, <1>5
<1>7. c[Len(a) + j] = b[j] /\ Len(a) + j \in 1 .. Len(c) /\ d[j] = b[j] /\ j \in 1 .. Len(d)
  BY <1>5 DEF Joins
<1>8. c \in Seq(Tokens) /\ d \in Seq(Tokens)
  BY <1>5 DEF Joins
<1> QED BY <1>4, <1>6, <1>7, <1>8 DEF HeadOnly, c, d

\* What is left is no header.
LEMMA HeadlessLeft ==
  ASSUME NEW s \in Streams, NEW n \in 1 .. Len(s) + 1
  PROVE  LET left == Left(s, n)
         IN /\ left \in Seq(Tokens)
            /\ \A i \in 1 .. Len(left) : left[i][1] # "head"
            /\ \A i \in 1 .. Len(left) - 3 :
                 ~ (/\ left[i] = CR /\ left[i + 1] = LF
                    /\ left[i + 2] = CR /\ left[i + 3] = LF)
<1>1. s \in Seq(SomeMessages) /\ Len(s) \in Nat /\ DOMAIN s = 1 .. Len(s)
  BY StreamsAssumption, LenProperties
<1> DEFINE left == Left(s, n)
<1>2. left \in Seq(Tokens) /\ DOMAIN left = 1 .. Len(left) /\ Len(left) \in Nat
  BY <1>1, LeftIs, LenProperties
<1>3. CASE n = 1
  <2>1. Len(left) = 0
    BY <1>1, <1>3, LeftIs DEF LeftLen
  <2>2. 1 .. 0 = {} /\ 1 .. 0 - 3 = {}
    OBVIOUS
  <2> HIDE DEF left
  <2> QED BY <1>2, <2>1, <2>2 DEF left
<1>4. CASE n > 1
  <2>1. n - 1 \in DOMAIN s /\ left = Leftover(s[n - 1])
    BY <1>1, <1>4, LeftIs
  <2>2. Headless(left)
    BY <2>1, StreamsAssumption, Zenon
  <2> HIDE DEF left
  <2> QED BY <1>2, <2>2 DEF Headless, left
<1> QED BY <1>1, <1>3, <1>4

\* The header handed over, and the one that is found in the stream.
LEMMA HeadersAre ==
  ASSUME NEW s \in Streams, NEW n \in 1 .. Len(s) + 1
  PROVE  /\ HeadOnly(Cat(Left(s, n), One(HeadLine(n))), n)
         /\ HeadOnly(HeaderOf(s, n), n)
         /\ Rebuilt(Cat(Left(s, n), One(HeadLine(n)))) = HeaderOf(s, n)
<1> DEFINE left == Left(s, n)
           one == One(HeadLine(n))
<1>0. s \in Seq(SomeMessages) /\ n \in Nat
  BY StreamsAssumption, LenProperties
<1>1. NoHeads(left)
  BY HeadlessLeft DEF NoHeads
<1>2. one \in Seq(Tokens) /\ Len(one) = 1 /\ one[1] = HeadLine(n)
  BY <1>0, TokensDiffer, OneType
<1>3. HeadOnly(one, n)
  <2>1. \A i \in 1 .. 1 : i = 1
    OBVIOUS
  <2>2. 1 \in 1 .. 1
    OBVIOUS
  <2> HIDE DEF one
  <2> QED BY <1>2, <2>1, <2>2 DEF HeadOnly
<1>4. <<HeadLine(n)>> = one
  BY DEF One
<1> HIDE DEF left, one
<1>5. HeadOnly(Cat(left, one), n)
  BY <1>1, <1>3, HeadOnlyJoins
<1>6. Cat(left, one) \in Seq(Tokens) /\ left \in Seq(Tokens)
  BY <1>1, <1>5 DEF HeadOnly, NoHeads
<1>7. Lines \in Seq(Tokens)
  BY NoHeadsIn DEF NoHeads
<1>8. Rebuilt(Cat(left, one)) = Cat(Cat(left, one), Lines) /\ Rebuilt(one) = Cat(one, Lines)
  BY <1>2, <1>6, RebuiltIs
<1>9. Cat(Cat(left, one), Lines) = Cat(left, Cat(one, Lines))
  BY <1>2, <1>6, <1>7, CatAssociative
<1>10. HeaderOf(s, n) = Cat(left, Cat(one, Lines))
  BY <1>4, <1>8 DEF HeaderOf, left
<1>11. HeadOnly(Cat(one, Lines), n)
  BY <1>3, NoHeadsIn, HeadOnlyJoins
<1>12. HeadOnly(HeaderOf(s, n), n)
  BY <1>1, <1>10, <1>11, HeadOnlyJoins
<1> QED BY <1>5, <1>8, <1>9, <1>10, <1>12 DEF left, one

LEMMA OneHead ==
  ASSUME NEW d, NEW n \in DOMAIN stream, stream \in Seq(SomeMessages), HeadOnly(d, n)
  PROVE  HeadsIn(d) = {n} /\ Min(HeadsIn(d)) = n
<1>1. DOMAIN stream = 1 .. Len(stream) /\ Len(stream) \in Nat /\ DOMAIN d = 1 .. Len(d)
  BY LenProperties DEF HeadOnly
<1>2. ASSUME NEW k \in DOMAIN stream PROVE HeadLine(k) \in Range(d) <=> k = n
  <2>1. k \in Nat /\ n \in Nat
    BY <1>1
  <2>2. HeadLine(k)[1] = "head" /\ (HeadLine(k) = HeadLine(n) => k = n)
    BY <2>1, TokensDiffer
  <2> QED BY <1>1, <2>2 DEF HeadOnly, Range
<1>3. HeadsIn(d) = {n}
  BY <1>2 DEF HeadsIn
<1>4. {n} \in SUBSET Nat /\ {n} # {}
  BY <1>1
<1>5. Min({n}) \in {n}
  BY <1>4, LeastElement
<1> QED BY <1>3, <1>5

-----------------------------------------------------------------------------
(* What Find finds, wherever raw_buffer ends.                              *)

LEMMA StreamIs ==
  ASSUME Window
  PROVE  /\ stream \in Seq(SomeMessages) /\ Len(stream) \in Nat
         /\ DOMAIN stream = 1 .. Len(stream)
         /\ raw \in Seq(Tokens) /\ Len(raw) \in Nat /\ fed \in Nat /\ Consumed \in Nat
         /\ Wire(stream) \in Seq(Tokens) /\ Len(Wire(stream)) \in Nat
         /\ Consumed + Len(raw) = fed /\ fed <= Len(Wire(stream))
<1>1. stream \in Seq(SomeMessages) /\ raw \in Seq(Tokens)
  BY StreamsAssumption DEF Window
<1>2. Len(stream) \in Nat /\ DOMAIN stream = 1 .. Len(stream) /\ Len(raw) \in Nat
  BY <1>1, LenProperties
<1>3. Wire(stream) \in Seq(Tokens) /\ Len(Wire(stream)) \in Nat
  BY <1>1, EncodedsAre
<1>4. fed \in Nat /\ fed <= Len(Wire(stream)) /\ Len(raw) <= fed
  BY <1>3 DEF Window
<1>5. Consumed \in Nat /\ Consumed + Len(raw) = fed
  BY <1>2, <1>4 DEF Consumed
<1> QED BY <1>1, <1>2, <1>3, <1>4, <1>5

LEMMA TwoOccur ==
  ASSUME NEW s \in Seq(Tokens), NEW i \in Nat \ {0}
  PROVE  Occurs(CRLF, s, i) <=> i + 1 <= Len(s) /\ s[i] = CR /\ s[i + 1] = LF
<1> DEFINE c == CRLF
<1>1. Len(c) = 2 /\ c[1] = CR /\ c[2] = LF /\ Len(s) \in Nat
  BY LineEnd, LenProperties
<1> HIDE DEF c
<1>2. i - 1 + 1 = i /\ i - 1 + 2 = i + 1 /\ \A k \in 1 .. 2 : k = 1 \/ k = 2
  OBVIOUS
<1>3. (\A k \in 1 .. 2 : s[i - 1 + k] = c[k]) <=> s[i - 1 + 1] = c[1] /\ s[i - 1 + 2] = c[2]
  <2>1. 1 \in 1 .. 2 /\ 2 \in 1 .. 2
    OBVIOUS
  <2> QED BY <1>2, <2>1
<1>4. (\A k \in 1 .. 2 : s[i - 1 + k] = c[k]) <=> s[i] = CR /\ s[i + 1] = LF
  BY <1>1, <1>2, <1>3
<1>5. Occurs(c, s, i) <=> i + 1 <= Len(s) /\ (\A k \in 1 .. 2 : s[i - 1 + k] = c[k])
  BY <1>1, <1>2 DEF Occurs
<1> QED BY <1>4, <1>5 DEF c

LEMMA FourOccur ==
  ASSUME NEW s \in Seq(Tokens), NEW i \in Nat \ {0}
  PROVE  Occurs(CRLF \o CRLF, s, i) <=>
           /\ i + 3 <= Len(s)
           /\ s[i] = CR /\ s[i + 1] = LF /\ s[i + 2] = CR /\ s[i + 3] = LF
<1> DEFINE c == CRLF \o CRLF
<1>1. Len(c) = 4 /\ c[1] = CR /\ c[2] = LF /\ c[3] = CR /\ c[4] = LF /\ Len(s) \in Nat
  BY DoubleLineEnd, LenProperties
<1> HIDE DEF c
<1>2. /\ i - 1 + 1 = i /\ i - 1 + 2 = i + 1 /\ i - 1 + 3 = i + 2 /\ i - 1 + 4 = i + 3
      /\ \A k \in 1 .. 4 : k = 1 \/ k = 2 \/ k = 3 \/ k = 4
  OBVIOUS
<1>3. (\A k \in 1 .. 4 : s[i - 1 + k] = c[k]) <=>
        /\ s[i - 1 + 1] = c[1] /\ s[i - 1 + 2] = c[2]
        /\ s[i - 1 + 3] = c[3] /\ s[i - 1 + 4] = c[4]
  <2>1. 1 \in 1 .. 4 /\ 2 \in 1 .. 4 /\ 3 \in 1 .. 4 /\ 4 \in 1 .. 4
    OBVIOUS
  <2> QED BY <1>2, <2>1
<1>4. (\A k \in 1 .. 4 : s[i - 1 + k] = c[k]) <=>
        s[i] = CR /\ s[i + 1] = LF /\ s[i + 2] = CR /\ s[i + 3] = LF
  BY <1>1, <1>2, <1>3
<1>5. Occurs(c, s, i) <=> i + 3 <= Len(s) /\ (\A k \in 1 .. 4 : s[i - 1 + k] = c[k])
  BY <1>1, <1>2 DEF Occurs
<1> QED BY <1>4, <1>5 DEF c

\* The header of a message in the stream, and what is left in front of it.
LEMMA HeadInWire ==
  ASSUME NEW s \in Seq(SomeMessages), NEW n \in 1 .. Len(s)
  PROVE  LET w == Wire(s)
             p == Place(s, n)
         IN /\ w[p + 1] = HeadLine(n) /\ w[p + 2] = CR /\ w[p + 3] = LF
            /\ w[p + 4] = CR /\ w[p + 5] = LF
            /\ p \in Nat /\ p + 5 <= Len(w)
<1> DEFINE w == Wire(s)
           p == Place(s, n)
           e == Encoded(s, n)
           l == Len(Body(s[n]))
<1>1. /\ p \in Nat /\ Place(s, n + 1) = p + 5 + l /\ Place(s, n + 1) <= Len(w)
      /\ \A k \in 1 .. 5 + l : w[p + k] = e[k]
  BY PlaceIs
<1>2. e[1] = HeadLine(n) /\ e[2] = CR /\ e[3] = LF /\ e[4] = CR /\ e[5] = LF /\ l \in Nat
  BY EncodedIs
<1>3. Len(w) \in Nat
  BY EncodedsAre
<1> HIDE DEF w, p, e, l
<1>4. p + 5 <= Len(w)
  BY <1>1, <1>2, <1>3
<1>5. w[p + 1] = e[1] /\ w[p + 2] = e[2] /\ w[p + 3] = e[3] /\ w[p + 4] = e[4] /\ w[p + 5] = e[5]
  <2>1. 1 \in 1 .. 5 + l /\ 2 \in 1 .. 5 + l /\ 3 \in 1 .. 5 + l /\ 4 \in 1 .. 5 + l /\ 5 \in 1 .. 5 + l
    BY <1>2
  <2> QED BY <1>1, <2>1
<1> QED BY <1>1, <1>2, <1>4, <1>5 DEF w, p

\* The content of a message in the stream.
LEMMA BodyInWire ==
  ASSUME NEW s \in Seq(SomeMessages), NEW n \in 1 .. Len(s)
  PROVE  /\ \A k \in 1 .. Len(Body(s[n])) : Wire(s)[Place(s, n) + 5 + k] = Body(s[n])[k]
         /\ Len(Body(s[n])) \in Nat /\ Place(s, n) \in Nat
<1> DEFINE l == Len(Body(s[n]))
           p == Place(s, n)
           w == Wire(s)
<1>1. p \in Nat /\ \A k \in 1 .. 5 + l : w[p + k] = Encoded(s, n)[k]
  BY PlaceIs
<1>2. l \in Nat /\ \A k \in 1 .. l : Encoded(s, n)[5 + k] = Body(s[n])[k]
  BY EncodedIs
<1> HIDE DEF l, p, w
<1>3. ASSUME NEW k \in 1 .. l PROVE w[p + 5 + k] = Body(s[n])[k]
  <2>1. 5 + k \in 1 .. 5 + l /\ p + (5 + k) = p + 5 + k
    BY <1>1, <1>2
  <2> QED BY <1>1, <1>2, <2>1
<1> QED BY <1>1, <1>2, <1>3 DEF l, p, w

LEMMA LeftInWire ==
  ASSUME NEW s \in Seq(SomeMessages), NEW n \in 1 .. Len(s) + 1
  PROVE  LET l == LeftLen(s, n)
             p == Place(s, n)
         IN /\ l \in Nat /\ p \in Nat /\ p - l \in Nat /\ p <= Len(Wire(s))
            /\ Left(s, n) \in Seq(Tokens) /\ Len(Left(s, n)) = l
            /\ \A i \in 1 .. l : Wire(s)[(p - l) + i] = Left(s, n)[i]
<1> DEFINE l == LeftLen(s, n)
           p == Place(s, n)
           w == Wire(s)
           left == Left(s, n)
           Found == p - l \in Nat /\ \A i \in 1 .. l : w[(p - l) + i] = left[i]
<1>1. Len(s) \in Nat /\ n \in Nat /\ Len(s) + 1 \in n .. Len(s) + 1
  BY LenProperties
<1>2. p \in Nat /\ p <= Len(w)
  BY <1>1, PlaceGrows, PlaceEnds
<1>3. left \in Seq(Tokens) /\ Len(left) = l /\ l \in Nat
  BY LeftIs DEF LeftLen
<1>4. ASSUME l = 0 PROVE Found
  <2> HIDE DEF l, p, w, left
  <2> QED BY <1>2, <1>4
<1>5. CASE n = 1
  <2>1. l = 0
    BY <1>5, LeftIs
  <2> QED BY <1>2, <1>3, <1>4, <2>1
<1>6. CASE n > 1
  <2> DEFINE k == n - 1
             m == s[k]
  <2>1. k \in 1 .. Len(s) /\ left = Leftover(m) /\ k + 1 = n
    BY <1>1, <1>6, LeftIs
  <2> HIDE DEF k
  <2>2. m \in SomeMessages /\ m.kind \in MessageKinds
    BY <2>1, EncodedIs, PartsAre
  <2>3. CASE m.kind \in {"length", "huge"}
    <3>1. l = 0
      BY <1>3, <2>1, <2>2, <2>3, LeftoverIs
    <3> QED BY <1>2, <1>3, <1>4, <3>1
  <2>4. CASE m.kind \in {"max", "unread"}
    <3> DEFINE d == Len(Body(m))
    <3>1. left = Body(m) /\ l = d
      BY <1>3, <2>1, <2>2, <2>4, LeftoverIs
    <3>2. /\ p = Place(s, k) + 5 + d /\ Place(s, k) \in Nat
          /\ \A i \in 1 .. d : w[Place(s, k) + 5 + i] = Body(m)[i]
      BY <2>1, PlaceIs, BodyInWire
    <3> HIDE DEF l, p, w, left, d, m
    <3>3. p - l = Place(s, k) + 5
      BY <1>2, <1>3, <3>1, <3>2
    <3>4. Found
      BY <3>1, <3>2, <3>3
    <3> QED BY <1>2, <1>3, <3>4 DEF l, p, w, left
  <2>5. CASE m.kind = "chunked"
    <3> DEFINE c == Len(m.parts) + 1
               b == Base(s, k, c)
    <3>1. left = CRLF /\ l = 2
      BY <1>3, <2>1, <2>2, <2>5, LeftoverIs
    <3>2. Len(m.parts) \in Nat /\ AllParts(m)[c] = <<>> /\ Len(<<>>) = 0
      BY <2>2, PartsAre
    <3>3. c \in 1 .. Len(m.parts) + 1 /\ c + 1 = Len(m.parts) + 2
      BY <3>2
    <3>4. /\ b \in Nat /\ Base(s, k, c + 1) = b + 5 + Len(AllParts(m)[c])
          /\ ChunkIn(w, b, AllParts(m)[c])
          /\ Base(s, k, Len(m.parts) + 2) = Place(s, k + 1)
      BY <2>1, <2>5, <3>3, BaseIs
    <3> HIDE DEF b, c, m, l, left, p, w
    <3>5. p = b + 5
      BY <2>1, <3>2, <3>3, <3>4 DEF p
    <3>6. w[b + 4 + 0] = CR /\ w[b + 5 + 0] = LF
      BY <3>2, <3>4 DEF ChunkIn
    <3>7. p - l \in Nat /\ (p - l) + 1 = b + 4 + 0 /\ (p - l) + 2 = b + 5 + 0
      BY <3>1, <3>4, <3>5
    <3>8. CRLF[1] = CR /\ CRLF[2] = LF
      BY LineEnd
    <3>9. \A i \in 1 .. l : i = 1 \/ i = 2
      BY <3>1
    <3>10. w[(p - l) + 1] = left[1] /\ w[(p - l) + 2] = left[2]
      BY <3>1, <3>6, <3>7, <3>8, Zenon
    <3>11. Found
      BY <3>7, <3>9, <3>10
    <3> QED BY <1>2, <1>3, <3>11 DEF l, p, w, left
  <2> QED BY <2>2, <2>3, <2>4, <2>5 DEF MessageKinds
<1> QED BY <1>1, <1>5, <1>6

LEMMA HeaderFound ==
  ASSUME Window, NEW n \in 1 .. Len(stream) + 1, AtHeader(n)
  PROVE  IF n <= Len(stream) /\ Len(raw) >= LeftLen(stream, n) + 5
         THEN Find(CRLF \o CRLF, raw) = LeftLen(stream, n) + 2
         ELSE Find(CRLF \o CRLF, raw) = 0
<1> DEFINE l == LeftLen(stream, n)
           p == Place(stream, n)
           q == CRLF \o CRLF
           w == Wire(stream)
           left == Left(stream, n)
<1>1. /\ stream \in Seq(SomeMessages) /\ raw \in Seq(Tokens) /\ Len(raw) \in Nat
      /\ Consumed \in Nat /\ Consumed + Len(raw) <= Len(w) /\ Len(w) \in Nat /\ Len(stream) \in Nat
  BY StreamIs
<1>2. Consumed = p - l /\ p \in Nat /\ p <= Len(w) /\ l \in Nat
      /\ \A i \in 1 .. l : w[(p - l) + i] = left[i]
  BY <1>1, LeftInWire DEF AtHeader
<1>3. \A i \in 1 .. Len(raw) : raw[i] = w[Consumed + i]
  BY DEF Window
<1>4. q \in Seq(Tokens)
  BY DoubleLineEnd
<1>5. \A i \in 1 .. Len(raw) : Occurs(q, raw, i) <=>
        i + 3 <= Len(raw) /\ raw[i] = CR /\ raw[i + 1] = LF /\ raw[i + 2] = CR /\ raw[i + 3] = LF
  BY <1>1, FourOccur
<1>6. \A i \in 1 .. l - 3 :
        ~ (left[i] = CR /\ left[i + 1] = LF /\ left[i + 2] = CR /\ left[i + 3] = LF)
  BY HeadlessLeft DEF Window, LeftLen
<1> HIDE DEF l, p, w, q, left
<1>0. Len(raw) \in Nat /\ l \in Nat
  BY <1>1, <1>2
<1>7. ASSUME NEW i \in 1 .. Len(raw), i + 3 <= l PROVE ~ Occurs(q, raw, i)
  <2> SUFFICES ASSUME i + 3 <= Len(raw), raw[i] = CR, raw[i + 1] = LF, raw[i + 2] = CR,
                      raw[i + 3] = LF
               PROVE  FALSE
    BY <1>5
  <2>1. ASSUME NEW j \in 1 .. l, j <= Len(raw) PROVE raw[j] = left[j]
    <3>1. j \in 1 .. Len(raw)
      BY <1>0, <2>1
    <3>2. raw[j] = w[Consumed + j] /\ w[(p - l) + j] = left[j]
      BY <1>2, <1>3, <3>1
    <3> QED BY <1>2, <3>2
  <2>2. /\ i \in 1 .. l /\ i + 1 \in 1 .. l /\ i + 2 \in 1 .. l /\ i + 3 \in 1 .. l
        /\ i <= Len(raw) /\ i + 1 <= Len(raw) /\ i + 2 <= Len(raw) /\ i + 3 <= Len(raw)
        /\ i \in 1 .. l - 3
    BY <1>0, <1>7
  <2>3. left[i] = CR /\ left[i + 1] = LF /\ left[i + 2] = CR /\ left[i + 3] = LF
    BY <2>1, <2>2
  <2> QED BY <1>6, <2>2, <2>3
<1>8. CASE n = Len(stream) + 1
  <2>1. p = Len(w)
    BY <1>1, <1>8, PlaceEnds DEF p, w
  <2>2. Len(raw) <= l
    BY <1>1, <1>2, <2>1
  <2>3. \A i \in 1 .. Len(raw) : i + 3 <= Len(raw) => i + 3 <= l
    BY <1>1, <1>2, <2>2
  <2>4. \A i \in 1 .. Len(raw) : ~ Occurs(q, raw, i)
    BY <1>5, <1>7, <2>3
  <2>5. Find(q, raw) = 0
    BY <1>1, <1>4, <2>4, FindIs
  <2>6. ~ (n <= Len(stream))
    BY <1>1, <1>8
  <2> QED BY <2>5, <2>6 DEF q
<1>9. CASE n \in 1 .. Len(stream)
  <2>1. w[p + 1] = HeadLine(n) /\ w[p + 2] = CR /\ w[p + 3] = LF /\ w[p + 4] = CR /\ w[p + 5] = LF
    BY <1>1, <1>9, HeadInWire DEF w, p
  <2>2. HeadLine(n) # CR /\ HeadLine(n) # LF /\ n <= Len(stream)
    BY <1>1, <1>9, TokensDiffer
  <2>3. \A j \in 1 .. 5 : l + j <= Len(raw) => raw[l + j] = w[p + j]
    <3> TAKE j \in 1 .. 5
    <3>1. l + j <= Len(raw) => l + j \in 1 .. Len(raw) /\ Consumed + (l + j) = p + j
      BY <1>1, <1>2
    <3> QED BY <1>3, <3>1
  <2>4. /\ l + 1 <= Len(raw) => raw[l + 1] = HeadLine(n)
        /\ l + 2 <= Len(raw) => raw[l + 2] = CR
        /\ l + 3 <= Len(raw) => raw[l + 3] = LF
        /\ l + 4 <= Len(raw) => raw[l + 4] = CR
        /\ l + 5 <= Len(raw) => raw[l + 5] = LF
    BY <2>1, <2>3
  <2>5. ASSUME NEW i \in 1 .. Len(raw), i <= l + 1 PROVE ~ Occurs(q, raw, i)
    <3>1. CASE i + 3 <= l
      BY <1>7, <3>1
    <3>2. CASE l + 1 <= i + 3
      <4> SUFFICES ASSUME i + 3 <= Len(raw), raw[i] = CR, raw[i + 1] = LF, raw[i + 2] = CR,
                          raw[i + 3] = LF
                   PROVE  FALSE
        BY <1>5
      <4>1. l + 1 <= Len(raw) /\ (l + 1 = i \/ l + 1 = i + 1 \/ l + 1 = i + 2 \/ l + 1 = i + 3)
        BY <1>1, <1>2, <2>5, <3>2
      <4>2. raw[l + 1] = CR \/ raw[l + 1] = LF
        BY <4>1
      <4> QED BY <2>2, <2>4, <4>1, <4>2
    <3> QED BY <1>2, <3>1, <3>2
  <2>6. CASE Len(raw) >= l + 5
    <3>1. l + 2 \in 1 .. Len(raw) /\ l + 2 + 3 <= Len(raw)
          /\ l + 2 + 1 = l + 3 /\ l + 2 + 2 = l + 4 /\ l + 2 + 3 = l + 5
      BY <1>1, <1>2, <2>6
    <3>2. raw[l + 2] = CR /\ raw[l + 2 + 1] = LF /\ raw[l + 2 + 2] = CR /\ raw[l + 2 + 3] = LF
      BY <1>1, <1>2, <2>4, <2>6, <3>1
    <3>3. Occurs(q, raw, l + 2)
      BY <1>5, <3>1, <3>2
    <3>4. \A i \in 1 .. Len(raw) : Occurs(q, raw, i) => l + 2 <= i
      <4>1. \A i \in 1 .. Len(raw) : i <= l + 1 \/ l + 2 <= i
        BY <1>1, <1>2
      <4> QED BY <2>5, <4>1
    <3>5. Find(q, raw) = l + 2
      BY <1>1, <1>4, <3>1, <3>3, <3>4, FindIs
    <3> QED BY <2>2, <2>6, <3>5 DEF l, q
  <2>7. CASE ~ (Len(raw) >= l + 5)
    <3>1. \A i \in 1 .. Len(raw) : i + 3 <= Len(raw) => i <= l + 1
      BY <1>1, <1>2, <2>7
    <3>2. \A i \in 1 .. Len(raw) : ~ Occurs(q, raw, i)
      BY <1>5, <2>5, <3>1
    <3>3. Find(q, raw) = 0
      BY <1>1, <1>4, <3>2, FindIs
    <3> QED BY <2>7, <3>3 DEF l, q
  <2> QED BY <2>6, <2>7
<1> QED BY <1>1, <1>8, <1>9

\* The line of a chunk's size.
LEMMA SizeFound ==
  ASSUME Window, NEW n \in 1 .. Len(stream), stream[n].kind = "chunked",
         NEW c \in 1 .. Len(stream[n].parts) + 1, Consumed = Base(stream, n, c)
  PROVE  IF Len(raw) >= 3
         THEN Find(CRLF, raw) = 2 /\ raw[1] = SizeLine(Len(AllParts(stream[n])[c]))
         ELSE Find(CRLF, raw) = 0
<1> DEFINE b == Base(stream, n, c)
           q == CRLF
           w == Wire(stream)
           x == SizeLine(Len(AllParts(stream[n])[c]))
<1>1. /\ stream \in Seq(SomeMessages) /\ raw \in Seq(Tokens) /\ Len(raw) \in Nat
  BY StreamIs
<1>2. b \in Nat /\ w[b + 1] = x /\ w[b + 2] = CR /\ w[b + 3] = LF /\ x # CR
  <2>1. /\ b \in Nat /\ Len(AllParts(stream[n])[c]) \in Nat
        /\ ChunkIn(w, b, AllParts(stream[n])[c])
    BY <1>1, BaseIs
  <2>2. x # CR
    BY <2>1, TokensDiffer
  <2> HIDE DEF b, w
  <2> QED BY <2>1, <2>2 DEF ChunkIn
<1>3. \A i \in 1 .. Len(raw) : raw[i] = w[b + i]
  BY DEF Window
<1>4. q \in Seq(Tokens)
  BY LineEnd
<1>5. \A i \in 1 .. Len(raw) : Occurs(q, raw, i) <=>
        i + 1 <= Len(raw) /\ raw[i] = CR /\ raw[i + 1] = LF
  BY <1>1, TwoOccur
<1> HIDE DEF b, w, x, q
<1>6. CASE Len(raw) >= 3
  <2>1. 1 \in 1 .. Len(raw) /\ 2 \in 1 .. Len(raw) /\ 3 \in 1 .. Len(raw) /\ 2 + 1 = 3 /\ 3 <= Len(raw)
    BY <1>1, <1>6
  <2>2. raw[1] = x /\ raw[2] = CR /\ raw[3] = LF
    BY <1>2, <1>3, <2>1
  <2>3. Occurs(q, raw, 2)
    BY <1>5, <2>1, <2>2
  <2>4. ~ Occurs(q, raw, 1)
    BY <1>2, <1>5, <2>1, <2>2
  <2>5. \A i \in 1 .. Len(raw) : i = 1 \/ 2 <= i
    BY <1>1
  <2>6. \A i \in 1 .. Len(raw) : Occurs(q, raw, i) => 2 <= i
    BY <2>4, <2>5
  <2>7. Find(q, raw) = 2
    BY <1>1, <1>4, <2>1, <2>3, <2>6, FindIs
  <2> QED BY <1>6, <2>2, <2>7 DEF q, x
<1>7. CASE ~ (Len(raw) >= 3)
  <2>1. \A i \in 1 .. Len(raw) : i + 1 <= Len(raw) => i = 1
    BY <1>1, <1>7
  <2>2. 1 \in 1 .. Len(raw) => raw[1] # CR
    BY <1>2, <1>3
  <2>3. \A i \in 1 .. Len(raw) : ~ Occurs(q, raw, i)
    BY <1>5, <2>1, <2>2
  <2>4. Find(q, raw) = 0
    BY <1>1, <1>4, <2>3, FindIs
  <2> QED BY <1>7, <2>4 DEF q
<1> QED BY <1>6, <1>7

\* Between a chunk's data and its CRLF, there is an empty line.
LEMMA SeamFound ==
  ASSUME Window, NEW n \in 1 .. Len(stream), stream[n].kind = "chunked",
         NEW c \in 1 .. Len(stream[n].parts), Consumed = Base(stream, n, c + 1) - 2
  PROVE  /\ Wire(stream)[Consumed + 1] = CR /\ Wire(stream)[Consumed + 2] = LF
         /\ Len(raw) >= 2 => Find(CRLF, raw) = 1
         /\ Len(raw) < 2 => Find(CRLF, raw) = 0
<1> DEFINE part == AllParts(stream[n])[c]
           b == Base(stream, n, c)
           l == Len(part)
           q == CRLF
           w == Wire(stream)
<1>1. stream \in Seq(SomeMessages) /\ raw \in Seq(Tokens) /\ Len(raw) \in Nat /\ Consumed \in Nat
  BY StreamIs
<1>2. c \in 1 .. Len(stream[n].parts) + 1
  <2>1. Len(stream[n].parts) \in Nat
    BY <1>1, EncodedIs, PartsAre
  <2> QED BY <2>1
<1>3. b \in Nat /\ l \in Nat /\ Base(stream, n, c + 1) = b + 5 + l /\ ChunkIn(w, b, part)
  BY <1>1, <1>2, BaseIs
<1>4. q \in Seq(Tokens)
  BY LineEnd
<1>5. \A i \in 1 .. Len(raw) : Occurs(q, raw, i) <=>
        i + 1 <= Len(raw) /\ raw[i] = CR /\ raw[i + 1] = LF
  BY <1>1, TwoOccur
<1>6. \A i \in 1 .. Len(raw) : raw[i] = w[Consumed + i]
  BY DEF Window
<1> HIDE DEF b, w, q, part, l
<1>7. Consumed + 1 = b + 4 + l /\ Consumed + 2 = b + 5 + l
  BY <1>3
<1>8. w[Consumed + 1] = CR /\ w[Consumed + 2] = LF
  BY <1>3, <1>7 DEF ChunkIn, l
<1>9. ASSUME Len(raw) >= 2 PROVE Find(q, raw) = 1
  <2>1. 1 \in 1 .. Len(raw) /\ 2 \in 1 .. Len(raw) /\ 1 + 1 = 2
    BY <1>1, <1>9
  <2>2. raw[1] = CR /\ raw[2] = LF
    BY <1>6, <1>8, <2>1
  <2>3. Occurs(q, raw, 1)
    BY <1>5, <1>9, <2>1, <2>2
  <2>4. \A i \in 1 .. Len(raw) : 1 <= i
    OBVIOUS
  <2> QED BY <1>1, <1>4, <2>1, <2>3, <2>4, FindIs
<1>10. ASSUME Len(raw) < 2 PROVE Find(q, raw) = 0
  <2>1. \A i \in 1 .. Len(raw) : ~ (i + 1 <= Len(raw))
    BY <1>1, <1>10
  <2>2. \A i \in 1 .. Len(raw) : ~ Occurs(q, raw, i)
    BY <1>5, <2>1
  <2> QED BY <1>1, <1>4, <2>2, FindIs
<1> QED BY <1>8, <1>9, <1>10 DEF q, w

-----------------------------------------------------------------------------
(* What the steps have in common.                                          *)

LEMMA ContextType ==
  ASSUME NEW s \in Seq(SomeMessages), NEW n \in 1 .. Len(s) + 1,
         NEW content \in Seq(Tokens), NEW remaining \in Nat
  PROVE  Context(s, n, content, remaining) \in Contexts
<1> DEFINE head == <<HeadLine(n)>>
<1>1. HeadLine(n) \in Tokens
  BY LenProperties, TokensDiffer
<1>2. head \in Seq(Tokens) /\ Left(s, n) \in Seq(Tokens) /\ Lines \in Seq(Tokens)
  BY <1>1, LeftIs, NoHeadsIn DEF NoHeads
<1> HIDE DEF head
<1>3. Rebuilt(head) \in Seq(Tokens)
  BY <1>2, RebuiltIs, CatType
<1>4. HeaderOf(s, n) \in Seq(Tokens)
  BY <1>2, <1>3, CatType DEF HeaderOf, head
<1> QED BY <1>4 DEF Context, Contexts

LEMMA FreshIs ==
  ASSUME NEW s, NEW n
  PROVE  /\ Fresh(HeaderOf(s, n)) = Context(s, n, <<>>, 0)
         /\ \A r : [Fresh(HeaderOf(s, n)) EXCEPT !.remaining = r] = Context(s, n, <<>>, r)
<1> DEFINE h == HeaderOf(s, n)
<1>1. Fresh(h) = [header |-> h, content |-> <<>>, remaining |-> 0]
  BY DEF Fresh, NoContext
<1>2. Context(s, n, <<>>, 0) = [header |-> h, content |-> <<>>, remaining |-> 0]
  BY Zenon DEF Context
<1>3. \A r : [Fresh(h) EXCEPT !.remaining = r] = [header |-> h, content |-> <<>>, remaining |-> r]
  BY <1>1
<1>4. \A r : Context(s, n, <<>>, r) = [header |-> h, content |-> <<>>, remaining |-> r]
  BY Zenon DEF Context
<1> QED BY <1>1, <1>2, <1>3, <1>4, Zenon

LEMMA FilledIs ==
  ASSUME NEW s, NEW n, NEW content, NEW remaining, tmp = Context(s, n, content, remaining),
         NEW k
  PROVE  /\ Filled(k) = Context(s, n, Cat(content, SubSeq(raw, 1, k)), remaining - k)
         /\ tmp.remaining = remaining
         /\ [tmp EXCEPT !.remaining = k] = Context(s, n, content, k)
<1> DEFINE h == HeaderOf(s, n)
           x == SubSeq(raw, 1, k)
           y == Cat(content, x)
<1>1. tmp = [header |-> h, content |-> content, remaining |-> remaining]
  BY Zenon DEF Context
<1>2. tmp.content = content /\ tmp.remaining = remaining
  BY <1>1
<1>3. Filled(k) = [[tmp EXCEPT !.content = Cat(tmp.content, x)] EXCEPT !.remaining = tmp.remaining - k]
  BY DEF Filled, Cat
<1> DEFINE q == remaining - k
<1>4. Cat(tmp.content, x) = y /\ tmp.remaining - k = q
  BY <1>2, Zenon
<1> HIDE DEF h, x, y, q
<1>5. Filled(k) = [header |-> h, content |-> y, remaining |-> q]
  <2> DEFINE g == [tmp EXCEPT !.content = y]
  <2>1. Filled(k) = [g EXCEPT !.remaining = q]
    BY <1>3, <1>4, Zenon
  <2>2. g = [header |-> h, content |-> y, remaining |-> remaining]
    BY <1>1
  <2> HIDE DEF g
  <2> QED BY <2>1, <2>2
<1>6. [tmp EXCEPT !.remaining = k] = [header |-> h, content |-> content, remaining |-> k]
  BY <1>1
<1> QED BY <1>2, <1>5, <1>6, Zenon DEF Context, h, x, y, q

LEMMA HandedType ==
  ASSUME NEW s \in Seq(SomeMessages), NEW n \in 1 .. Len(s)
  PROVE  Handed(s, n) \in Contexts
<1>1. s[n] \in SomeMessages /\ n \in 1 .. Len(s) + 1
  BY EncodedIs, LenProperties
<1>2. ContentOf(s[n]) \in Seq(Tokens)
  BY <1>1, PartsAre, FlattenType, EmptySeq DEF ContentOf
<1> QED BY <1>1, <1>2, ContextType DEF Handed

\* Tokens are taken from raw_buffer.
LEMMA Dropped ==
  ASSUME Window, NEW k \in 0 .. Len(raw), raw' = Drop(raw, k), UNCHANGED <<stream, fed>>
  PROVE  /\ Window' /\ Consumed' = Consumed + k /\ Len(raw') = Len(raw) - k
<1> DEFINE r == Drop(raw, k)
           w == Wire(stream)
<1>1. /\ raw \in Seq(Tokens) /\ Len(raw) \in Nat /\ fed \in Nat /\ Consumed \in Nat
      /\ Consumed + Len(raw) = fed
  BY StreamIs
<1>2. /\ r \in Seq(Tokens) /\ Len(r) = Len(raw) - k
      /\ \A i \in 1 .. Len(raw) - k : r[i] = raw[k + i]
  BY <1>1, DropIs
<1> HIDE DEF r, w
<1>3. raw' = r
  BY DEF r
<1>4. Consumed' = Consumed + k
  <2>1. Consumed' = fed - Len(raw') /\ Len(raw') = Len(raw) - k
    BY <1>2, <1>3, Zenon DEF Consumed
  <2>2. fed - (Len(raw) - k) = Consumed + k
    BY ONLY <1>1, k \in 0 .. Len(raw)
  <2> QED BY <2>1, <2>2, Zenon
<1>5. ASSUME NEW i \in 1 .. Len(r) PROVE r[i] = w[Consumed + k + i]
  <2>1. k + i \in 1 .. Len(raw) /\ Consumed + (k + i) = Consumed + k + i
    BY <1>1, <1>2
  <2>2. raw[k + i] = w[Consumed + (k + i)]
    BY <2>1 DEF Window, w
  <2> QED BY <1>2, <2>1, <2>2
<1>6. Len(r) <= fed
  BY <1>1, <1>2
<1>7. \A i \in 1 .. Len(raw') : raw'[i] = Wire(stream')[Consumed' + i]
  BY <1>3, <1>4, <1>5 DEF w
<1>8. stream' \in Streams /\ fed' \in 0 .. Len(Wire(stream')) /\ raw' \in Seq(Tokens) /\ Len(raw') <= fed'
  BY <1>2, <1>3, <1>6 DEF Window
<1> QED BY <1>2, <1>3, <1>4, <1>7, <1>8 DEF Window

LEMMA DropTwice ==
  ASSUME NEW s \in Seq(Tokens), NEW a \in Nat, NEW b \in Nat, a + b <= Len(s)
  PROVE  Drop(Drop(s, a), b) = Drop(s, a + b)
<1> DEFINE t == Drop(s, a)
           u == Drop(t, b)
           v == Drop(s, a + b)
<1>1. Len(s) \in Nat /\ a \in 0 .. Len(s) /\ a + b \in 0 .. Len(s)
  BY LenProperties
<1>2. t \in Seq(Tokens) /\ Len(t) = Len(s) - a /\ \A i \in 1 .. Len(s) - a : t[i] = s[a + i]
  BY <1>1, DropIs
<1> HIDE DEF t
<1>3. b \in 0 .. Len(t)
  BY <1>1, <1>2
<1>4. u \in Seq(Tokens) /\ Len(u) = Len(t) - b /\ \A i \in 1 .. Len(t) - b : u[i] = t[b + i]
  BY <1>2, <1>3, DropIs
<1>5. /\ v \in Seq(Tokens) /\ Len(v) = Len(s) - (a + b)
      /\ \A i \in 1 .. Len(s) - (a + b) : v[i] = s[(a + b) + i]
  BY <1>1, DropIs
<1> HIDE DEF u, v
<1>6. Len(u) = Len(v)
  BY <1>1, <1>2, <1>4, <1>5
<1>7. ASSUME NEW i \in 1 .. Len(u) PROVE u[i] = v[i]
  <2>1. i \in 1 .. Len(t) - b /\ b + i \in 1 .. Len(s) - a /\ i \in 1 .. Len(s) - (a + b)
        /\ a + (b + i) = (a + b) + i
    BY <1>1, <1>2, <1>4
  <2> QED BY <1>2, <1>4, <1>5, <2>1
<1>8. u = v
  BY <1>4, <1>5, <1>6, <1>7, SeqEqual
<1> QED BY <1>8 DEF t, u, v

LEMMA CutsStay ==
  ASSUME CutsKnown, UNCHANGED <<stream, fed, cuts>>
  PROVE  CutsKnown'
BY Zenon DEF CutsKnown

LEMMA HandedStay ==
  ASSUME NEW n, HandedBefore(n), UNCHANGED <<stream, delivered>>
  PROVE  HandedBefore(n)'
BY Zenon DEF HandedBefore

\* A message is handed over.
Delivers(n) ==
  /\ IsGood(stream[n])
  /\ HandedBefore(n)
  /\ CompleteAt(stream, n) <= fed
  /\ delivered' = Append(delivered, Handed(stream, n))

LEMMA HandsOver ==
  ASSUME stream \in Seq(SomeMessages), NEW n \in 1 .. Len(stream), Delivers(n),
         UNCHANGED stream
  PROVE  HandedBefore(n + 1)'
<1> DEFINE r == Rank(stream, n)
           h == Handed(stream, n)
<1>1. Len(stream) \in Nat
  BY LenProperties
<1>2. n \in GoodsOf(stream) /\ Below(stream, n + 1) = Below(stream, n) \cup {n}
      /\ Rank(stream, n + 1) = r + 1 /\ r \in Nat
  BY <1>1, RankNext, RankType DEF Delivers
<1>3. h \in Contexts
  BY HandedType
<1>4. /\ delivered \in Seq(Contexts) /\ Len(delivered) = r
      /\ \A k \in Below(stream, n) : delivered[Rank(stream, k) + 1] = Handed(stream, k)
  BY Zenon DEF Delivers, HandedBefore
<1>5. delivered' = Append(delivered, h)
  BY DEF Delivers
<1> HIDE DEF r, h
<1>6. /\ delivered' \in Seq(Contexts) /\ Len(delivered') = r + 1
      /\ \A i \in 1 .. r : delivered'[i] = delivered[i]
      /\ delivered'[r + 1] = h
  BY <1>3, <1>4, <1>5, AppendProperties
<1>7. ASSUME NEW k \in Below(stream, n) PROVE delivered'[Rank(stream, k) + 1] = Handed(stream, k)
  <2>1. k \in GoodsOf(stream) /\ k < n
    BY DEF Below
  <2>2. Rank(stream, k) + 1 <= r /\ Rank(stream, k) \in Nat
    BY <1>1, <2>1, RankGrows DEF r
  <2>3. Rank(stream, k) + 1 \in 1 .. r
    BY <1>2, <2>2
  <2> QED BY <1>4, <1>6, <2>3
<1>8. delivered'[Rank(stream, n) + 1] = Handed(stream, n)
  BY <1>6 DEF r, h
<1>9. \A k \in Below(stream, n + 1) : delivered'[Rank(stream, k) + 1] = Handed(stream, k)
  BY <1>2, <1>7, <1>8
<1> QED BY <1>2, <1>6, <1>9 DEF HandedBefore

LEMMA HandsNothing ==
  ASSUME stream \in Seq(SomeMessages), NEW n \in 1 .. Len(stream), ~ IsGood(stream[n]),
         HandedBefore(n), UNCHANGED <<stream, delivered>>
  PROVE  HandedBefore(n + 1)'
<1>1. Len(stream) \in Nat
  BY LenProperties
<1>2. Below(stream, n + 1) = Below(stream, n) /\ Rank(stream, n + 1) = Rank(stream, n)
  BY <1>1, RankNext
<1> QED BY <1>2, Zenon DEF HandedBefore

\* The parser has come to the next message.
LEMMA NextMessage ==
  ASSUME Window', stream \in Seq(SomeMessages), NEW n \in 1 .. Len(stream), UNCHANGED stream,
         Consumed' = Place(stream, n + 1) - LeftLen(stream, n + 1),
         state' = "READ_HEADERS", pc' # "wait",
         Delivers(n) \/ (~ IsGood(stream[n]) /\ HandedBefore(n) /\ UNCHANGED delivered)
  PROVE  \E k \in 1 .. Len(stream') + 1 : At(k)'
<1>1. Len(stream) \in Nat
  BY LenProperties
<1>2. HandedBefore(n + 1)'
  BY HandsOver, HandsNothing
<1>3. AtHeader(n + 1)'
  BY Zenon DEF AtHeader
<1>4. At(n + 1)'
  BY <1>2, <1>3 DEF At, Waiting
<1>5. n + 1 \in 1 .. Len(stream') + 1
  BY <1>1
<1> QED BY <1>4, <1>5

LEMMA MinOfTwo ==
  ASSUME NEW a \in Nat, NEW b \in Nat
  PROVE  Min({a, b}) \in {a, b} /\ Min({a, b}) <= a /\ Min({a, b}) <= b
<1>1. {a, b} \in SUBSET Nat /\ {a, b} # {}
  OBVIOUS
<1> QED BY <1>1, LeastElement

\* What a step does that the abstract specification sees.
Seen ==
  /\ UNCHANGED stream
  /\ \/ fed' \in fed .. Len(Wire(stream)) /\ UNCHANGED delivered
     \/ UNCHANGED fed /\ \E n \in 1 .. Len(stream) : Delivers(n)

-----------------------------------------------------------------------------
(* The invariant holds at first, and every step preserves it.              *)

LEMMA InitInvariant == Init => IInv
<1> SUFFICES ASSUME Init PROVE IInv
  OBVIOUS
<1> DEFINE s == stream
<1>1. s \in Streams /\ s \in Seq(SomeMessages) /\ fed = 0 /\ cuts = {} /\ raw = <<>>
      /\ state = "READ_HEADERS" /\ tmp = NoContext /\ delivered = <<>> /\ pc = "wait"
  BY StreamsAssumption DEF Init
<1>2. Len(s) \in Nat /\ Len(Wire(s)) \in Nat
  BY <1>1, EncodedsAre
<1>3. raw \in Seq(Tokens) /\ Len(raw) = 0
  BY <1>1, EmptySeq
<1>4. Window /\ Consumed = 0
  <2>1. Consumed = 0
    <3>1. Consumed = 0 - 0
      BY <1>1, <1>3, Zenon DEF Consumed
    <3> QED BY <3>1
  <2> QED BY <1>1, <1>2, <1>3, <2>1 DEF Window
<1>5. CutsKnown
  BY <1>1 DEF CutsKnown
<1>6. tmp \in Contexts
  BY <1>1, EmptySeq DEF NoContext, Contexts
<1>7. HandedBefore(1)
  <2>1. Below(s, 1) = {}
    BY DEF Below, GoodsOf
  <2>2. Rank(s, 1) = 0
    BY <2>1, FS_EmptySet DEF Rank
  <2>3. delivered \in Seq(Contexts) /\ Len(delivered) = 0
    BY <1>1, EmptySeq
  <2> QED BY <2>1, <2>2, <2>3 DEF HandedBefore
<1>8. AtHeader(1)
  <2>1. Place(s, 1) = 0 /\ LeftLen(s, 1) = 0
    BY <1>1, <1>2, PlaceEnds, LeftIs
  <2> QED BY <1>1, <1>4, <2>1 DEF AtHeader
<1>9. At(1)
  BY <1>1, <1>7, <1>8 DEF At, Waiting
<1>10. 1 \in 1 .. Len(s) + 1
  BY <1>2
<1> QED BY <1>1, <1>4, <1>5, <1>6, <1>9, <1>10 DEF IInv

\* While the worker lives, the parser is somewhere.
LEMMA Somewhere ==
  ASSUME IInv, pc # "killed"
  PROVE  /\ Window /\ CutsKnown /\ tmp \in Contexts
         /\ \E n \in 1 .. Len(stream) + 1 : At(n)
BY DEF IInv

\* Only pc changes, to or within the loops.
LEMMA Moves ==
  ASSUME IInv, NEW n \in 1 .. Len(stream) + 1, At(n),
         UNCHANGED <<stream, fed, cuts, raw, state, tmp, delivered>>,
         \/ pc' \in {"parse", "chunk"} /\ pc # "wait"
         \/ /\ pc' = "wait"
            /\ \/ raw = <<>>
               \/ AtHeader(n) /\ (n <= Len(stream) => fed < Place(stream, n) + 5)
  PROVE  IInv' /\ Seen
<1>1. Window' /\ Consumed' = Consumed
  BY Zenon DEF IInv, Window, Consumed
<1>2. CutsKnown' /\ HandedBefore(n)'
  BY CutsStay, HandedStay DEF IInv, At
<1>3. AtHeader(n) => AtHeader(n)'
  BY <1>1, Zenon DEF AtHeader
<1>4. InBody(n) => InBody(n)'
  BY <1>1, Zenon DEF InBody
<1>5. AtSize(n) => AtSize(n)'
  <2> SUFFICES ASSUME AtSize(n) PROVE AtSize(n)'
    OBVIOUS
  <2>1. PICK c \in 1 .. Len(stream[n].parts) + 1 :
          /\ tmp = Context(stream, n, Parts(stream, n, c - 1), 0)
          /\ \/ Consumed = Base(stream, n, c)
             \/ /\ c > 1
                /\ Consumed = Base(stream, n, c) - 2
                /\ "seam" \in cuts \/ (pc # "wait" /\ Len(raw) = 1)
    BY Zenon DEF AtSize
  <2>2. Len(raw) = 1 => pc' # "wait"
    <3>1. Len(<<>>) # 1
      OBVIOUS
    <3>2. ~ AtHeader(n)
      BY DEF AtSize, AtHeader
    <3> QED BY <3>1, <3>2
  <2>3. \/ Consumed' = Base(stream', n, c)
        \/ /\ c > 1
           /\ Consumed' = Base(stream', n, c) - 2
           /\ "seam" \in cuts' \/ (pc' # "wait" /\ Len(raw') = 1)
    BY <1>1, <2>1, <2>2, Zenon
  <2> QED BY <2>1, <2>3, Zenon DEF AtSize
<1>6. InChunk(n) => InChunk(n)'
  BY <1>1, Zenon DEF InChunk
<1>7. Waiting(n)'
  BY <1>3 DEF Waiting
<1>8. At(n)'
  BY <1>2, <1>3, <1>4, <1>5, <1>6, <1>7 DEF At
<1>9. tmp' \in Contexts /\ pc' \in {"wait", "parse", "chunk"} /\ n \in 1 .. Len(stream') + 1
  BY DEF IInv
<1>10. IInv'
  BY <1>1, <1>2, <1>8, <1>9 DEF IInv
<1>11. Seen
  <2>1. fed \in fed .. Len(Wire(stream))
    BY StreamIs DEF IInv
  <2> QED BY <2>1 DEF Seen
<1> QED BY <1>10, <1>11

LEMMA ReadKeeps == IInv /\ Read => IInv' /\ Seen
<1> SUFFICES ASSUME IInv, Read PROVE IInv' /\ Seen
  OBVIOUS
<1> DEFINE w == Wire(stream)
<1>1. /\ pc = "wait" /\ pc' = "parse"
      /\ UNCHANGED <<stream, state, tmp, delivered>>
  BY DEF Read
<1>2. PICK upto \in fed + 1 .. Len(w) :
        /\ raw' = Cat(raw, SubSeq(w, fed + 1, upto))
        /\ fed' = upto
        /\ cuts' = cuts \cup {Cuts(stream)[upto]}
  BY Zenon DEF Read, Cat
<1>3. /\ stream \in Seq(SomeMessages) /\ Len(stream) \in Nat
      /\ raw \in Seq(Tokens) /\ Len(raw) \in Nat /\ fed \in Nat /\ Consumed \in Nat
      /\ w \in Seq(Tokens) /\ Len(w) \in Nat /\ Consumed + Len(raw) = fed /\ fed <= Len(w)
  BY StreamIs DEF IInv
<1> DEFINE new == SubSeq(w, fed + 1, upto)
           all == Cat(raw, new)
<1>4. upto \in Nat /\ fed <= upto /\ upto <= Len(w) /\ fed \in 0 .. Len(w) /\ upto \in fed .. Len(w)
  BY <1>3
<1> HIDE DEF w
<1>5. /\ new \in Seq(Tokens) /\ Len(new) = upto - fed
      /\ \A i \in 1 .. upto - fed : new[i] = w[fed + i]
  BY <1>3, <1>4, PieceIs
<1> HIDE DEF new
<1>6. Joins(all, Tokens, raw, new)
  BY <1>3, <1>5, CatJoins
<1>7. raw' = all
  BY <1>2 DEF new
<1> HIDE DEF all
<1>8. Len(all) = Len(raw) + (upto - fed) /\ all \in Seq(Tokens)
  BY <1>5, <1>6 DEF Joins
<1>9. Consumed' = Consumed
  <2>1. Consumed' = upto - (Len(raw) + (upto - fed))
    BY <1>2, <1>7, <1>8, Zenon DEF Consumed
  <2>2. upto - (Len(raw) + (upto - fed)) = Consumed
    <3>1. /\ Len(raw) \in Nat /\ fed \in Nat /\ Consumed \in Nat /\ upto \in Nat
          /\ Consumed + Len(raw) = fed
      BY <1>3, <1>4
    <3> QED BY ONLY <3>1
  <2> QED BY <2>1, <2>2, Zenon
<1>10. ASSUME NEW i \in 1 .. Len(all) PROVE all[i] = w[Consumed + i]
  <2>1. CASE i <= Len(raw)
    <3>1. i \in 1 .. Len(raw)
      BY <1>3, <2>1
    <3>2. all[i] = raw[i]
      BY <1>6, <3>1 DEF Joins
    <3>3. raw[i] = w[Consumed + i]
      BY <3>1 DEF IInv, Window, w
    <3> QED BY <3>2, <3>3
  <2>2. CASE i > Len(raw)
    <3>1. i - Len(raw) \in 1 .. upto - fed /\ Len(raw) + (i - Len(raw)) = i
          /\ fed + (i - Len(raw)) = Consumed + i
      <4>1. i \in Nat /\ i <= Len(raw) + (upto - fed) /\ i > Len(raw)
        BY <1>8, <2>2
      <4>2. /\ Len(raw) \in Nat /\ fed \in Nat /\ Consumed \in Nat /\ upto \in Nat
            /\ Consumed + Len(raw) = fed
        BY <1>3, <1>4
      <4> QED BY ONLY <4>1, <4>2
    <3>2. all[Len(raw) + (i - Len(raw))] = new[i - Len(raw)]
      BY <1>5, <1>6, <3>1 DEF Joins
    <3>3. new[i - Len(raw)] = w[fed + (i - Len(raw))]
      BY <1>5, <3>1
    <3> QED BY <3>1, <3>2, <3>3
  <2> QED BY <1>3, <1>8, <2>1, <2>2
<1>11. Window'
  <2>1. Len(all) <= upto
    BY <1>3, <1>4, <1>8
  <2>2. \A i \in 1 .. Len(raw') : raw'[i] = Wire(stream')[Consumed' + i]
    BY <1>1, <1>7, <1>9, <1>10 DEF w
  <2>3. stream' \in Streams /\ fed' \in 0 .. Len(Wire(stream'))
    BY <1>1, <1>2, <1>3, <1>4 DEF IInv, Window, w
  <2> QED BY <1>2, <1>7, <1>8, <2>1, <2>2, <2>3 DEF Window
<1>12. CutsKnown'
  <2> DEFINE c == Cuts(stream)
  <2>1. c \in Seq(CutKinds) /\ upto \in 1 .. Len(c)
    BY <1>3, <1>4, CutsAre DEF w
  <2> HIDE DEF c
  <2>2. c[upto] \in CutKinds
    BY <2>1, ElementOfSeq
  <2>3. cuts' \subseteq CutKinds
    BY <1>2, <2>2 DEF IInv, CutsKnown, CutKinds, c
  <2>4. Cuts(stream')[fed'] \in cuts'
    BY <1>1, <1>2
  <2> QED BY <2>3, <2>4 DEF CutsKnown, CutKinds
<1>13. PICK n \in 1 .. Len(stream) + 1 : At(n)
  BY <1>1 DEF IInv
<1>14. HandedBefore(n)'
  BY <1>1, <1>13, HandedStay DEF At
<1>15. AtHeader(n) => AtHeader(n)'
  BY <1>1, <1>9, Zenon DEF AtHeader
<1>16. InBody(n) => InBody(n)'
  BY <1>1, <1>9, Zenon DEF InBody
<1>17. AtSize(n) => AtSize(n)'
  <2>1. "seam" \in cuts \/ (pc # "wait" /\ Len(raw) = 1) => "seam" \in cuts'
    BY <1>1, <1>2
  <2> QED BY <1>1, <1>9, <2>1, Zenon DEF AtSize
<1>18. InChunk(n) => InChunk(n)'
  BY <1>1, <1>9, Zenon DEF InChunk
<1>19. At(n)'
  BY <1>1, <1>13, <1>14, <1>15, <1>16, <1>17, <1>18 DEF At, Waiting
<1>20. tmp' \in Contexts /\ n \in 1 .. Len(stream') + 1
  BY <1>1 DEF IInv
<1>21. IInv'
  BY <1>1, <1>11, <1>12, <1>19, <1>20 DEF IInv
<1>22. Seen
  <2>1. fed' \in fed .. Len(Wire(stream))
    BY <1>2, <1>4 DEF w
  <2> QED BY <1>1, <2>1 DEF Seen
<1> QED BY <1>21, <1>22

LEMMA ParseEndsKeeps == IInv /\ ParseEnds => IInv' /\ Seen
<1> SUFFICES ASSUME IInv, ParseEnds PROVE IInv' /\ Seen
  OBVIOUS
<1>1. /\ pc = "parse" /\ raw = <<>> /\ pc' = "wait"
      /\ UNCHANGED <<stream, fed, cuts, raw, state, tmp, delivered>>
  BY DEF ParseEnds
<1>2. PICK n \in 1 .. Len(stream) + 1 : At(n)
  BY <1>1 DEF IInv
<1> QED BY <1>1, <1>2, Moves

LEMMA HeaderIncompleteKeeps == IInv /\ HeaderIncomplete => IInv' /\ Seen
<1> SUFFICES ASSUME IInv, HeaderIncomplete PROVE IInv' /\ Seen
  OBVIOUS
<1>1. /\ pc = "parse" /\ state = "READ_HEADERS" /\ Find(CRLF \o CRLF, raw) = 0 /\ pc' = "wait"
      /\ UNCHANGED <<stream, fed, cuts, raw, state, tmp, delivered>>
  BY Zenon DEF HeaderIncomplete
<1>2. PICK n \in 1 .. Len(stream) + 1 : At(n)
  BY <1>1 DEF IInv
<1>3. AtHeader(n)
  BY <1>1, <1>2 DEF At, InBody, AtSize, InChunk
<1>4. ASSUME n <= Len(stream) PROVE fed < Place(stream, n) + 5
  <2> DEFINE l == LeftLen(stream, n)
             p == Place(stream, n)
  <2>1. Window
    BY DEF IInv
  <2>2. /\ stream \in Seq(SomeMessages) /\ Len(raw) \in Nat /\ Consumed + Len(raw) = fed
        /\ Consumed \in Nat
    BY <2>1, StreamIs
  <2>3. l \in Nat /\ p \in Nat /\ Consumed = p - l
    BY <1>3, <2>2, LeftInWire DEF AtHeader
  <2>4. Len(raw) < l + 5
    <3>1. ~ (Len(raw) >= l + 5)
      <4> SUFFICES ASSUME Len(raw) >= l + 5 PROVE FALSE
        OBVIOUS
      <4>1. Find(CRLF \o CRLF, raw) = l + 2
        BY <1>3, <1>4, <2>1, HeaderFound
      <4> HIDE DEF l
      <4> QED BY <1>1, <2>3, <4>1
    <3> HIDE DEF l
    <3> QED BY <2>2, <2>3, <3>1
  <2> HIDE DEF l, p
  <2>5. fed < p + 5
    BY <2>2, <2>3, <2>4
  <2> QED BY <2>5 DEF p
<1> QED BY <1>1, <1>2, <1>3, <1>4, Moves

LEMMA EnterChunkedKeeps == IInv /\ EnterChunked => IInv' /\ Seen
<1> SUFFICES ASSUME IInv, EnterChunked PROVE IInv' /\ Seen
  OBVIOUS
<1>1. /\ pc = "parse" /\ pc' = "chunk"
      /\ UNCHANGED <<stream, fed, cuts, raw, state, tmp, delivered>>
  BY DEF EnterChunked
<1>2. PICK n \in 1 .. Len(stream) + 1 : At(n)
  BY <1>1 DEF IInv
<1> QED BY <1>1, <1>2, Moves

LEMMA ChunkedEndsKeeps == IInv /\ ChunkedEnds => IInv' /\ Seen
<1> SUFFICES ASSUME IInv, ChunkedEnds PROVE IInv' /\ Seen
  OBVIOUS
<1>1. /\ pc = "chunk" /\ pc' = "parse"
      /\ UNCHANGED <<stream, fed, cuts, raw, state, tmp, delivered>>
  BY Zenon DEF ChunkedEnds
<1>2. PICK n \in 1 .. Len(stream) + 1 : At(n)
  BY <1>1 DEF IInv
<1> QED BY <1>1, <1>2, Moves

\* What is taken for the header of the n-th message is that header, behind
\* what the message before it has left.
LEMMA HeaderRead ==
  ASSUME Window, NEW n \in 1 .. Len(stream), AtHeader(n),
         Len(raw) >= LeftLen(stream, n) + 5
  PROVE  SubSeq(raw, 1, LeftLen(stream, n) + 1) =
           Cat(Left(stream, n), One(HeadLine(n)))
<1> DEFINE l == LeftLen(stream, n)
           p == Place(stream, n)
           left == Left(stream, n)
           one == One(HeadLine(n))
           w == Wire(stream)
           a == SubSeq(raw, 1, l + 1)
           b == Cat(left, one)
<1>1. /\ stream \in Seq(SomeMessages) /\ raw \in Seq(Tokens) /\ Len(raw) \in Nat
      /\ Len(stream) \in Nat /\ n \in 1 .. Len(stream) + 1 /\ n \in Nat
  BY StreamIs
<1>2. /\ Consumed = p - l /\ p \in Nat /\ l \in Nat
      /\ left \in Seq(Tokens) /\ Len(left) = l
      /\ \A i \in 1 .. l : w[(p - l) + i] = left[i]
  BY <1>1, LeftInWire DEF AtHeader
<1>3. \A i \in 1 .. Len(raw) : raw[i] = w[Consumed + i]
  BY DEF Window
<1>4. w[p + 1] = HeadLine(n)
  BY <1>1, HeadInWire
<1>6. one \in Seq(Tokens) /\ Len(one) = 1 /\ one[1] = HeadLine(n)
  BY <1>1, TokensDiffer, OneType
<1> HIDE DEF l, p, left, one, w
<1>7. l + 1 \in 0 .. Len(raw) /\ l + 1 <= Len(raw)
  <2>1. Len(raw) >= l + 5
    BY DEF l
  <2> QED BY <1>1, <1>2, <2>1
<1>8. a \in Seq(Tokens) /\ Len(a) = l + 1 /\ \A i \in 1 .. l + 1 : a[i] = raw[i]
  BY <1>1, <1>7, TakeIs
<1>9. Joins(b, Tokens, left, one)
  BY <1>2, <1>6, CatJoins
<1> HIDE DEF a, b
<1>10. b \in Seq(Tokens) /\ Len(b) = l + 1
  BY <1>2, <1>6, <1>9 DEF Joins
<1>11. a[l + 1] = b[l + 1]
  <2>1. b[l + 1] = HeadLine(n)
    BY <1>2, <1>6, <1>9 DEF Joins
  <2>2. l + 1 \in 1 .. l + 1 /\ l + 1 \in 1 .. Len(raw) /\ Consumed + (l + 1) = p + 1
    <3>1. Consumed = p - l /\ p \in Nat /\ l \in Nat
      BY <1>2
    <3> QED BY <1>1, <1>7, <3>1
  <2> QED BY <1>3, <1>4, <1>8, <2>1, <2>2
<1>12. ASSUME NEW i \in 1 .. l PROVE a[i] = b[i]
  <2>1. b[i] = left[i]
    BY <1>2, <1>9, <1>12 DEF Joins
  <2>2. i \in 1 .. l + 1 /\ i \in 1 .. Len(raw)
    BY <1>1, <1>2, <1>7, <1>12
  <2>3. raw[i] = w[(p - l) + i]
    BY <1>2, <1>3, <2>2
  <2> QED BY <1>2, <1>8, <1>12, <2>1, <2>2, <2>3
<1>13. \A i \in 1 .. l + 1 : a[i] = b[i]
  <2>1. \A i \in 1 .. l + 1 : i = l + 1 \/ i \in 1 .. l
    BY <1>2
  <2> QED BY <1>11, <1>12, <2>1
<1>14. a = b
  BY <1>8, <1>10, <1>13, SeqEqual
<1> QED BY <1>14 DEF a, b, l, left, one

LEMMA ParseHeaderKeeps == IInv /\ ParseHeader => IInv' /\ Seen
<1> SUFFICES ASSUME IInv, ParseHeader PROVE IInv' /\ Seen
  OBVIOUS
<1> DEFINE end == Find(CRLF \o CRLF, raw)
           header == SubSeq(raw, 1, end - 1)
           m == Announced(header)
           context == Fresh(Rebuilt(header))
           length == Len(ContentOf(m))
<1>1. /\ pc = "parse" /\ state = "READ_HEADERS" /\ end # 0
      /\ UNCHANGED <<stream, fed, cuts>>
  BY Zenon DEF ParseHeader
<1>2. \/ /\ m.kind = "chunked"
         /\ state' = "READ_CHUNK_SIZE"
         /\ tmp' = context
         /\ UNCHANGED <<delivered, pc>>
      \/ /\ m.kind = "max"
         /\ tmp' = context
         /\ UNCHANGED <<state, delivered, pc>>
      \/ /\ m.kind = "huge"
         /\ pc' = "killed"
         /\ tmp' = context
         /\ state' = "READ_BODY"
         /\ UNCHANGED delivered
      \/ /\ m.kind \in {"length", "unread"}
         /\ length = 0
         /\ tmp' = context
         /\ Deliver(context)
         /\ UNCHANGED <<state, pc>>
      \/ /\ m.kind = "length"
         /\ length > 0
         /\ tmp' = [context EXCEPT !.remaining = length]
         /\ state' = "READ_BODY"
         /\ UNCHANGED <<delivered, pc>>
  BY Zenon DEF ParseHeader
<1>3. raw' = IF m.kind = "huge" THEN raw ELSE AfterHeader(end)
  BY Zenon DEF ParseHeader
<1>4. PICK n \in 1 .. Len(stream) + 1 : At(n)
  BY <1>1 DEF IInv
<1>5. Window /\ AtHeader(n) /\ HandedBefore(n)
  BY <1>1, <1>4 DEF IInv, At, InBody, AtSize, InChunk
<1> DEFINE l == LeftLen(stream, n)
           p == Place(stream, n)
<1>6. /\ stream \in Seq(SomeMessages) /\ raw \in Seq(Tokens) /\ Len(raw) \in Nat
      /\ DOMAIN stream = 1 .. Len(stream) /\ Len(stream) \in Nat
      /\ fed \in Nat /\ fed <= Len(Wire(stream)) /\ Consumed + Len(raw) = fed
  BY <1>5, StreamIs
<1>7. n \in 1 .. Len(stream) /\ Len(raw) >= l + 5 /\ end = l + 2
  <2>1. n <= Len(stream) /\ Len(raw) >= LeftLen(stream, n) + 5
    <3> HIDE DEF l, p, header, m, context, length
    <3> SUFFICES ASSUME ~ (n <= Len(stream) /\ Len(raw) >= LeftLen(stream, n) + 5) PROVE FALSE
      OBVIOUS
    <3>1. end = 0
      BY <1>5, HeaderFound
    <3> QED BY <1>1, <3>1
  <2>2. end = LeftLen(stream, n) + 2
    BY <1>5, <2>1, HeaderFound
  <2> QED BY <1>6, <2>1, <2>2 DEF l
<1>8. l \in Nat /\ p \in Nat /\ Consumed = p - l
  BY <1>5, <1>6, LeftInWire DEF AtHeader
<1>9. header = Cat(Left(stream, n), One(HeadLine(n)))
  <2>1. end - 1 = l + 1
    <3> HIDE DEF end, l
    <3> QED BY <1>7, <1>8
  <2> QED BY <1>5, <1>7, <2>1, HeaderRead
<1>10. Announced(header) = stream[n] /\ Rebuilt(header) = HeaderOf(stream, n)
  <2>1. n \in Nat /\ n \in DOMAIN stream /\ stream \in Streams
    BY <1>5, <1>6, <1>7 DEF Window
  <2>2. HeadOnly(header, n) /\ Rebuilt(header) = HeaderOf(stream, n)
    BY <1>9, <2>1, HeadersAre
  <2> HIDE DEF header
  <2>3. HeadsIn(header) = {n} /\ Min(HeadsIn(header)) = n
    BY <1>6, <2>1, <2>2, OneHead
  <2>4. HeadsIn(header) # {}
    BY <2>3
  <2> QED BY <2>2, <2>3, <2>4 DEF Announced
<1>11. m = stream[n] /\ context = Context(stream, n, <<>>, 0)
       /\ [context EXCEPT !.remaining = length] = Context(stream, n, <<>>, length)
  BY <1>10, FreshIs
<1> DEFINE body == Len(Body(stream[n]))
<1>12. /\ length = Len(ContentOf(stream[n])) /\ length \in Nat /\ body \in Nat
       /\ stream[n] \in SomeMessages /\ stream[n].kind \in MessageKinds /\ n \in Nat
       /\ n \in 1 .. Len(stream) + 1
       /\ m.kind = "length" => length = body
  <2>1. stream[n] \in SomeMessages /\ n \in Nat /\ n \in 1 .. Len(stream) + 1
    BY <1>6, <1>7, EncodedIs
  <2>2. stream[n].kind \in MessageKinds /\ body \in Nat /\ stream[n].parts \in Seq(Seq(Tokens))
    BY <2>1, PartsAre, BodyType
  <2>3. ContentOf(stream[n]) \in Seq(Tokens)
    BY <2>2, FlattenType, EmptySeq DEF ContentOf
  <2>4. stream[n].kind = "length" => ContentOf(stream[n]) = Body(stream[n])
    BY DEF ContentOf, Body
  <2> QED BY <1>11, <2>1, <2>2, <2>3, <2>4, LenProperties
<1>13. AfterHeader(end) = Drop(raw, l + 5)
  <2>1. end + 3 = l + 5
    <3> HIDE DEF end, l
    <3> QED BY <1>7, <1>8
  <2> QED BY <2>1 DEF AfterHeader
<1> HIDE DEF end, header, m, context, l, p, length, body
<1>14. CutsKnown'
  BY <1>1, CutsStay DEF IInv
<1>15. <<>> \in Seq(Tokens) /\ 0 \in Nat
  BY EmptySeq
<1>16. \A r \in Nat : Context(stream, n, <<>>, r) \in Contexts
  BY <1>6, <1>12, <1>15, ContextType
<1>17. ASSUME m.kind # "huge"
       PROVE  Window' /\ Consumed' = p + 5
  <2>1. raw' = Drop(raw, l + 5) /\ l + 5 \in 0 .. Len(raw)
    BY <1>3, <1>6, <1>7, <1>8, <1>13, <1>17
  <2>2. Window' /\ Consumed' = Consumed + (l + 5)
    BY <1>1, <1>5, <2>1, Dropped
  <2>3. Consumed + (l + 5) = p + 5
    BY ONLY <1>8
  <2> QED BY <2>2, <2>3
<1>18. Place(stream, n + 1) = p + 5 + body
  BY <1>6, <1>7, PlaceIs DEF p, body
<1>19. /\ CompleteAt(stream, n) = Place(stream, n + 1) - LeftLen(stream, n + 1)
       /\ CompleteAt(stream, n) \in Nat
  BY <1>6, <1>7, CompleteIs
<1>20. ASSUME m.kind \in {"max", "unread"} \/ (m.kind = "length" /\ length = 0)
       PROVE  Place(stream, n + 1) - LeftLen(stream, n + 1) = p + 5
  <2>1. LeftLen(stream, n + 1) = Len(Leftover(stream[n]))
    BY <1>6, <1>7, LeftNext
  <2>2. LeftLen(stream, n + 1) = body
    BY <1>11, <1>12, <1>20, <2>1, LeftoverIs DEF body
  <2> QED BY <1>8, <1>12, <1>18, <2>2
<1>21. fed \in fed .. Len(Wire(stream))
  BY <1>6
<1>22. CASE m.kind = "chunked"
  <2>1. /\ state' = "READ_CHUNK_SIZE" /\ tmp' = Context(stream, n, <<>>, 0)
        /\ UNCHANGED <<delivered, pc>>
    BY <1>2, <1>11, <1>22
  <2>2. Window' /\ Consumed' = p + 5
    BY <1>17, <1>22
  <2>3. Parts(stream, n, 1 - 1) = <<>>
    <3>1. 1 - 1 = 0 /\ SubSeq(stream[n].parts, 1, 0) = <<>>
      BY SubSeqEmpty
    <3> QED BY <3>1, FlattenOfEmpty DEF Parts
  <2>4. Len(stream[n].parts) \in Nat /\ 1 \in 1 .. Len(stream[n].parts) + 1
    BY <1>12, PartsAre
  <2>5. Base(stream, n, 1) = p + 5
    BY <1>6, <1>7, <1>11, <1>22, <2>4, BaseIs DEF p
  <2>6. AtSize(n)'
    <3>1. n <= Len(stream) /\ stream[n].kind = "chunked"
      BY <1>7, <1>11, <1>22
    <3>2. tmp' = Context(stream', n, Parts(stream', n, 1 - 1), 0) /\ Consumed' = Base(stream', n, 1)
      BY <1>1, <2>1, <2>2, <2>3, <2>5
    <3> QED BY <1>1, <2>1, <2>4, <3>1, <3>2, Zenon DEF AtSize
  <2>7. At(n)'
    BY <1>1, <1>5, <2>1, <2>6, HandedStay DEF At, Waiting
  <2>8. tmp' \in Contexts /\ pc' = "parse" /\ n \in 1 .. Len(stream') + 1
    BY <1>1, <1>15, <1>16, <2>1
  <2>9. IInv'
    BY <1>14, <2>2, <2>7, <2>8 DEF IInv
  <2> QED BY <1>1, <1>21, <2>1, <2>9 DEF Seen
<1>23. CASE m.kind = "max"
  <2>1. state' = "READ_HEADERS" /\ tmp' = Context(stream, n, <<>>, 0) /\ UNCHANGED <<delivered, pc>>
    BY <1>1, <1>2, <1>11, <1>23
  <2>2. Window' /\ Consumed' = p + 5
    BY <1>17, <1>23
  <2>3. ~ IsGood(stream[n])
    BY <1>11, <1>23 DEF IsGood
  <2>5. Consumed' = Place(stream, n + 1) - LeftLen(stream, n + 1)
    BY <1>20, <1>23, <2>2
  <2>6. \E k \in 1 .. Len(stream') + 1 : At(k)'
    BY <1>1, <1>5, <1>6, <1>7, <2>1, <2>2, <2>3, <2>5, NextMessage
  <2>7. tmp' \in Contexts /\ pc' = "parse"
    BY <1>1, <1>15, <1>16, <2>1
  <2>8. IInv'
    BY <1>14, <2>2, <2>6, <2>7 DEF IInv
  <2> QED BY <1>1, <1>21, <2>1, <2>8 DEF Seen
<1>24. CASE m.kind = "huge"
  <2>1. state' = "READ_BODY" /\ tmp' = Context(stream, n, <<>>, 0) /\ pc' = "killed"
        /\ UNCHANGED delivered
    BY <1>2, <1>11, <1>24
  <2>2. raw' = raw
    BY <1>3, <1>24
  <2>3. Window'
    BY <1>1, <1>5, <2>2, Zenon DEF Window, Consumed
  <2>4. HandedBefore(n)' /\ n \in 1 .. Len(stream') + 1
    BY <1>1, <1>5, <2>1, HandedStay
  <2>5. IsDeadly(stream'[n]) /\ n \in DOMAIN stream'
    BY <1>1, <1>6, <1>7, <1>11, <1>24 DEF IsDeadly
  <2>6. Killed'
    BY <2>1, <2>4, <2>5 DEF Killed, ConnState
  <2>7. tmp' \in Contexts
    BY <1>15, <1>16, <2>1
  <2>8. IInv'
    BY <1>14, <2>1, <2>3, <2>6, <2>7 DEF IInv
  <2> QED BY <1>1, <1>21, <2>1, <2>8 DEF Seen
<1>25. CASE m.kind \in {"length", "unread"} /\ length = 0
  <2>1. state' = "READ_HEADERS" /\ tmp' = Context(stream, n, <<>>, 0) /\ pc' = "parse"
        /\ delivered' = Append(delivered, Context(stream, n, <<>>, 0))
    BY <1>1, <1>2, <1>11, <1>25 DEF Deliver
  <2>2. Window' /\ Consumed' = p + 5
    BY <1>17, <1>25
  <2>3. IsGood(stream[n])
    BY <1>11, <1>25 DEF IsGood
  <2>4. ContentOf(stream[n]) = <<>>
    <3>1. ContentOf(stream[n]) \in Seq(Tokens) /\ Len(ContentOf(stream[n])) = 0
      BY <1>12, <1>25, PartsAre, FlattenType, EmptySeq DEF ContentOf
    <3> QED BY <3>1, EmptySeq
  <2>5. Consumed' = Place(stream, n + 1) - LeftLen(stream, n + 1) /\ CompleteAt(stream, n) = p + 5
    BY <1>19, <1>20, <1>25, <2>2
  <2>6. CompleteAt(stream, n) <= fed
    BY <1>6, <1>7, <1>8, <2>5
  <2>7. Delivers(n)
    BY <1>5, <2>1, <2>3, <2>4, <2>6 DEF Delivers, Handed
  <2>8. \E k \in 1 .. Len(stream') + 1 : At(k)'
    BY <1>1, <1>6, <1>7, <2>1, <2>2, <2>5, <2>7, NextMessage
  <2>9. tmp' \in Contexts
    BY <1>15, <1>16, <2>1
  <2>10. IInv'
    BY <1>14, <2>1, <2>2, <2>8, <2>9 DEF IInv
  <2> QED BY <1>1, <1>7, <2>7, <2>10 DEF Seen
<1>26. CASE m.kind = "length" /\ length > 0
  <2>1. state' = "READ_BODY" /\ tmp' = Context(stream, n, <<>>, length)
        /\ UNCHANGED <<delivered, pc>>
    BY <1>2, <1>11, <1>26
  <2>2. Window' /\ Consumed' = p + 5
    BY <1>17, <1>26
  <2>3. stream[n].kind = "length" /\ n <= Len(stream)
    BY <1>7, <1>11, <1>26
  <2>4. SubSeq(Body(stream[n]), 1, 0) = <<>>
    BY SubSeqEmpty
  <2>5. 0 \in 0 .. length - 1 /\ length - 0 = length /\ p + 5 = p + 5 + 0
        /\ length = Len(Body(stream[n]))
    BY <1>8, <1>12, <1>26 DEF body
  <2>6. InBody(n)'
    <3>1. /\ Consumed' = Place(stream', n) + 5 + 0
          /\ tmp' = Context(stream', n, SubSeq(Body(stream'[n]), 1, 0), Len(Body(stream'[n])) - 0)
      BY <1>1, <1>12, <2>1, <2>2, <2>4, <2>5 DEF p
    <3>2. 0 \in 0 .. Len(Body(stream'[n])) - 1
      BY <1>1, <1>12, <2>5
    <3> QED BY <1>1, <2>1, <2>3, <3>1, <3>2, Zenon DEF InBody
  <2>7. At(n)'
    BY <1>1, <1>5, <2>1, <2>6, HandedStay DEF At, Waiting
  <2>8. tmp' \in Contexts /\ pc' = "parse" /\ n \in 1 .. Len(stream') + 1
    BY <1>1, <1>12, <1>16, <2>1
  <2>9. IInv'
    BY <1>14, <2>2, <2>7, <2>8 DEF IInv
  <2> QED BY <1>1, <1>21, <2>1, <2>9 DEF Seen
<1>27. m.kind \in MessageKinds /\ length \in Nat /\ (m.kind = "unread" => length = 0)
  <2>1. m.kind = "unread" => ContentOf(stream[n]) = <<>>
    BY <1>11 DEF ContentOf
  <2> QED BY <1>11, <1>12, <2>1, EmptySeq
<1> QED BY <1>22, <1>23, <1>24, <1>25, <1>26, <1>27 DEF MessageKinds

LEMMA ParseBodyKeeps == IInv /\ ParseBody => IInv' /\ Seen
<1> SUFFICES ASSUME IInv, ParseBody PROVE IInv' /\ Seen
  OBVIOUS
<1> DEFINE j == Min({tmp.remaining, Len(raw)})
<1>1. /\ pc = "parse" /\ raw # <<>> /\ state = "READ_BODY"
      /\ tmp' = Filled(j) /\ raw' = Drop(raw, j)
      /\ UNCHANGED <<stream, fed, cuts, pc>>
  BY Zenon DEF ParseBody
<1>2. IF j = tmp.remaining
      THEN state' = "READ_HEADERS" /\ delivered' = Append(delivered, tmp')
      ELSE UNCHANGED <<state, delivered>>
  BY Zenon DEF ParseBody, Deliver
<1>3. PICK n \in 1 .. Len(stream) + 1 : At(n)
  BY <1>1 DEF IInv
<1>4. Window /\ InBody(n) /\ HandedBefore(n)
  BY <1>1, <1>3 DEF IInv, At, AtHeader, AtSize, InChunk
<1>5. /\ stream \in Seq(SomeMessages) /\ raw \in Seq(Tokens) /\ Len(raw) \in Nat
      /\ Len(stream) \in Nat
      /\ fed \in Nat /\ fed <= Len(Wire(stream)) /\ Consumed + Len(raw) = fed
  BY <1>4, StreamIs
<1> DEFINE body == Body(stream[n])
           l == Len(body)
           p == Place(stream, n)
<1>6. n \in 1 .. Len(stream) /\ stream[n].kind = "length"
  <2>1. n <= Len(stream) /\ stream[n].kind = "length"
    BY <1>4, Zenon DEF InBody
  <2> QED BY <1>5, <2>1
<1>7. PICK k \in 0 .. l - 1 :
        /\ Consumed = p + 5 + k
        /\ tmp = Context(stream, n, SubSeq(body, 1, k), l - k)
  BY <1>4, Zenon DEF InBody
<1>8. /\ stream[n] \in SomeMessages /\ n \in Nat /\ body \in Seq(Tokens) /\ l \in Nat /\ p \in Nat
      /\ \A i \in 1 .. l : Wire(stream)[p + 5 + i] = body[i]
  <2>1. stream[n] \in SomeMessages /\ n \in Nat
    BY <1>5, <1>6, EncodedIs
  <2>2. body \in Seq(Tokens) /\ l \in Nat
    BY <2>1, BodyType
  <2>3. p \in Nat /\ \A i \in 1 .. l : Wire(stream)[p + 5 + i] = body[i]
    BY <1>5, <1>6, BodyInWire
  <2> QED BY <2>1, <2>2, <2>3
<1> HIDE DEF body, l, p
<1>9. k \in Nat /\ l - k \in Nat /\ l - k > 0 /\ k <= l
  BY <1>8
<1>10. j \in Nat /\ j <= l - k /\ j <= Len(raw) /\ (j = l - k \/ j = Len(raw)) /\ tmp.remaining = l - k
  <2>1. tmp.remaining = l - k
    BY <1>7, FilledIs
  <2>2. Min({l - k, Len(raw)}) \in {l - k, Len(raw)}
        /\ Min({l - k, Len(raw)}) <= l - k /\ Min({l - k, Len(raw)}) <= Len(raw)
    BY <1>5, <1>9, MinOfTwo
  <2>3. j = Min({l - k, Len(raw)})
    BY <2>1
  <2> HIDE DEF j
  <2> QED BY <1>5, <1>9, <2>1, <2>2, <2>3
<1> HIDE DEF j
<1>11. j \in 0 .. Len(raw)
  BY <1>5, <1>10
<1>12. Window' /\ Consumed' = p + 5 + (k + j) /\ Len(raw') = Len(raw) - j
  <2>1. Window' /\ Consumed' = Consumed + j /\ Len(raw') = Len(raw) - j
    BY <1>1, <1>4, <1>11, Dropped
  <2>2. p + 5 + k + j = p + 5 + (k + j)
    BY <1>8, <1>9, <1>10
  <2> QED BY <1>7, <2>1, <2>2
<1>13. k + j \in Nat /\ k + j <= l /\ (l - k) - j = l - (k + j) /\ l - (k + j) \in Nat
  BY <1>8, <1>9, <1>10
<1>14. Cat(SubSeq(body, 1, k), SubSeq(raw, 1, j)) = SubSeq(body, 1, k + j)
  <2>1. ASSUME NEW i \in 1 .. j PROVE raw[i] = body[k + i]
    <3>1. i \in 1 .. Len(raw) /\ k + i \in 1 .. l /\ p + 5 + k + i = p + 5 + (k + i)
      BY <1>5, <1>8, <1>9, <1>10
    <3>2. raw[i] = Wire(stream)[p + 5 + k + i]
      BY <1>4, <1>7, <3>1 DEF Window
    <3> QED BY <1>8, <3>1, <3>2
  <2>2. k + j <= Len(body)
    BY <1>13 DEF l
  <2>3. body \in Seq(Tokens) /\ raw \in Seq(Tokens) /\ k \in Nat /\ j \in 0 .. Len(raw)
    BY <1>5, <1>8, <1>9, <1>11
  <2> QED BY ONLY <2>1, <2>2, <2>3, Continued
<1>15. tmp' = Context(stream, n, SubSeq(body, 1, k + j), l - (k + j))
  <2>1. tmp' = Context(stream, n, Cat(SubSeq(body, 1, k), SubSeq(raw, 1, j)), (l - k) - j)
    BY <1>1, <1>7, FilledIs
  <2> QED BY <1>13, <1>14, <2>1
<1>16. tmp' \in Contexts
  <2>1. k + j \in 0 .. Len(body)
    BY <1>8, <1>13 DEF l
  <2>2. SubSeq(body, 1, k + j) \in Seq(Tokens)
    BY <1>8, <2>1, TakeIs
  <2>3. n \in 1 .. Len(stream) + 1
    BY <1>5, <1>6
  <2> QED BY <1>5, <1>13, <1>15, <2>2, <2>3, ContextType
<1>17. CutsKnown' /\ pc' = "parse"
  BY <1>1, CutsStay DEF IInv
<1>18. CASE j = l - k
  <2>1. k + j = l /\ l - (k + j) = 0
    BY <1>8, <1>9, <1>18
  <2>2. state' = "READ_HEADERS" /\ delivered' = Append(delivered, tmp')
    BY <1>2, <1>10, <1>18
  <2>3. tmp' = Handed(stream, n)
    <3>1. SubSeq(body, 1, l) = body
      BY <1>8, SubSeqFull DEF l
    <3>2. body = ContentOf(stream[n])
      BY <1>6 DEF Body, ContentOf, body
    <3> QED BY <1>15, <2>1, <3>1, <3>2, Zenon DEF Handed
  <2>4. Consumed' = Place(stream, n + 1) - LeftLen(stream, n + 1)
        /\ CompleteAt(stream, n) = p + 5 + l
    <3>1. Place(stream, n + 1) = p + 5 + l
      BY <1>5, <1>6, PlaceIs DEF p, l, body
    <3>2. LeftLen(stream, n + 1) = 0
      BY <1>5, <1>6, <1>8, LeftNext, LeftoverIs
    <3>3. CompleteAt(stream, n) = Place(stream, n + 1) - LeftLen(stream, n + 1)
      BY <1>5, <1>6, CompleteIs
    <3>4. p + 5 + l - 0 = p + 5 + l
      BY <1>8
    <3> QED BY <1>12, <2>1, <3>1, <3>2, <3>3, <3>4
  <2>5. CompleteAt(stream, n) <= fed
    <3>1. p + 5 + k + Len(raw) = fed
      BY <1>5, <1>7
    <3> QED BY <1>5, <1>8, <1>9, <1>10, <1>18, <2>4, <3>1
  <2>6. Delivers(n)
    BY <1>4, <1>6, <2>2, <2>3, <2>5 DEF Delivers, IsGood
  <2>7. \E i \in 1 .. Len(stream') + 1 : At(i)'
    BY <1>1, <1>5, <1>6, <1>12, <1>17, <2>2, <2>4, <2>6, NextMessage
  <2>8. IInv'
    BY <1>12, <1>16, <1>17, <2>7 DEF IInv
  <2> QED BY <1>1, <1>6, <2>6, <2>8 DEF Seen
<1>19. CASE j # l - k
  <2>1. UNCHANGED <<state, delivered>>
    BY <1>2, <1>10, <1>19
  <2>2. k + j \in 0 .. l - 1
    BY <1>8, <1>9, <1>10, <1>13, <1>19
  <2>3. InBody(n)'
    <3>1. /\ Consumed' = Place(stream', n) + 5 + (k + j)
          /\ tmp' = Context(stream', n, SubSeq(Body(stream'[n]), 1, k + j),
                            Len(Body(stream'[n])) - (k + j))
      BY <1>1, <1>12, <1>15, Zenon DEF p, l, body
    <3>2. k + j \in 0 .. Len(Body(stream'[n])) - 1
      BY <1>1, <2>2 DEF l, body
    <3>3. n <= Len(stream') /\ stream'[n].kind = "length" /\ state' = "READ_BODY"
      BY <1>1, <1>6, <2>1
    <3> QED BY <3>1, <3>2, <3>3, Zenon DEF InBody
  <2>4. At(n)'
    BY <1>1, <1>4, <2>1, <2>3, HandedStay DEF At, Waiting
  <2>5. n \in 1 .. Len(stream') + 1
    BY <1>1
  <2>6. IInv'
    BY <1>12, <1>16, <1>17, <2>4, <2>5 DEF IInv
  <2>7. fed' \in fed .. Len(Wire(stream))
    BY <1>1, <1>5
  <2> QED BY <1>1, <2>1, <2>6, <2>7 DEF Seen
<1> QED BY <1>18, <1>19

\* The chunks' contents joined.
LEMMA PartsGrow ==
  ASSUME NEW s \in Seq(SomeMessages), NEW n \in 1 .. Len(s)
  PROVE  LET q == s[n].parts
         IN /\ Parts(s, n, Len(q)) = FlattenSeq(q) /\ Len(q) \in Nat
            /\ \A c \in 0 .. Len(q) : Parts(s, n, c) \in Seq(Tokens)
            /\ \A c \in 1 .. Len(q) :
                 /\ Parts(s, n, c) = Cat(Parts(s, n, c - 1), q[c])
                 /\ q[c] \in Seq(Tokens) /\ Len(q[c]) \in Nat \ {0}
                 /\ AllParts(s[n])[c] = q[c]
<1> DEFINE q == s[n].parts
<1>1. s[n] \in SomeMessages
  BY EncodedIs
<1>2. q \in Seq(Seq(Tokens)) /\ Len(q) \in Nat
  BY <1>1, PartsAre
<1>3. \A c \in 1 .. Len(q) : /\ q[c] \in Seq(Tokens) /\ Len(q[c]) \in Nat \ {0}
                             /\ AllParts(s[n])[c] = q[c]
  BY <1>1, PartsAre
<1>4. \A c : Parts(s, n, c) = FlattenSeq(SubSeq(q, 1, c))
  BY DEF Parts
<1> HIDE DEF q
<1>5. Parts(s, n, Len(q)) = FlattenSeq(q)
  BY <1>2, <1>4, SubSeqFull
<1>6. \A c \in 0 .. Len(q) : Parts(s, n, c) \in Seq(Tokens)
  <2>1. \A c \in 0 .. Len(q) : SubSeq(q, 1, c) \in Seq(Seq(Tokens))
    BY <1>2, TakeIs
  <2> QED BY <1>4, <2>1, FlattenType
<1>7. \A c \in 1 .. Len(q) : Parts(s, n, c) = Cat(Parts(s, n, c - 1), q[c])
  BY <1>2, <1>4, FlattenAt
<1> QED BY <1>2, <1>3, <1>5, <1>6, <1>7 DEF q

\* A line of one token is the number of that token, if stoul reads it.
LEMMA NumberLine ==
  ASSUME raw \in Seq(Tokens), Len(raw) >= 1, NEW k \in Nat, raw[1] = SizeLine(k)
  PROVE  /\ IsNumber(SubSeq(raw, 1, 1)) <=> k \notin BadSizes
         /\ SubSeq(raw, 1, 1)[1][2] = k
<1> DEFINE line == SubSeq(raw, 1, 1)
<1>1. Len(raw) \in Nat
  BY LenProperties
<1>2. 1 \in 0 .. Len(raw) /\ 1 \in 1 .. 1
  BY <1>1
<1>3. Len(line) = 1 /\ line[1] = raw[1]
  BY <1>2, TakeIs
<1>4. raw[1][2] = k
  BY TokensDiffer
<1> HIDE DEF line
<1> QED BY <1>3, <1>4, Zenon DEF IsNumber, line

LEMMA ChunkSizeKeeps == IInv /\ ChunkSize => IInv' /\ Seen
<1> SUFFICES ASSUME IInv, ChunkSize PROVE IInv' /\ Seen
  OBVIOUS
<1> DEFINE end == Find(CRLF, raw)
           line == SubSeq(raw, 1, end - 1)
<1>1. /\ pc = "chunk" /\ state = "READ_CHUNK_SIZE" /\ end # 0
      /\ UNCHANGED <<stream, fed, cuts>>
  BY Zenon DEF ChunkSize
<1>2. \/ /\ ~ IsNumber(line)
         /\ pc' = "killed"
         /\ UNCHANGED <<raw, state, tmp, delivered>>
      \/ /\ IsNumber(line)
         /\ raw' = Drop(raw, end + 1)
         /\ IF line[1][2] = 0
            THEN /\ state' = "READ_HEADERS"
                 /\ delivered' = Append(delivered, tmp)
                 /\ pc' = "parse"
                 /\ UNCHANGED tmp
            ELSE /\ state' = "READ_CHUNK_DATA"
                 /\ tmp' = [tmp EXCEPT !.remaining = line[1][2]]
                 /\ UNCHANGED <<delivered, pc>>
  BY Zenon DEF ChunkSize, Deliver
<1>3. PICK n \in 1 .. Len(stream) + 1 : At(n)
  BY <1>1 DEF IInv
<1>4. Window /\ AtSize(n) /\ HandedBefore(n)
  BY <1>1, <1>3 DEF IInv, At, AtHeader, InBody, InChunk
<1>5. /\ stream \in Seq(SomeMessages) /\ raw \in Seq(Tokens) /\ Len(raw) \in Nat
      /\ Len(stream) \in Nat /\ Consumed \in Nat
      /\ fed \in Nat /\ fed <= Len(Wire(stream)) /\ Consumed + Len(raw) = fed
  BY <1>4, StreamIs
<1>6. n \in 1 .. Len(stream) /\ stream[n].kind = "chunked" /\ n \in Nat
  <2>1. n <= Len(stream) /\ stream[n].kind = "chunked"
    BY <1>4, Zenon DEF AtSize
  <2> QED BY <1>5, <2>1
<1> DEFINE q == stream[n].parts
           p == Place(stream, n)
<1>7. PICK c \in 1 .. Len(q) + 1 :
        /\ tmp = Context(stream, n, Parts(stream, n, c - 1), 0)
        /\ \/ Consumed = Base(stream, n, c)
           \/ /\ c > 1
              /\ Consumed = Base(stream, n, c) - 2
              /\ "seam" \in cuts \/ (pc # "wait" /\ Len(raw) = 1)
  BY <1>4, Zenon DEF AtSize
<1>8. /\ Parts(stream, n, Len(q)) = FlattenSeq(q) /\ Len(q) \in Nat
      /\ \A i \in 0 .. Len(q) : Parts(stream, n, i) \in Seq(Tokens)
      /\ \A i \in 1 .. Len(q) : Len(q[i]) \in Nat \ {0} /\ AllParts(stream[n])[i] = q[i]
  BY <1>5, <1>6, PartsGrow
<1>9. CutsKnown' /\ fed \in fed .. Len(Wire(stream))
  BY <1>1, <1>5, CutsStay DEF IInv
<1> HIDE DEF q, p, end, line
<1>n. Len(q) \in Nat /\ c \in 1 .. Len(q) + 1
  BY <1>8
<1>10. ASSUME c > 1, Consumed = Base(stream, n, c) - 2,
              "seam" \in cuts \/ (pc # "wait" /\ Len(raw) = 1)
       PROVE  IInv' /\ Seen
  <2>1. c - 1 \in 1 .. Len(q) /\ c - 1 + 1 = c
    BY <1>8, <1>10
  <2>2. /\ Len(raw) >= 2 => end = 1
        /\ Len(raw) < 2 => end = 0
    BY <1>4, <1>6, <1>10, <2>1, SeamFound DEF end, q
  <2>3. Len(raw) >= 2 /\ end = 1
    BY <1>1, <1>5, <2>2
  <2>4. "seam" \in cuts
    <3>1. Len(raw) \in Nat
      BY <1>5
    <3>2. \A m \in Nat : m >= 2 => m # 1
      OBVIOUS
    <3>3. Len(raw) # 1
      BY <2>3, <3>1, <3>2, Zenon
    <3> QED BY <1>10, <3>3
  <2>5. ~ IsNumber(line)
    <3>1. line = <<>>
      <4>1. line = SubSeq(raw, 1, 0)
        BY <2>3 DEF line
      <4> QED BY <4>1, SubSeqEmpty
    <3> QED BY <3>1 DEF IsNumber
  <2>6. pc' = "killed" /\ UNCHANGED <<raw, state, tmp, delivered>>
    BY <1>2, <2>5
  <2>7. Window' /\ HandedBefore(n)'
    BY <1>1, <1>4, <2>6, HandedStay, Zenon DEF Window, Consumed
  <2>8. Killed'
    BY <1>1, <2>4, <2>6, <2>7 DEF Killed, ConnState
  <2>9. IInv'
    BY <1>9, <2>6, <2>7, <2>8 DEF IInv
  <2> QED BY <1>1, <1>9, <2>6, <2>9 DEF Seen
<1>11. ASSUME Consumed = Base(stream, n, c) PROVE IInv' /\ Seen
  <2> DEFINE b == Base(stream, n, c)
             k == Len(AllParts(stream[n])[c])
  <2>1. /\ b \in Nat /\ k \in Nat /\ Base(stream, n, c + 1) = b + 5 + k
        /\ Base(stream, n, Len(q) + 2) = Place(stream, n + 1)
    BY <1>5, <1>6, BaseIs DEF q
  <2>2. Len(raw) >= 3 /\ end = 2 /\ raw[1] = SizeLine(k)
    <3>1. IF Len(raw) >= 3
          THEN Find(CRLF, raw) = 2 /\ raw[1] = SizeLine(Len(AllParts(stream[n])[c]))
          ELSE Find(CRLF, raw) = 0
      BY <1>4, <1>6, <1>11, SizeFound DEF q
    <3> QED BY <1>1, <3>1 DEF end
  <2> HIDE DEF b, k
  <2>0. (IsNumber(line) <=> k \notin BadSizes) /\ line[1][2] = k
    <3>1. Len(raw) >= 1
      BY <1>5, <2>2
    <3>2. end - 1 = 1
      BY <2>2
    <3>3. (IsNumber(SubSeq(raw, 1, 1)) <=> k \notin BadSizes) /\ SubSeq(raw, 1, 1)[1][2] = k
      BY <1>5, <2>1, <2>2, <3>1, NumberLine
    <3> QED BY <3>2, <3>3 DEF line
  <2>8. CASE k \in BadSizes
    <3>1. pc' = "killed" /\ UNCHANGED <<raw, state, tmp, delivered>>
      BY <1>2, <2>0, <2>8
    <3>2. Window' /\ HandedBefore(n)'
      BY <1>1, <1>4, <3>1, HandedStay, Zenon DEF Window, Consumed
    <3>3. IsDeadly(stream[n])
      <4>1. CASE c \in 1 .. Len(q)
        <5>1. k = Len(q[c])
          BY <1>8, <4>1 DEF k
        <5>2. q \in Seq(Seq(Tokens))
          BY <1>5, <1>6, EncodedIs, PartsAre DEF q
        <5>3. c \in DOMAIN q
          BY <4>1, <5>2, LenProperties
        <5> QED BY <1>6, <2>8, <5>1, <5>3, Zenon DEF IsDeadly, q
      <4>2. CASE c = Len(q) + 1
        <5>1. AllParts(stream[n])[c] = <<>>
          BY <1>5, <1>6, <4>2, EncodedIs, PartsAre DEF q
        <5>2. k = 0
          BY <5>1, EmptySeq DEF k
        <5> QED BY <1>6, <2>8, <5>2, Zenon DEF IsDeadly
      <4> QED BY ONLY <1>n, <4>1, <4>2
    <3>4. n \in DOMAIN stream
      BY <1>5, <1>6, LenProperties
    <3>5. Killed'
      BY <1>1, <3>1, <3>2, <3>3, <3>4 DEF Killed, ConnState
    <3>6. IInv'
      BY <1>9, <3>1, <3>2, <3>5 DEF IInv
    <3> QED BY <1>1, <1>9, <3>1, <3>6 DEF Seen
  <2> SUFFICES ASSUME k \notin BadSizes PROVE IInv' /\ Seen
    BY <2>8
  <2>3. IsNumber(line) /\ line[1][2] = k
    BY <2>0
  <2>4. raw' = Drop(raw, 3) /\ 3 \in 0 .. Len(raw)
    <3>1. end + 1 = 3
      BY <2>2
    <3>2. raw' = Drop(raw, end + 1)
      BY <1>2, <2>3
    <3> QED BY <1>5, <2>2, <3>1, <3>2
  <2>5. Window' /\ Consumed' = b + 3
    BY <1>1, <1>4, <1>11, <2>4, Dropped DEF b
  <2>6. CASE k = 0
    <3>1. /\ state' = "READ_HEADERS" /\ delivered' = Append(delivered, tmp)
          /\ pc' = "parse" /\ UNCHANGED tmp
      BY <1>2, <2>3, <2>6
    <3>2. c = Len(q) + 1 /\ c - 1 = Len(q) /\ c + 1 = Len(q) + 2
      <4>1. c \notin 1 .. Len(q)
        BY <1>8, <2>6 DEF k
      <4> QED BY ONLY <1>n, <4>1
    <3>3. tmp = Handed(stream, n)
      <4>1. ContentOf(stream[n]) = FlattenSeq(q)
        BY <1>6 DEF ContentOf, q
      <4> QED BY <1>7, <1>8, <3>2, <4>1, Zenon DEF Handed
    <3>4. /\ Consumed' = Place(stream, n + 1) - LeftLen(stream, n + 1)
          /\ CompleteAt(stream, n) = b + 3
      <4>1. Place(stream, n + 1) = b + 5 + 0
        BY <2>1, <2>6, <3>2
      <4>2. LeftLen(stream, n + 1) = 2
        <5>1. stream[n] \in SomeMessages
          BY <1>5, <1>6, EncodedIs
        <5> QED BY <1>5, <1>6, <5>1, LeftNext, LeftoverIs
      <4>3. CompleteAt(stream, n) = Place(stream, n + 1) - LeftLen(stream, n + 1)
        BY <1>5, <1>6, CompleteIs
      <4>4. Place(stream, n + 1) - LeftLen(stream, n + 1) = b + 3
        BY <2>1, <4>1, <4>2
      <4>5. Consumed' = Place(stream, n + 1) - LeftLen(stream, n + 1)
        BY <2>5, <4>4, Zenon
      <4>6. CompleteAt(stream, n) = b + 3
        BY <4>3, <4>4, Zenon
      <4> QED BY <4>5, <4>6
    <3>5. CompleteAt(stream, n) <= fed
      <4>1. b + Len(raw) = fed
        BY <1>5, <1>11 DEF b
      <4> QED BY <1>5, <2>1, <2>2, <3>4, <4>1
    <3>6. Delivers(n)
      BY <1>4, <1>6, <3>1, <3>3, <3>5 DEF Delivers, IsGood
    <3>7. \E i \in 1 .. Len(stream') + 1 : At(i)'
      BY <1>1, <1>5, <1>6, <2>5, <3>1, <3>4, <3>6, NextMessage
    <3>8. IInv'
      BY <1>9, <2>5, <3>1, <3>7 DEF IInv
    <3> QED BY <1>1, <1>6, <3>6, <3>8 DEF Seen
  <2>7. CASE k # 0
    <3>1. /\ state' = "READ_CHUNK_DATA" /\ tmp' = [tmp EXCEPT !.remaining = k]
          /\ UNCHANGED <<delivered, pc>>
      BY <1>2, <2>3, <2>7
    <3>2. c \in 1 .. Len(q)
      <4>1. c # Len(q) + 1
        <5> SUFFICES ASSUME c = Len(q) + 1 PROVE FALSE
          OBVIOUS
        <5>1. AllParts(stream[n])[c] = <<>>
          BY <1>5, <1>6, EncodedIs, PartsAre DEF q
        <5> QED BY <2>7, <5>1 DEF k
      <4> QED BY ONLY <1>n, <4>1
    <3>3. k = Len(q[c]) /\ c - 1 \in 0 .. Len(q)
      BY <1>8, <3>2 DEF k
    <3>4. Parts(stream, n, c - 1) \in Seq(Tokens)
      BY <1>8, <3>3
    <3>5. tmp' = Context(stream, n, Parts(stream, n, c - 1), k)
      BY <1>7, <3>1, FilledIs
    <3>6. Cat(Parts(stream, n, c - 1), SubSeq(q[c], 1, 0)) = Parts(stream, n, c - 1)
      <4>1. SubSeq(q[c], 1, 0) = <<>>
        BY SubSeqEmpty
      <4> QED BY <3>4, <4>1, CatEmpty
    <3>7. 0 \in 0 .. Len(q[c]) - 1 /\ Len(q[c]) - 0 = k /\ b + 3 + 0 = b + 3
      BY <2>1, <2>7, <3>3
    <3>8. InChunk(n)'
      <4>1. /\ Consumed' = Base(stream', n, c) + 3 + 0
            /\ tmp' = Context(stream', n,
                              Cat(Parts(stream', n, c - 1), SubSeq(stream'[n].parts[c], 1, 0)),
                              Len(stream'[n].parts[c]) - 0)
        BY <1>1, <2>5, <3>5, <3>6, <3>7, Zenon DEF q, b
      <4>2. c \in 1 .. Len(stream'[n].parts) /\ 0 \in 0 .. Len(stream'[n].parts[c]) - 1
        BY <1>1, <3>2, <3>7 DEF q
      <4>3. n <= Len(stream') /\ stream'[n].kind = "chunked"
        BY <1>1, <1>6
      <4> QED BY <3>1, <4>1, <4>2, <4>3, Zenon DEF InChunk
    <3>9. At(n)' /\ n \in 1 .. Len(stream') + 1 /\ pc' = "chunk"
      BY <1>1, <1>4, <3>1, <3>8, HandedStay DEF At, Waiting
    <3>10. tmp' \in Contexts
      BY <1>5, <1>6, <2>1, <3>4, <3>5, ContextType
    <3>11. IInv'
      BY <1>9, <2>5, <3>9, <3>10 DEF IInv
    <3> QED BY <1>1, <1>9, <3>1, <3>11 DEF Seen
  <2> QED BY <2>6, <2>7
<1> QED BY <1>7, <1>10, <1>11

LEMMA ChunkDataKeeps == IInv /\ ChunkData => IInv' /\ Seen
<1> SUFFICES ASSUME IInv, ChunkData PROVE IInv' /\ Seen
  OBVIOUS
<1> DEFINE j == Min({tmp.remaining, Len(raw)})
<1>1. /\ pc = "chunk" /\ raw # <<>> /\ state = "READ_CHUNK_DATA"
      /\ tmp' = Filled(j)
      /\ UNCHANGED <<stream, fed, cuts, delivered, pc>>
  BY Zenon DEF ChunkData
<1>2. IF j = tmp.remaining
      THEN raw' = WithoutCRLF(Drop(raw, j)) /\ state' = "READ_CHUNK_SIZE"
      ELSE raw' = Drop(raw, j) /\ UNCHANGED state
  BY Zenon DEF ChunkData
<1>3. PICK n \in 1 .. Len(stream) + 1 : At(n)
  BY <1>1 DEF IInv
<1>4. Window /\ InChunk(n) /\ HandedBefore(n)
  BY <1>1, <1>3 DEF IInv, At, AtHeader, InBody, AtSize
<1>5. /\ stream \in Seq(SomeMessages) /\ raw \in Seq(Tokens) /\ Len(raw) \in Nat
      /\ Len(stream) \in Nat /\ Consumed \in Nat
      /\ fed \in Nat /\ fed <= Len(Wire(stream)) /\ Consumed + Len(raw) = fed
  BY <1>4, StreamIs
<1>6. n \in 1 .. Len(stream) /\ stream[n].kind = "chunked" /\ n \in Nat
  <2>1. n <= Len(stream) /\ stream[n].kind = "chunked"
    BY <1>4, Zenon DEF InChunk
  <2> QED BY <1>5, <2>1
<1>7. PICK c \in 1 .. Len(stream[n].parts) : \E k \in 0 .. Len(stream[n].parts[c]) - 1 :
        /\ Consumed = Base(stream, n, c) + 3 + k
        /\ tmp = Context(stream, n,
                         Cat(Parts(stream, n, c - 1), SubSeq(stream[n].parts[c], 1, k)),
                         Len(stream[n].parts[c]) - k)
  BY <1>4, Zenon DEF InChunk
<1> DEFINE q == stream[n].parts
           part == q[c]
           l == Len(part)
           b == Base(stream, n, c)
           before == Parts(stream, n, c - 1)
<1>8. PICK k \in 0 .. l - 1 :
        /\ Consumed = b + 3 + k
        /\ tmp = Context(stream, n, Cat(before, SubSeq(part, 1, k)), l - k)
  BY <1>7, Zenon
<1>9. /\ Len(q) \in Nat /\ c \in 1 .. Len(q) + 1
      /\ \A i \in 0 .. Len(q) : Parts(stream, n, i) \in Seq(Tokens)
      /\ Parts(stream, n, c) = Cat(before, part)
      /\ part \in Seq(Tokens) /\ l \in Nat /\ l > 0 /\ AllParts(stream[n])[c] = part
  <2>1. c \in 1 .. Len(q)
    BY <1>7
  <2>2. /\ Len(q) \in Nat
        /\ \A i \in 0 .. Len(q) : Parts(stream, n, i) \in Seq(Tokens)
        /\ Parts(stream, n, c) = Cat(before, part)
        /\ part \in Seq(Tokens) /\ l \in Nat \ {0} /\ AllParts(stream[n])[c] = part
    BY SMTT(30), <1>5, <1>6, <2>1, PartsGrow
  <2> HIDE DEF q, part, l, before
  <2> QED BY <2>1, <2>2
<1>10. before \in Seq(Tokens) /\ Parts(stream, n, c) \in Seq(Tokens) /\ c \in 1 .. Len(q)
  <2>1. c - 1 \in 0 .. Len(q) /\ c \in 0 .. Len(q) /\ c \in 1 .. Len(q)
    BY <1>7, <1>9
  <2> QED BY <1>9, <2>1
<1>11. /\ b \in Nat /\ Base(stream, n, c + 1) = b + 5 + l
       /\ ChunkIn(Wire(stream), b, part)
  BY <1>5, <1>6, <1>9, BaseIs
<1>12. \A i \in 1 .. l : Wire(stream)[b + 3 + i] = part[i]
  BY <1>11 DEF ChunkIn
<1> HIDE DEF q, part, l, b, before
<1>13. k \in Nat /\ l - k \in Nat /\ l - k > 0 /\ k <= l
  BY <1>9
<1>14. j \in Nat /\ j <= l - k /\ j <= Len(raw) /\ (j = l - k \/ j = Len(raw)) /\ tmp.remaining = l - k
  <2>1. tmp.remaining = l - k
    BY <1>8, FilledIs
  <2>2. Min({l - k, Len(raw)}) \in {l - k, Len(raw)}
        /\ Min({l - k, Len(raw)}) <= l - k /\ Min({l - k, Len(raw)}) <= Len(raw)
    BY <1>5, <1>13, MinOfTwo
  <2>3. j = Min({l - k, Len(raw)})
    BY <2>1
  <2> HIDE DEF j
  <2> QED BY <1>5, <1>13, <2>1, <2>2, <2>3
<1> HIDE DEF j
<1>15. j \in 0 .. Len(raw)
  BY <1>5, <1>14
<1>16. k + j \in Nat /\ k + j <= l /\ (l - k) - j = l - (k + j) /\ l - (k + j) \in Nat
       /\ b + 3 + k + j = b + 3 + (k + j)
  BY <1>9, <1>11, <1>13, <1>14
<1>17. Cat(SubSeq(part, 1, k), SubSeq(raw, 1, j)) = SubSeq(part, 1, k + j)
  <2>1. ASSUME NEW i \in 1 .. j PROVE raw[i] = part[k + i]
    <3>1. i \in 1 .. Len(raw) /\ k + i \in 1 .. l /\ b + 3 + k + i = b + 3 + (k + i)
      BY SMTT(30), <1>5, <1>9, <1>11, <1>13, <1>14
    <3>2. raw[i] = Wire(stream)[b + 3 + k + i]
      BY <1>4, <1>8, <3>1 DEF Window
    <3> QED BY <1>12, <3>1, <3>2
  <2>2. k + j <= Len(part)
    BY <1>16 DEF l
  <2>3. part \in Seq(Tokens) /\ raw \in Seq(Tokens) /\ k \in Nat /\ j \in 0 .. Len(raw)
    BY <1>5, <1>9, <1>13, <1>15
  <2> QED BY ONLY <2>1, <2>2, <2>3, Continued
<1>18. tmp' = Context(stream, n, Cat(before, SubSeq(part, 1, k + j)), l - (k + j))
  <2>1. tmp' = Context(stream, n, Cat(Cat(before, SubSeq(part, 1, k)), SubSeq(raw, 1, j)), (l - k) - j)
    BY <1>1, <1>8, FilledIs
  <2>2. SubSeq(part, 1, k) \in Seq(Tokens) /\ SubSeq(raw, 1, j) \in Seq(Tokens)
    <3>1. k \in 0 .. Len(part)
      BY <1>9, <1>13 DEF l
    <3> QED BY <1>5, <1>9, <1>15, <3>1, TakeIs
  <2>3. Cat(Cat(before, SubSeq(part, 1, k)), SubSeq(raw, 1, j))
        = Cat(before, Cat(SubSeq(part, 1, k), SubSeq(raw, 1, j)))
    <3>1. \A s, t, u \in Seq(Tokens) : Cat(Cat(s, t), u) = Cat(s, Cat(t, u))
      BY CatAssociative
    <3> QED BY <1>10, <2>2, <3>1, Zenon
  <2> QED BY <1>16, <1>17, <2>1, <2>3, Zenon
<1>19. tmp' \in Contexts
  <2>1. k + j \in 0 .. Len(part)
    BY <1>9, <1>16 DEF l
  <2>2. SubSeq(part, 1, k + j) \in Seq(Tokens)
    BY <1>9, <2>1, TakeIs
  <2>3. Cat(before, SubSeq(part, 1, k + j)) \in Seq(Tokens)
    BY <1>10, <2>2, CatType
  <2> QED BY <1>5, <1>6, <1>16, <1>18, <2>3, ContextType
<1>20. CutsKnown' /\ pc' = "chunk" /\ HandedBefore(n)' /\ n \in 1 .. Len(stream') + 1
  BY <1>1, <1>4, CutsStay, HandedStay DEF IInv
<1>21. fed' \in fed .. Len(Wire(stream))
  BY <1>1, <1>5
<1>n. /\ k \in Nat /\ j \in Nat /\ l \in Nat /\ b \in Nat /\ l > 0
      /\ Consumed \in Nat /\ Consumed = b + 3 + k
      /\ Len(raw) \in Nat /\ j <= Len(raw) /\ Consumed + Len(raw) = fed /\ fed \in Nat
  BY <1>5, <1>8, <1>9, <1>11, <1>13, <1>14
<1>22. CASE j # l - k
  <2>1. UNCHANGED state /\ raw' = Drop(raw, j)
    BY <1>2, <1>14, <1>22
  <2>2. Window' /\ Consumed' = b + 3 + (k + j)
    <3>1. Window' /\ Consumed' = Consumed + j
      BY <1>1, <1>4, <1>15, <2>1, Dropped
    <3> QED BY <1>8, <1>16, <3>1
  <2>3. k + j \in 0 .. l - 1
    BY <1>9, <1>13, <1>14, <1>16, <1>22
  <2>4. InChunk(n)'
    <3>1. /\ Consumed' = Base(stream', n, c) + 3 + (k + j)
          /\ tmp' = Context(stream', n,
                            Cat(Parts(stream', n, c - 1), SubSeq(stream'[n].parts[c], 1, k + j)),
                            Len(stream'[n].parts[c]) - (k + j))
      BY <1>1, <1>18, <2>2, Zenon DEF q, part, l, b, before
    <3>2. c \in 1 .. Len(stream'[n].parts) /\ k + j \in 0 .. Len(stream'[n].parts[c]) - 1
      BY <1>1, <1>10, <2>3 DEF q, part, l
    <3>3. n <= Len(stream') /\ stream'[n].kind = "chunked"
      BY <1>1, <1>6
    <3>4. state' = "READ_CHUNK_DATA"
      BY <1>1, <2>1
    <3> QED BY <3>1, <3>2, <3>3, <3>4, Zenon DEF InChunk
  <2>5. At(n)'
    BY <1>20, <2>4 DEF At, Waiting
  <2>6. IInv'
    BY <1>19, <1>20, <2>2, <2>5 DEF IInv
  <2> QED BY <1>1, <1>21, <2>6 DEF Seen
<1>23. CASE j = l - k
  <2> DEFINE r == Drop(raw, j)
             next == Base(stream, n, c + 1)
  <2>1. state' = "READ_CHUNK_SIZE" /\ raw' = WithoutCRLF(r)
    BY <1>2, <1>14, <1>23
  <2>2. /\ r \in Seq(Tokens) /\ Len(r) = Len(raw) - j /\ Len(r) \in Nat
        /\ \A i \in 1 .. Len(raw) - j : r[i] = raw[j + i]
    <3>1. /\ r \in Seq(Tokens) /\ Len(r) = Len(raw) - j
          /\ \A i \in 1 .. Len(raw) - j : r[i] = raw[j + i]
      BY <1>5, <1>15, DropIs
    <3> HIDE DEF r
    <3> QED BY <1>5, <1>14, <3>1
  <2>3. next \in Nat /\ next = b + 5 + l /\ Consumed + j = next - 2
    <3>1. next = b + 5 + l
      BY <1>11
    <3>2. k + j = l
      BY ONLY <1>n, <1>23
    <3> HIDE DEF next
    <3> QED BY ONLY <1>n, <3>1, <3>2
  <2>4. tmp' = Context(stream, n, Parts(stream, n, c), 0)
    <3>1. k + j = l /\ l - (k + j) = 0
      BY <1>9, <1>13, <1>23
    <3>2. SubSeq(part, 1, l) = part
      BY <1>9, SubSeqFull DEF l
    <3> QED BY <1>9, <1>18, <3>1, <3>2, Zenon
  <2>5. c + 1 \in 1 .. Len(q) + 1 /\ c + 1 - 1 = c /\ c + 1 > 1
    BY <1>9, <1>10
  <2>6. Wire(stream)[next - 1] = CR /\ Wire(stream)[next] = LF
    <3>1. Wire(stream)[b + 4 + l] = CR /\ Wire(stream)[b + 5 + l] = LF
      BY <1>11 DEF ChunkIn, l
    <3>2. next - 1 = b + 4 + l
      BY <1>9, <1>11, <2>3
    <3> QED BY <2>3, <3>1, <3>2
  <2> HIDE DEF r, next
  <2>7. ASSUME Window', Consumed' = next \/ (Consumed' = next - 2 /\ ("seam" \in cuts \/ Len(raw') = 1))
        PROVE  IInv' /\ Seen
    <3>1. \/ Consumed' = Base(stream', n, c + 1)
          \/ /\ c + 1 > 1
             /\ Consumed' = Base(stream', n, c + 1) - 2
             /\ "seam" \in cuts' \/ (pc' # "wait" /\ Len(raw') = 1)
      BY <1>1, <1>20, <2>5, <2>7 DEF next
    <3>2. tmp' = Context(stream', n, Parts(stream', n, (c + 1) - 1), 0)
      <4>1. stream' = stream /\ (c + 1) - 1 = c
        BY <1>1, <2>5
      <4> QED BY <2>4, <4>1, Zenon
    <3>3. c + 1 \in 1 .. Len(stream'[n].parts) + 1
      BY <1>1, <2>5 DEF q
    <3>4. n <= Len(stream') /\ stream'[n].kind = "chunked"
      BY <1>1, <1>6
    <3>5. AtSize(n)'
      BY <2>1, <3>1, <3>2, <3>3, <3>4, Zenon DEF AtSize
    <3>6. At(n)'
      BY <1>20, <3>5 DEF At, Waiting
    <3>7. IInv'
      BY <1>19, <1>20, <2>7, <3>6 DEF IInv
    <3> QED BY <1>1, <1>21, <3>7 DEF Seen
  <2>8. CASE IsPrefix(CRLF, r)
    <3>1. 2 <= Len(r)
      BY <2>2, <2>8, PrefixIs, LineEnd
    <3>2. raw' = Drop(raw, j + 2)
      <4>1. j + 2 <= Len(raw)
        BY <1>5, <1>14, <2>2, <3>1
      <4>2. Drop(Drop(raw, j), 2) = Drop(raw, j + 2)
        BY <1>5, <1>14, <4>1, DropTwice
      <4> QED BY <2>1, <2>8, <4>2, Zenon DEF WithoutCRLF, r
    <3>3. j + 2 \in 0 .. Len(raw) /\ Consumed + (j + 2) = next
      <4>1. Len(r) \in Nat /\ Len(r) = Len(raw) - j
        BY <2>2
      <4> QED BY ONLY <1>n, <2>3, <3>1, <4>1
    <3>4. Window' /\ Consumed' = Consumed + (j + 2)
      BY <1>1, <1>4, <3>2, <3>3, Dropped
    <3> QED BY <2>7, <3>3, <3>4
  <2>9. CASE ~ IsPrefix(CRLF, r)
    <3>1. raw' = r
      BY <2>1, <2>9 DEF WithoutCRLF
    <3>2. Window' /\ Consumed' = Consumed + j
      BY <1>1, <1>4, <1>15, <3>1, Dropped DEF r
    <3>3. Len(r) < 2
      <4> SUFFICES ASSUME Len(r) >= 2 PROVE FALSE
        BY <2>2
      <4>1. 1 \in 1 .. Len(raw) - j /\ 2 \in 1 .. Len(raw) - j
        BY <1>5, <1>14, <2>2
      <4>2. r[1] = raw[j + 1] /\ r[2] = raw[j + 2]
        BY <2>2, <4>1
      <4>3. j + 1 \in 1 .. Len(raw) /\ j + 2 \in 1 .. Len(raw)
        BY <1>5, <1>14, <2>2
      <4>4. raw[j + 1] = Wire(stream)[Consumed + (j + 1)] /\ raw[j + 2] = Wire(stream)[Consumed + (j + 2)]
        BY <1>4, <4>3 DEF Window
      <4>5. Consumed + (j + 1) = next - 1 /\ Consumed + (j + 2) = next
        BY ONLY <1>n, <2>3
      <4>6. r[1] = CR /\ r[2] = LF
        BY <2>6, <4>2, <4>4, <4>5
      <4>7. Len(CRLF) <= Len(r) /\ \A i \in 1 .. Len(CRLF) : CRLF[i] = r[i]
        BY LineEnd, <4>6
      <4> QED BY <2>2, <2>9, <4>7, PrefixIs, LineEnd
    <3>4. CASE Len(r) = 1
      BY <2>3, <2>7, <3>1, <3>2, <3>4
    <3>5. CASE Len(r) = 0
      <4>1. fed = next - 2 /\ fed > 0
        BY SMTT(30), <1>5, <1>9, <1>11, <1>14, <2>2, <2>3, <3>5
      <4>2. Cuts(stream)[next - 2] = "seam"
        <5>1. c \in 1 .. Len(stream[n].parts)
          BY <1>10 DEF q
        <5> QED BY <1>5, <1>6, <5>1, CutsAre DEF next
      <4>3. "seam" \in cuts
        BY <4>1, <4>2 DEF IInv, CutsKnown
      <4> QED BY <2>3, <2>7, <3>2, <4>3
    <3> QED BY <2>2, <3>3, <3>4, <3>5
  <2> QED BY <2>8, <2>9
<1> QED BY <1>22, <1>23

-----------------------------------------------------------------------------
(* The theorems.                                                           *)

LEMMA StepInvariant == IInv /\ [Next]_vars => IInv' /\ (Seen \/ UNCHANGED vars)
<1> SUFFICES ASSUME IInv, [Next]_vars PROVE IInv' /\ (Seen \/ UNCHANGED vars)
  OBVIOUS
<1>1. CASE Next
  BY <1>1, ReadKeeps, ParseEndsKeeps, HeaderIncompleteKeeps, ParseHeaderKeeps,
     ParseBodyKeeps, EnterChunkedKeeps, ChunkedEndsKeeps, ChunkSizeKeeps, ChunkDataKeeps,
     Zenon DEF Next, Parse
<1>2. CASE UNCHANGED vars
  <2>1. /\ stream' = stream /\ fed' = fed /\ cuts' = cuts /\ raw' = raw
        /\ state' = state /\ tmp' = tmp /\ delivered' = delivered /\ pc' = pc
    BY <1>2 DEF vars
  <2>2. Window' /\ CutsKnown' /\ tmp' \in Contexts /\ pc' \in {"wait", "parse", "chunk", "killed"}
    BY <2>1, Zenon DEF IInv, Window, CutsKnown, Consumed
  <2>3. Killed => Killed'
    BY <2>1, Zenon DEF Killed, HandedBefore
  <2>4. \A n : At(n) => At(n)'
    BY <2>1, ZenonT(40) DEF At, HandedBefore, AtHeader, InBody, AtSize, InChunk, Waiting, Consumed
  <2> QED BY <1>2, <2>1, <2>2, <2>3, <2>4 DEF IInv
<1> QED BY <1>1, <1>2

THEOREM InductiveInvariant == Spec => []IInv
<1>1. IInv /\ [Next]_vars => IInv'
  BY StepInvariant
<1> QED BY <1>1, InitInvariant, PTL DEF Spec

\* What has been handed over, whatever the parser is doing.
LEMMA SomeoneHanded ==
  ASSUME IInv
  PROVE  \E n \in 1 .. Len(stream) + 1 : HandedBefore(n)
BY DEF IInv, Killed, At

LEMMA TypeHolds == IInv => TypeOK
<1> SUFFICES ASSUME IInv PROVE TypeOK
  OBVIOUS
<1>1. Window /\ tmp \in Contexts /\ pc \in {"wait", "parse", "chunk", "killed"}
      /\ cuts \subseteq {"safe", "line", "seam"}
  BY DEF IInv, CutsKnown
<1>2. raw \in Seq(Range(Wire(stream)))
  <2>1. /\ raw \in Seq(Tokens) /\ Len(raw) \in Nat /\ Consumed \in Nat
        /\ Wire(stream) \in Seq(Tokens) /\ Len(Wire(stream)) \in Nat
        /\ Consumed + Len(raw) = fed /\ fed <= Len(Wire(stream))
    BY <1>1, StreamIs
  <2> DEFINE w == Wire(stream)
             l == Len(raw)
  <2>2. ASSUME NEW i \in 1 .. l PROVE raw[i] \in Range(w)
    <3>1. Consumed + i \in 1 .. Len(w)
      BY <2>1, <2>2
    <3>2. raw[i] = w[Consumed + i]
      BY <1>1, <2>2 DEF Window
    <3>3. DOMAIN w = 1 .. Len(w)
      BY <2>1
    <3> QED BY <3>1, <3>2, <3>3 DEF Range
  <2>3. raw = [i \in 1 .. l |-> raw[i]]
    BY <2>1
  <2> QED BY <2>1, <2>2, <2>3, MakesSeq
<1>3. state \in ConnState
  <2>1. CASE pc = "killed"
    BY <2>1 DEF IInv, Killed
  <2>2. CASE pc # "killed"
    BY <2>2 DEF IInv, At, AtHeader, InBody, AtSize, InChunk, ConnState
  <2> QED BY <2>1, <2>2
<1>4. \A c \in Contexts : DOMAIN c = DOMAIN NoContext
  BY DEF Contexts, NoContext
<1>5. \A i \in DOMAIN delivered : delivered[i] \in Contexts
  <2>1. delivered \in Seq(Contexts)
    BY SomeoneHanded DEF HandedBefore
  <2> QED BY <2>1
<1>6. tmp.remaining \in Nat
  BY <1>1 DEF Contexts
<1> QED BY <1>1, <1>2, <1>3, <1>4, <1>5, <1>6 DEF TypeOK, Window

\* However the stream is cut, the parser's state keeps its type.
THEOREM TypeCorrect == Spec => []TypeOK
BY InductiveInvariant, TypeHolds, PTL

\* A context that has been handed over is one of the stream's good messages.
LEMMA DeliveredAre ==
  ASSUME IInv, NEW i \in DOMAIN delivered
  PROVE  \E k \in 1 .. Len(stream) :
           /\ k \in GoodsOf(stream) /\ Rank(stream, k) + 1 = i
           /\ delivered[i] = Handed(stream, k)
           /\ Number(delivered[i]) = k
<1>1. PICK n \in 1 .. Len(stream) + 1 : HandedBefore(n)
  BY SomeoneHanded
<1>2. Window /\ stream \in Seq(SomeMessages) /\ Len(stream) \in Nat
      /\ DOMAIN stream = 1 .. Len(stream)
  BY StreamIs DEF IInv
<1>3. i \in 1 .. Rank(stream, n)
  <2>1. delivered \in Seq(Contexts) /\ Len(delivered) = Rank(stream, n)
    BY <1>1 DEF HandedBefore
  <2> QED BY <2>1
<1>4. PICK k \in Below(stream, n) : Rank(stream, k) + 1 = i
  BY <1>2, <1>3, RankTaken
<1>5. k \in GoodsOf(stream) /\ k \in 1 .. Len(stream)
  BY <1>2, <1>4, RankType
<1>6. delivered[i] = Handed(stream, k)
  BY <1>1, <1>4 DEF HandedBefore
<1>7. Number(delivered[i]) = k
  <2>1. delivered[i].header = HeaderOf(stream, k)
    BY <1>6 DEF Handed, Context
  <2>2. stream \in Streams /\ k \in 1 .. Len(stream) + 1
    BY <1>2, <1>5 DEF Window
  <2>3. HeadOnly(HeaderOf(stream, k), k)
    BY <2>2, HeadersAre
  <2>4. Min(HeadsIn(HeaderOf(stream, k))) = k
    BY <1>2, <1>5, <2>3, OneHead
  <2> QED BY <2>1, <2>4 DEF Number
<1> QED BY <1>4, <1>5, <1>6, <1>7

LEMMA HeadersHold == IInv => HeadersAsSent
<1> SUFFICES ASSUME IInv, NEW i \in DOMAIN delivered
             PROVE  LET n == Number(delivered[i])
                        left == IF n > 1 THEN Leftover(stream[n - 1]) ELSE <<>>
                    IN delivered[i].header = left \o Rebuilt(<<HeadLine(n)>>)
  BY Zenon DEF HeadersAsSent
<1>1. PICK k \in 1 .. Len(stream) : delivered[i] = Handed(stream, k) /\ Number(delivered[i]) = k
  BY DeliveredAre
<1>2. delivered[i].header = HeaderOf(stream, k)
  BY <1>1 DEF Handed, Context
<1>3. delivered[i].header = Left(stream, k) \o Rebuilt(<<HeadLine(k)>>)
  BY <1>2, Zenon DEF HeaderOf, Cat
<1>4. Left(stream, k) = IF k > 1 THEN Leftover(stream[k - 1]) ELSE <<>>
  BY Zenon DEF Left
<1> QED BY <1>1, <1>3, <1>4, Zenon

\* A header goes on as it was sent, behind what the parser left of the message before.
THEOREM HeadersAlwaysAsSent == Spec => []HeadersAsSent
BY InductiveInvariant, HeadersHold, PTL

-----------------------------------------------------------------------------
(* What has arrived, and what has been handed over.                        *)

ArrivedOf(s, upto) == {n \in GoodsOf(s) : CompleteAt(s, n) <= upto}

OfRank(s, r) == CHOOSE n \in GoodsOf(s) : Rank(s, n) = r

LEMMA GoodsAre ==
  ASSUME Window
  PROVE  /\ Goods = GoodsOf(stream)
         /\ ArrivedCount = Cardinality(ArrivedOf(stream, fed))
         /\ \A i : Good(i) = OfRank(stream, i - 1)
<1>1. Goods = GoodsOf(stream)
  BY StreamIs DEF Goods, GoodsOf
<1>2. ArrivedCount = Cardinality(ArrivedOf(stream, fed))
  BY <1>1, Zenon DEF ArrivedCount, ArrivedOf
<1>3. ASSUME NEW i PROVE Good(i) = OfRank(stream, i - 1)
  BY <1>1, Zenon DEF Good, OfRank, Rank, Below
<1> QED BY <1>1, <1>2, <1>3

\* An exception ends the worker only after a cut between data and CRLF, or in the
\* first message not yet handed over: a length no string holds, a line stoul refuses.
THEOREM AlwaysKilledOnlyForCause == Spec => []KilledOnlyForCause
<1>1. IInv => KilledOnlyForCause
  <2> SUFFICES ASSUME IInv, pc = "killed", "seam" \notin cuts
               PROVE  \E n \in DOMAIN stream :
                        /\ IsDeadly(stream[n])
                        /\ Len(delivered) = Cardinality({k \in Goods : k < n})
    BY DEF KilledOnlyForCause
  <2>1. PICK n \in 1 .. Len(stream) + 1 :
          HandedBefore(n) /\ n \in DOMAIN stream /\ IsDeadly(stream[n])
    BY Zenon DEF IInv, Killed
  <2>2. Rank(stream, n) = Cardinality({k \in Goods : k < n})
    BY GoodsAre, Zenon DEF IInv, Rank, Below
  <2> QED BY <2>1, <2>2, Zenon DEF HandedBefore
<1> QED BY <1>1, InductiveInvariant, PTL

LEMMA ArrivedIs ==
  ASSUME NEW s \in Seq(SomeMessages), NEW upto \in Nat, NEW more \in Nat, upto <= more
  PROVE  /\ Cardinality(ArrivedOf(s, upto)) \in Nat
         /\ Cardinality(ArrivedOf(s, upto)) <= Cardinality(ArrivedOf(s, more))
         /\ Cardinality(ArrivedOf(s, more)) <= Cardinality(GoodsOf(s))
         /\ Cardinality(ArrivedOf(s, more)) \in Nat
<1>1. Len(s) \in Nat
  BY LenProperties
<1>2. IsFiniteSet(GoodsOf(s)) /\ GoodsOf(s) \subseteq 1 .. Len(s)
  BY <1>1, RankType
<1>3. ArrivedOf(s, upto) \subseteq ArrivedOf(s, more)
  <2> SUFFICES ASSUME NEW n \in ArrivedOf(s, upto) PROVE n \in ArrivedOf(s, more)
    OBVIOUS
  <2>1. n \in GoodsOf(s) /\ CompleteAt(s, n) <= upto
    BY DEF ArrivedOf
  <2>2. n \in 1 .. Len(s)
    BY <1>2, <2>1
  <2>3. CompleteAt(s, n) \in Nat
    BY <2>2, CompleteIs
  <2>4. CompleteAt(s, n) <= more
    BY <2>1, <2>3
  <2> QED BY <2>1, <2>4 DEF ArrivedOf
<1>4. ArrivedOf(s, more) \subseteq GoodsOf(s)
  BY DEF ArrivedOf
<1>5. IsFiniteSet(ArrivedOf(s, more)) /\ Cardinality(ArrivedOf(s, more)) <= Cardinality(GoodsOf(s))
  BY <1>2, <1>4, FS_Subset
<1>6. IsFiniteSet(ArrivedOf(s, upto))
      /\ Cardinality(ArrivedOf(s, upto)) <= Cardinality(ArrivedOf(s, more))
  BY <1>3, <1>5, FS_Subset
<1> QED BY <1>5, <1>6, FS_CardinalityType

\* No chunk begins before the end of its message's header.
LEMMA BaseNotBelow ==
  ASSUME NEW s \in Seq(SomeMessages), NEW n \in 1 .. Len(s), s[n].kind = "chunked",
         NEW c \in 1 .. Len(s[n].parts) + 1
  PROVE  Place(s, n) + 5 <= Base(s, n, c)
<1>1. s[n] \in SomeMessages
  BY EncodedIs
<1>2. ChunkAt(s[n], c) \in Nat
  BY <1>1, ChunkPlace
<1>3. Place(s, n) \in Nat
  BY PlaceIs
<1> DEFINE p == Place(s, n)
           a == ChunkAt(s[n], c)
<1>4. Base(s, n, c) = p + 5 + a
  BY DEF Base
<1> HIDE DEF p, a
<1>5. p + 5 <= p + 5 + a
  BY <1>2, <1>3 DEF p, a
<1> QED BY <1>4, <1>5 DEF p

\* Where the parser is tells what of the stream it can still be waiting for.
LEMMA PlaceOfParser ==
  ASSUME IInv, NEW n \in 1 .. Len(stream) + 1, At(n)
  PROVE  /\ Place(stream, n) - LeftLen(stream, n) <= Consumed
         /\ n <= Len(stream) => Consumed < CompleteAt(stream, n)
<1> DEFINE s == stream
           p == Place(s, n)
           left == LeftLen(s, n)
           complete == CompleteAt(s, n)
           after == Place(s, n + 1)
           here == Consumed
<1>1. stream \in Seq(SomeMessages) /\ Len(stream) \in Nat /\ here \in Nat
  BY StreamIs DEF IInv
<1>2. p \in Nat /\ left \in Nat /\ p - left \in Nat
  BY <1>1, LeftInWire
<1>3. n <= Len(stream) => n \in 1 .. Len(stream)
  BY <1>1
<1>4. n <= Len(stream) => complete \in Nat /\ p + 5 <= complete
  BY <1>1, <1>3, CompleteIs
<1>5. CASE AtHeader(n)
  <2>1. here = p - left
    BY <1>5 DEF AtHeader
  <2> HIDE DEF here, p, left, complete
  <2>2. p - left <= here /\ (n <= Len(stream) => here < complete)
    BY <1>2, <1>4, <2>1
  <2> QED BY <2>2 DEF here, p, left, complete
<1>6. CASE InBody(n)
  <2>1. n \in 1 .. Len(stream) /\ s[n].kind = "length"
    BY <1>3, <1>6, Zenon DEF InBody
  <2> DEFINE l == Len(Body(s[n]))
  <2>2. PICK k \in 0 .. l - 1 : here = p + 5 + k
    BY <1>6, Zenon DEF InBody
  <2>3. l \in Nat /\ after = p + 5 + l /\ after \in Nat
    BY <1>1, <2>1, EncodedIs, PlaceIs
  <2>4. complete = after - LeftLen(s, n + 1)
    BY <1>1, <2>1, CompleteIs
  <2>5. LeftLen(s, n + 1) = 0
    <3>1. s[n] \in SomeMessages /\ LeftLen(s, n + 1) = Len(Leftover(s[n]))
      BY <1>1, <2>1, EncodedIs, LeftNext
    <3> QED BY <2>1, <3>1, LeftoverIs
  <2> HIDE DEF here, p, left, complete, l, after
  <2>6. complete = p + 5 + l
    BY <1>2, <2>3, <2>4, <2>5
  <2>7. p - left <= here /\ here < complete
    BY <1>2, <2>2, <2>3, <2>6
  <2> QED BY <2>7 DEF here, p, left, complete
<1>7. ASSUME n \in 1 .. Len(stream), s[n].kind = "chunked",
             NEW c \in 1 .. Len(s[n].parts) + 1,
             \/ here = Base(s, n, c)
             \/ c > 1 /\ here = Base(s, n, c) - 2
             \/ \E k \in 0 .. Len(AllParts(s[n])[c]) - 1 : here = Base(s, n, c) + 3 + k
      PROVE  p - left <= here /\ here < complete
  <2> DEFINE b == Base(s, n, c)
             l == Len(AllParts(s[n])[c])
             d == Base(s, n, c - 1)
  <2>1. b \in Nat /\ l \in Nat /\ b + 5 + l <= after /\ Base(s, n, 1) = p + 5
    BY <1>1, <1>7, BaseIs
  <2>2. complete = after - 2 /\ after \in Nat
    <3>1. LeftLen(s, n + 1) = 2
      BY <1>1, <1>7, EncodedIs, LeftNext, LeftoverIs
    <3> QED BY <1>1, <1>7, <3>1, CompleteIs, PlaceIs
  <2>3. p + 5 <= b /\ (c > 1 => p + 10 <= b)
    <3>1. CASE c = 1
      BY <1>2, <2>1, <3>1
    <3>2. CASE c # 1
      <4>1. Len(s[n].parts) \in Nat
        BY <1>1, <1>7, EncodedIs, PartsAre
      <4> DEFINE e == c - 1
      <4>2. e \in 1 .. Len(s[n].parts) + 1 /\ e + 1 = c
        BY <3>2, <4>1
      <4>3. /\ Base(s, n, e) \in Nat /\ Len(AllParts(s[n])[e]) \in Nat
            /\ b = Base(s, n, e) + 5 + Len(AllParts(s[n])[e])
        <5> HIDE DEF e, p, left, complete, after, here, l, d
        <5> QED BY SMTT(30), <1>1, <1>7, <4>2, BaseIs
      <4>4. p + 5 <= Base(s, n, e)
        BY <1>1, <1>7, <4>2, BaseNotBelow
      <4> DEFINE start == Base(s, n, e)
                 size == Len(AllParts(s[n])[e])
      <4>5. b = start + 5 + size /\ p + 5 <= start /\ start \in Nat /\ size \in Nat /\ p \in Nat
        BY <1>2, <4>3, <4>4
      <4> HIDE DEF p, b, e, start, size
      <4> QED BY <4>5
    <3> QED BY <3>1, <3>2
  <2> HIDE DEF b, l, p, left, complete, after, here
  <2>4. CASE here = b
    BY <1>2, <2>1, <2>2, <2>3, <2>4
  <2>5. CASE c > 1 /\ here = b - 2
    BY <1>2, <2>1, <2>2, <2>3, <2>5
  <2>6. CASE \E k \in 0 .. l - 1 : here = b + 3 + k
    BY <1>2, <2>1, <2>2, <2>3, <2>6
  <2>7. here = b \/ (c > 1 /\ here = b - 2) \/ \E k \in 0 .. l - 1 : here = b + 3 + k
    BY <1>7, Zenon DEF b, l
  <2> QED BY <2>4, <2>5, <2>6, <2>7
<1>8. CASE AtSize(n)
  <2>1. n \in 1 .. Len(stream) /\ s[n].kind = "chunked"
    BY <1>3, <1>8, Zenon DEF AtSize
  <2>2. PICK c \in 1 .. Len(s[n].parts) + 1 :
          here = Base(s, n, c) \/ (c > 1 /\ here = Base(s, n, c) - 2)
    BY <1>8, Zenon DEF AtSize
  <2> HIDE DEF here, p, left, complete
  <2>3. p - left <= here /\ here < complete
    BY <1>7, <2>1, <2>2
  <2> QED BY <2>3 DEF here, p, left, complete
<1>9. CASE InChunk(n)
  <2>1. n \in 1 .. Len(stream) /\ s[n].kind = "chunked"
    BY <1>3, <1>9, Zenon DEF InChunk
  <2>2. PICK c \in 1 .. Len(s[n].parts) :
          \E k \in 0 .. Len(s[n].parts[c]) - 1 : here = Base(s, n, c) + 3 + k
    BY <1>9, Zenon DEF InChunk
  <2>3. Len(s[n].parts) \in Nat /\ AllParts(s[n])[c] = s[n].parts[c]
    BY <1>1, <2>1, EncodedIs, PartsAre
  <2>4. c \in 1 .. Len(s[n].parts) + 1
    BY <2>3
  <2>5. \E k \in 0 .. Len(AllParts(s[n])[c]) - 1 : here = Base(s, n, c) + 3 + k
    BY <2>2, <2>3
  <2> HIDE DEF here, p, left, complete
  <2>6. p - left <= here /\ here < complete
    BY <1>7, <2>1, <2>4, <2>5
  <2> QED BY <2>6 DEF here, p, left, complete
<1> QED BY <1>5, <1>6, <1>8, <1>9 DEF At

LEMMA NothingLeft == IInv => NothingLeftBehind
<1> SUFFICES ASSUME IInv, pc = "wait" PROVE Len(delivered) = ArrivedCount
  BY DEF NothingLeftBehind
<1>1. PICK n \in 1 .. Len(stream) + 1 : At(n)
  BY DEF IInv
<1>2. /\ stream \in Seq(SomeMessages) /\ Len(stream) \in Nat /\ Consumed \in Nat
      /\ Len(raw) \in Nat /\ Consumed + Len(raw) = fed /\ fed \in Nat
  BY StreamIs DEF IInv
<1>3. /\ Place(stream, n) - LeftLen(stream, n) <= Consumed
      /\ n <= Len(stream) => Consumed < CompleteAt(stream, n)
  BY <1>1, PlaceOfParser
<1>4. n <= Len(stream) => fed < CompleteAt(stream, n)
  <2> SUFFICES ASSUME n <= Len(stream) PROVE fed < CompleteAt(stream, n)
    OBVIOUS
  <2>1. n \in 1 .. Len(stream)
    BY <1>2
  <2>2. /\ CompleteAt(stream, n) \in Nat /\ Place(stream, n) \in Nat
        /\ Place(stream, n) + 5 <= CompleteAt(stream, n)
    BY <1>2, <2>1, CompleteIs, PlaceIs
  <2>3. CASE raw = <<>>
    <3>1. Len(raw) = 0
      BY <2>3
    <3>2. fed = Consumed
      BY <1>2, <3>1
    <3> QED BY <1>3, <3>2
  <2>4. CASE fed < Place(stream, n) + 5
    BY <1>2, <2>2, <2>4
  <2> QED BY <1>1, <2>3, <2>4 DEF At, Waiting
<1>5. ASSUME NEW k \in GoodsOf(stream)
      PROVE  CompleteAt(stream, k) <= fed <=> k < n
  <2>1. k \in 1 .. Len(stream)
    BY <1>2, RankType
  <2>2. /\ CompleteAt(stream, k) \in Nat /\ Place(stream, k) \in Nat
        /\ Place(stream, k) + 5 <= CompleteAt(stream, k)
    BY <1>2, <2>1, CompleteIs, PlaceIs
  <2>3. CASE k < n
    <3>1. CompleteAt(stream, k) <= Place(stream, n) - LeftLen(stream, n)
      BY <1>2, <2>1, <2>3, CompleteBelow
    <3>2. Place(stream, n) - LeftLen(stream, n) \in Nat
      BY <1>2, LeftInWire
    <3> QED BY <1>2, <1>3, <2>2, <2>3, <3>1, <3>2
  <2>4. CASE k = n
    BY <1>2, <1>4, <2>1, <2>2, <2>4
  <2>5. CASE k > n
    <3>1. n \in 1 .. Len(stream) /\ n <= Len(stream) /\ k \in 1 .. Len(stream) + 1
      BY <1>2, <2>1, <2>5
    <3>2. CompleteAt(stream, n) <= Place(stream, k) - LeftLen(stream, k)
          /\ CompleteAt(stream, n) \in Nat
      BY <1>2, <2>5, <3>1, CompleteBelow, CompleteIs
    <3>3. LeftLen(stream, k) \in Nat
      BY <1>2, <3>1, LeftInWire
    <3>4. fed < CompleteAt(stream, n)
      BY <1>4, <3>1
    <3>5. fed < CompleteAt(stream, k)
      BY <1>2, <2>2, <3>2, <3>3, <3>4
    <3> QED BY <1>2, <2>1, <2>2, <2>5, <3>5
  <2> QED BY <2>1, <2>3, <2>4, <2>5
<1>6. ArrivedOf(stream, fed) = Below(stream, n)
  BY <1>5 DEF ArrivedOf, Below
<1>7. ArrivedCount = Rank(stream, n)
  BY <1>6, GoodsAre DEF IInv, Rank
<1> QED BY <1>1, <1>7 DEF At, HandedBefore

\* The parser never goes to wait with a complete message in raw_buffer.
THEOREM NothingEverLeftBehind == Spec => []NothingLeftBehind
BY InductiveInvariant, NothingLeft, PTL

-----------------------------------------------------------------------------
(* The parser implements Framing.                                          *)

\* What Framing sees of the parser.
Message(i) == [number |-> Good(i), content |-> ContentOf(stream[Good(i)])]
Sent == [i \in 1 .. Cardinality(Goods) |-> Message(i)]
Passed(context) == [number |-> Number(context), content |-> context.content]
PassedOn == [i \in DOMAIN delivered |-> Passed(delivered[i])]

LEMMA FramingIs ==
  /\ F!Init <=> ArrivedCount = 0 /\ PassedOn = <<>>
  /\ F!Arrive <=>
       /\ ArrivedCount' \in ArrivedCount + 1 .. Len(Sent)
       /\ UNCHANGED <<Sent, PassedOn>>
  /\ F!HandOver <=>
       /\ Len(PassedOn) < ArrivedCount
       /\ PassedOn' = Append(PassedOn, Sent[Len(PassedOn) + 1])
       /\ UNCHANGED <<Sent, ArrivedCount>>
  /\ F!Next <=> F!Arrive \/ F!HandOver
  /\ UNCHANGED F!vars <=> UNCHANGED <<Sent, ArrivedCount, PassedOn>>
BY DEF F!Init, F!Arrive, F!HandOver, F!Next, F!vars, Sent, Message, PassedOn, Passed

LEMMA InitImplements == Init => F!Init
<1> SUFFICES ASSUME Init PROVE F!Init
  OBVIOUS
<1>1. IInv /\ fed = 0 /\ delivered = <<>>
  BY InitInvariant DEF Init
<1>2. stream \in Seq(SomeMessages) /\ Len(stream) \in Nat
  BY <1>1, StreamIs DEF IInv
<1>3. ArrivedOf(stream, 0) = {}
  <2> SUFFICES ASSUME NEW n \in GoodsOf(stream), CompleteAt(stream, n) <= 0 PROVE FALSE
    BY DEF ArrivedOf
  <2>1. n \in 1 .. Len(stream)
    BY <1>2, RankType
  <2>2. /\ CompleteAt(stream, n) \in Nat /\ Place(stream, n) \in Nat
        /\ Place(stream, n) + 5 <= CompleteAt(stream, n)
    BY <1>2, <2>1, CompleteIs, PlaceIs
  <2> QED BY <2>2
<1>4. ArrivedCount = 0
  BY <1>1, <1>3, GoodsAre, FS_EmptySet DEF IInv
<1>5. PassedOn = <<>>
  BY <1>1 DEF PassedOn
<1> QED BY <1>4, <1>5, FramingIs

\* A good message's number is found again from its place in the order.
LEMMA GoodOfRank ==
  ASSUME Window, NEW n \in GoodsOf(stream)
  PROVE  Good(Rank(stream, n) + 1) = n
<1>1. Len(stream) \in Nat
  BY StreamIs
<1>2. Rank(stream, n) \in Nat
  BY <1>1, RankType
<1>3. Good(Rank(stream, n) + 1) = OfRank(stream, Rank(stream, n))
  <2>1. (Rank(stream, n) + 1) - 1 = Rank(stream, n)
    BY <1>2
  <2> DEFINE next == Rank(stream, n) + 1
  <2>2. Good(next) = OfRank(stream, next - 1)
    <3> HIDE DEF next
    <3>1. \A i : Good(i) = OfRank(stream, i - 1)
      BY GoodsAre
    <3> QED BY <3>1
  <2>3. next - 1 = Rank(stream, n)
    BY <2>1
  <2> HIDE DEF next
  <2>4. Good(next) = OfRank(stream, Rank(stream, n))
    BY <2>2, <2>3, Zenon
  <2> QED BY <2>4 DEF next
<1>4. \A k \in GoodsOf(stream) : Rank(stream, k) = Rank(stream, n) => k = n
  BY <1>1, RankTells
<1>5. OfRank(stream, Rank(stream, n)) = n
  BY <1>4 DEF OfRank
<1> QED BY <1>3, <1>5

LEMMA SentStays == Window /\ UNCHANGED stream => UNCHANGED Sent
<1> SUFFICES ASSUME Window, UNCHANGED stream PROVE UNCHANGED Sent
  OBVIOUS
<1>1. Goods' = Goods
  BY DEF Goods
<1>2. \A i : Good(i)' = Good(i)
  BY <1>1, Zenon DEF Good
<1>3. \A i : Message(i)' = Message(i)
  BY <1>2 DEF Message
<1> QED BY <1>1, <1>3, Zenon DEF Sent

LEMMA StepImplements == IInv /\ [Next]_vars => [F!Next]_(F!vars)
<1> SUFFICES ASSUME IInv, [Next]_vars PROVE F!Next \/ UNCHANGED F!vars
  OBVIOUS
<1>1. IInv' /\ (Seen \/ UNCHANGED vars)
  BY StepInvariant
<1>2. UNCHANGED stream
  BY <1>1 DEF Seen, vars
<1>3. Window /\ Window'
  BY <1>1 DEF IInv
<1>4. UNCHANGED Sent
  BY <1>2, <1>3, SentStays
<1>5. \A context : Number(context)' = Number(context)
  BY <1>2, Zenon DEF Number, HeadsIn
<1>6. \A context : Passed(context)' = Passed(context)
  BY <1>5, Zenon DEF Passed
<1>7. /\ stream \in Seq(SomeMessages) /\ Len(stream) \in Nat /\ fed \in Nat
      /\ Goods = GoodsOf(stream)
      /\ ArrivedCount = Cardinality(ArrivedOf(stream, fed))
      /\ ArrivedCount' = Cardinality(ArrivedOf(stream, fed'))
  <2>1. Goods = GoodsOf(stream) /\ ArrivedCount = Cardinality(ArrivedOf(stream, fed))
    BY <1>3, GoodsAre
  <2>2. ArrivedCount' = Cardinality(ArrivedOf(stream, fed'))
    <3>1. Goods' = GoodsOf(stream)
      BY <1>2, <2>1 DEF Goods
    <3>2. ArrivedCount' = Cardinality({n \in Goods' : CompleteAt(stream', n) <= fed'})
      BY Zenon DEF ArrivedCount
    <3> QED BY <1>2, <3>1, <3>2, Zenon DEF ArrivedOf
  <2> QED BY <1>3, <2>1, <2>2, StreamIs
<1>8. Len(Sent) = Cardinality(GoodsOf(stream)) /\ Len(Sent) \in Nat
  <2>1. Cardinality(GoodsOf(stream)) \in Nat
    BY <1>7, RankType
  <2> QED BY <1>7, <2>1 DEF Sent
<1>9. UNCHANGED delivered => UNCHANGED PassedOn
  BY <1>6, Zenon DEF PassedOn
<1>10. CASE UNCHANGED <<fed, delivered>>
  <2>1. UNCHANGED ArrivedCount
    BY <1>7, <1>10
  <2> QED BY <1>4, <1>9, <1>10, <2>1, FramingIs
<1>11. CASE fed' \in fed .. Len(Wire(stream)) /\ UNCHANGED delivered
  <2>1. fed' \in Nat /\ fed <= fed'
    BY <1>7, <1>11
  <2>2. /\ ArrivedCount \in Nat /\ ArrivedCount' \in Nat
        /\ ArrivedCount <= ArrivedCount' /\ ArrivedCount' <= Len(Sent)
    BY <1>7, <1>8, <2>1, ArrivedIs
  <2>3. ArrivedCount' = ArrivedCount \/ ArrivedCount' \in ArrivedCount + 1 .. Len(Sent)
    BY <1>8, <2>2
  <2> QED BY <1>4, <1>9, <1>11, <2>3, FramingIs
<1>12. ASSUME UNCHANGED fed, NEW n \in 1 .. Len(stream), Delivers(n) PROVE F!HandOver
  <2> DEFINE rank == Rank(stream, n)
  <2>1. /\ n \in GoodsOf(stream) /\ HandedBefore(n) /\ CompleteAt(stream, n) <= fed
        /\ delivered' = Append(delivered, Handed(stream, n))
    BY <1>12 DEF Delivers, GoodsOf
  <2>2. delivered \in Seq(Contexts) /\ Len(delivered) = rank /\ rank \in Nat
    BY <1>7, <2>1, RankType DEF HandedBefore
  <2>3. ArrivedCount' = ArrivedCount
    BY <1>7, <1>12
  <2>4. rank < ArrivedCount
    <3>1. Below(stream, n + 1) \subseteq ArrivedOf(stream, fed)
      <4> SUFFICES ASSUME NEW k \in GoodsOf(stream), k < n + 1
                   PROVE  CompleteAt(stream, k) <= fed
        BY DEF Below, ArrivedOf
      <4>1. k \in 1 .. Len(stream)
        BY <1>7, RankType
      <4>2. CASE k = n
        BY <2>1, <4>2
      <4>3. CASE k < n
        <5>1. n \in 1 .. Len(stream) + 1
          BY <1>7
        <5>2. CompleteAt(stream, k) <= Place(stream, n) - LeftLen(stream, n)
          BY <1>7, <4>1, <4>3, <5>1, CompleteBelow
        <5>3. /\ CompleteAt(stream, n) \in Nat /\ Place(stream, n) + 5 <= CompleteAt(stream, n)
              /\ Place(stream, n) \in Nat /\ CompleteAt(stream, k) \in Nat
          BY <1>7, <4>1, CompleteIs, PlaceIs
        <5>4. LeftLen(stream, n) \in Nat
          BY <1>7, <5>1, LeftInWire
        <5> QED BY <1>7, <2>1, <5>2, <5>3, <5>4
      <4> QED BY <1>7, <4>1, <4>2, <4>3
    <3>2. Rank(stream, n + 1) = rank + 1
      BY <1>7, <2>1, RankNext DEF GoodsOf
    <3>3. IsFiniteSet(ArrivedOf(stream, fed))
      <4>1. IsFiniteSet(GoodsOf(stream))
        BY <1>7, RankType
      <4>2. ArrivedOf(stream, fed) \subseteq GoodsOf(stream)
        BY DEF ArrivedOf
      <4> QED BY <4>1, <4>2, FS_Subset
    <3>4. rank + 1 <= ArrivedCount /\ ArrivedCount \in Nat
      BY <1>7, <3>1, <3>2, <3>3, FS_Subset, FS_CardinalityType DEF Rank
    <3> HIDE DEF rank
    <3> QED BY <2>2, <3>4
  <2>5. Sent[rank + 1] = Passed(Handed(stream, n))
    <3>1. Good(rank + 1) = n
      BY <1>3, <2>1, GoodOfRank
    <3>2. rank + 1 \in 1 .. Cardinality(Goods)
      <4>1. ArrivedCount <= Cardinality(Goods) /\ ArrivedCount \in Nat /\ Cardinality(Goods) \in Nat
        BY <1>7, <1>8, ArrivedIs
      <4> HIDE DEF rank
      <4> QED BY <2>2, <2>4, <4>1
    <3>3. Sent[rank + 1] = Message(rank + 1)
      BY <3>2, Zenon DEF Sent
    <3>4. Number(Handed(stream, n)) = n
      <4>1. Handed(stream, n).header = HeaderOf(stream, n)
        BY DEF Handed, Context
      <4>2. n \in Nat /\ n \in DOMAIN stream /\ stream \in Streams /\ n \in 1 .. Len(stream) + 1
        BY <1>3, <1>7 DEF Window
      <4>3. HeadOnly(HeaderOf(stream, n), n)
        BY <4>2, HeadersAre
      <4>4. Min(HeadsIn(HeaderOf(stream, n))) = n
        BY <1>7, <4>2, <4>3, OneHead
      <4> QED BY <4>1, <4>4 DEF Number
    <3>5. Handed(stream, n).content = ContentOf(stream[n])
      BY DEF Handed, Context
    <3> QED BY <3>1, <3>3, <3>4, <3>5, Zenon DEF Message, Passed
  <2>6. Len(PassedOn) = rank /\ PassedOn' = Append(PassedOn, Passed(Handed(stream, n)))
    <3> DEFINE h == Handed(stream, n)
    <3>1. DOMAIN delivered = 1 .. rank
      BY <2>2
    <3>2. PassedOn = [i \in 1 .. rank |-> Passed(delivered[i])]
      BY <3>1, Zenon DEF PassedOn
    <3>3. /\ DOMAIN delivered' = 1 .. rank + 1
          /\ \A i \in 1 .. rank : delivered'[i] = delivered[i]
          /\ delivered'[rank + 1] = h
      <4> HIDE DEF h, rank
      <4> QED BY <2>1, <2>2 DEF h
    <3>4. PassedOn' = [i \in 1 .. rank + 1 |-> Passed(delivered'[i])]
      <4>1. PassedOn' = [i \in DOMAIN delivered' |-> Passed(delivered'[i])]
        BY <1>6, Zenon DEF PassedOn
      <4> QED BY <3>3, <4>1, Zenon
    <3>5. PassedOn' = [i \in 1 .. rank + 1 |-> IF i = rank + 1 THEN Passed(h) ELSE PassedOn[i]]
      <4>1. ASSUME NEW i \in 1 .. rank + 1
            PROVE  Passed(delivered'[i]) = IF i = rank + 1 THEN Passed(h) ELSE PassedOn[i]
        <5>1. CASE i = rank + 1
          BY <3>3, <5>1, Zenon
        <5>2. CASE i # rank + 1
          <6>1. i \in 1 .. rank
            <7> HIDE DEF rank, h
            <7> QED BY <2>2, <5>2
          <6> QED BY <3>2, <3>3, <5>2, <6>1, Zenon
        <5> QED BY <5>1, <5>2
      <4> QED BY <3>4, <4>1, Zenon
    <3>6. Len(PassedOn) = rank
      <4> HIDE DEF rank, h
      <4> QED BY <2>2, <3>2
    <3> DEFINE x == Passed(h)
    <3> HIDE DEF h, rank, x
    <3> QED BY <2>2, <3>2, <3>5, <3>6 DEF x, h
  <2> HIDE DEF rank
  <2> QED BY <1>4, <2>3, <2>4, <2>5, <2>6, Zenon, FramingIs
<1> QED BY <1>1, <1>10, <1>11, <1>12, FramingIs DEF Seen, vars

\* Each message is handed over once, whole, in order, and not before it has arrived.
THEOREM ParserImplementsFraming == Spec => ImplementsFraming
BY InitImplements, StepImplements, InductiveInvariant, PTL
   DEF Spec, ImplementsFraming, F!Spec
=============================================================================
