--------------------------- MODULE RelayDataProofs --------------------------
(***************************************************************************)
(* Proofs about the data of Relay: for any number and length of messages,  *)
(* any cut of the streams and any size of the buffers, what is read is     *)
(* what the peer has sent, and what the peer gets is what was queued.      *)
(***************************************************************************)
EXTENDS Relay, FoldLemmas

Kinds == {"req", "rsp", "err"}
PeerKinds == {"req", "rsp"}
UnitsOf(kinds) == kinds \X Requests \X Nat
Units == UnitsOf(Kinds)
Received == UnitsOf(PeerKinds)

\* Part k of the n-th message of a kind.
UnitAt(kind, n, k) == <<kind, n, k>>

\* The messages of a kind, by number.
Messages(kind) == [n \in Requests |-> Message(kind, n)]

LEMMA PartType ==
  ASSUME NEW kinds, NEW kind \in kinds, NEW n \in Requests,
         NEW first \in Nat, NEW last \in Nat, 1 <= first, first <= last + 1
  PROVE  /\ Part(kind, n, first, last) \in Seq(UnitsOf(kinds))
         /\ Len(Part(kind, n, first, last)) = last - first + 1
         /\ \A k \in 1 .. last - first + 1 : Part(kind, n, first, last)[k] = UnitAt(kind, n, first + k - 1)
<1> DEFINE p == Part(kind, n, first, last)
           m == last - first + 1
<1>1. m \in Nat /\ \A k \in 1 .. m : first + k - 1 \in Nat
  OBVIOUS
<1>2. p = [k \in 1 .. m |-> UnitAt(kind, n, first + k - 1)]
  BY Zenon DEF Part, UnitAt
<1> HIDE DEF p, m
<1>3. \A k \in 1 .. m : p[k] = UnitAt(kind, n, first + k - 1) /\ p[k] \in UnitsOf(kinds)
  <2>1. \A k \in 1 .. m : UnitAt(kind, n, first + k - 1) \in UnitsOf(kinds)
    BY <1>1 DEF UnitsOf, UnitAt
  <2>2. \A k \in 1 .. m : p[k] = UnitAt(kind, n, first + k - 1)
    BY <1>2, Zenon
  <2> QED BY <2>1, <2>2, Zenon
<1>4. p \in Seq(UnitsOf(kinds)) /\ Len(p) = m
  <2>1. p \in [1 .. m -> UnitsOf(kinds)]
    BY <1>2, <1>3
  <2>2. p \in Seq(UnitsOf(kinds)) /\ DOMAIN p = 1 .. m
    BY <1>1, <2>1
  <2> QED BY <1>1, <2>2, LenProperties
<1> QED BY <1>3, <1>4 DEF p, m

LEMMA MessageParts ==
  ASSUME NEW kinds \in SUBSET Kinds, NEW kind \in kinds, NEW n \in Requests
  PROVE  /\ Header(kind, n) \in Seq(UnitsOf(kinds))
         /\ Len(Header(kind, n)) = HeaderLen
         /\ \A k \in 1 .. HeaderLen : Header(kind, n)[k] = UnitAt(kind, n, k)
         /\ ContentLen(kind, n) \in Nat
         /\ Content(kind, n) \in Seq(UnitsOf(kinds))
         /\ Len(Content(kind, n)) = ContentLen(kind, n)
<1>2. HeaderLen \in Nat /\ 1 \in Nat /\ 1 <= 1 /\ 1 <= HeaderLen + 1
  BY RelayAssumption
<1>3. ContentLen(kind, n) \in Nat
  BY RelayAssumption DEF ContentLen, Kinds
<1> DEFINE first == HeaderLen + 1
           last == HeaderLen + ContentLen(kind, n)
<1>4. first \in Nat /\ last \in Nat /\ 1 <= first /\ first <= last + 1
  BY <1>2, <1>3
<1>5. last - first + 1 = ContentLen(kind, n)
  BY <1>2, <1>3
<1> HIDE DEF first, last
<1>6. /\ Part(kind, n, first, last) \in Seq(UnitsOf(kinds))
      /\ Len(Part(kind, n, first, last)) = last - first + 1
  BY <1>4, PartType
<1> DEFINE one == 1
<1>7. /\ Part(kind, n, one, HeaderLen) \in Seq(UnitsOf(kinds))
      /\ Len(Part(kind, n, one, HeaderLen)) = HeaderLen - one + 1
      /\ \A k \in 1 .. HeaderLen - one + 1 :
           Part(kind, n, one, HeaderLen)[k] = UnitAt(kind, n, one + k - 1)
  <2>1. HeaderLen \in Nat /\ one \in Nat /\ 1 <= one /\ one <= HeaderLen + 1
    BY <1>2
  <2> HIDE DEF one
  <2>2. /\ Part(kind, n, one, HeaderLen) \in Seq(UnitsOf(kinds))
        /\ Len(Part(kind, n, one, HeaderLen)) = HeaderLen - one + 1
    BY <2>1, PartType
  <2>3. ASSUME NEW k \in 1 .. HeaderLen - one + 1
        PROVE  Part(kind, n, one, HeaderLen)[k] = UnitAt(kind, n, one + k - 1)
    BY <2>1, PartType
  <2> QED BY <2>2, <2>3
<1>8. HeaderLen - 1 + 1 = HeaderLen /\ \A k \in 1 .. HeaderLen : 1 + k - 1 = k
  BY <1>2
<1> QED BY <1>3, <1>5, <1>6, <1>7, <1>8 DEF Header, Content, first, last

LEMMA MessagesType ==
  ASSUME NEW kinds \in SUBSET Kinds, NEW kind \in kinds
  PROVE  /\ Maps(Messages(kind), Requests, Seq(UnitsOf(kinds)))
         /\ \A n \in Requests : Messages(kind)[n] = Cat(Header(kind, n), Content(kind, n))
<1>1. ASSUME NEW n \in Requests
      PROVE  /\ Messages(kind)[n] = Cat(Header(kind, n), Content(kind, n))
             /\ Messages(kind)[n] \in Seq(UnitsOf(kinds))
  <2>1. Messages(kind)[n] = Cat(Header(kind, n), Content(kind, n))
    BY DEF Messages, Message, Cat
  <2>2. Header(kind, n) \in Seq(UnitsOf(kinds)) /\ Content(kind, n) \in Seq(UnitsOf(kinds))
    BY MessageParts
  <2> QED BY <2>1, <2>2, CatType
<1> QED BY <1>1 DEF Maps

\* Wire in terms of Messages.
LEMMA WireIsFlatMap ==
  ASSUME NEW kind, NEW numbers \in Seq(Requests)
  PROVE  Wire(kind, numbers) = FlatMap(Messages(kind), numbers)
<1>1. \A k \in DOMAIN numbers : numbers[k] \in Requests
  BY ElementOfSeq, LenProperties
<1>2. [k \in DOMAIN numbers |-> Message(kind, numbers[k])] = MapEach(Messages(kind), numbers)
  BY <1>1 DEF MapEach, Messages
<1> QED BY <1>2 DEF Wire, FlatMap

-----------------------------------------------------------------------------
(* A stream of messages on its way to the parser.                          *)

\* Of the messages M of nums, those of prs are parsed and those of rest are
\* not; snt was sent and tail was not; the handler holds held and the socket inn.
Stream(M, nums, prs, snt, held, inn, rest, tail) ==
  /\ rest \in Seq(Requests)
  /\ tail \in Seq(Received)
  /\ Cat(prs, rest) = nums
  /\ Cat(snt, tail) = FlatMap(M, nums)
  /\ Cat(held, Cat(inn, tail)) = FlatMap(M, rest)

LEMMA StreamSends ==
  ASSUME NEW M, NEW nums, NEW prs, NEW snt \in Seq(Received), NEW held,
         NEW inn \in Seq(Received), NEW rest, NEW tail,
         Stream(M, nums, prs, snt, held, inn, rest, tail),
         Len(snt) + 1 <= Len(FlatMap(M, nums)),
         NEW u, u = FlatMap(M, nums)[Len(snt) + 1]
  PROVE  /\ u \in Received
         /\ Stream(M, nums, prs, Append(snt, u), held, Append(inn, u), rest, Tail(tail))
<1>1. tail \in Seq(Received) /\ Cat(snt, tail) = FlatMap(M, nums)
  BY DEF Stream
<1>2. tail # <<>>
  <2>1. Len(snt) \in Nat /\ Len(FlatMap(M, nums)) = Len(snt) + Len(tail)
    BY <1>1, CatElements
  <2> QED BY <2>1, EmptySeq
<1>3. u = tail[1] /\ Cat(Append(snt, u), Tail(tail)) = Cat(snt, tail)
  BY <1>1, <1>2, FirstMoves
<1>4. Cat(Append(inn, tail[1]), Tail(tail)) = Cat(inn, tail)
  BY <1>1, <1>2, FirstMoves
<1>5. u \in Received /\ Tail(tail) \in Seq(Received)
  BY <1>1, <1>2, <1>3, FrontAndRest
<1> QED BY <1>3, <1>4, <1>5, Zenon DEF Stream

LEMMA StreamGrows ==
  ASSUME NEW M, Maps(M, Requests, Seq(Received)),
         NEW nums \in Seq(Requests), NEW prs \in Seq(Requests), NEW snt \in Seq(Received),
         NEW held \in Seq(Received), NEW inn \in Seq(Received), NEW rest, NEW tail,
         Stream(M, nums, prs, snt, held, inn, rest, tail), NEW more \in Seq(Requests)
  PROVE  Stream(M, Cat(nums, more), prs, snt, held, inn, Cat(rest, more), Cat(tail, FlatMap(M, more)))
<1> DEFINE new == FlatMap(M, more)
           there == Cat(inn, tail)
<1>1. rest \in Seq(Requests) /\ tail \in Seq(Received)
  BY DEF Stream
<1>2. new \in Seq(Received)
  BY FlatMapType
<1>3. FlatMap(M, Cat(nums, more)) = Cat(FlatMap(M, nums), new)
  BY FlatMapOfCat
<1>4. FlatMap(M, Cat(rest, more)) = Cat(FlatMap(M, rest), new)
  BY <1>1, FlatMapOfCat
<1> HIDE DEF new
<1>5. Cat(prs, Cat(rest, more)) = Cat(nums, more)
  BY <1>1, CatAssociative DEF Stream
<1>6. Cat(snt, Cat(tail, new)) = Cat(Cat(snt, tail), new)
  BY <1>1, <1>2, CatAssociative
<1>7. Cat(inn, Cat(tail, new)) = Cat(there, new)
  BY <1>1, <1>2, CatAssociative
<1>8. there \in Seq(Received)
  BY <1>1, CatType
<1> HIDE DEF there
<1>9. Cat(held, Cat(there, new)) = Cat(Cat(held, there), new)
  BY <1>2, <1>8, CatAssociative
<1>10. Cat(rest, more) \in Seq(Requests) /\ Cat(tail, new) \in Seq(Received)
  BY <1>1, <1>2, CatType
<1>11. Cat(snt, tail) = FlatMap(M, nums) /\ Cat(held, there) = FlatMap(M, rest)
  BY DEF Stream, there
<1> QED BY <1>3, <1>4, <1>5, <1>6, <1>7, <1>9, <1>10, <1>11, Zenon DEF Stream, new

LEMMA StreamReads ==
  ASSUME NEW M, NEW nums, NEW prs, NEW snt,
         NEW held \in Seq(Received), NEW inn \in Seq(Received), NEW rest, NEW tail,
         Stream(M, nums, prs, snt, held, inn, rest, tail)
  PROVE  Stream(M, nums, prs, snt, Cat(held, inn), <<>>, rest, tail)
<1>1. tail \in Seq(Received)
  BY DEF Stream
<1>2. Cat(Cat(held, inn), tail) = Cat(held, Cat(inn, tail))
  BY <1>1, CatAssociative
<1>3. Cat(<<>>, tail) = tail
  BY <1>1, CatEmpty
<1> QED BY <1>1, <1>2, <1>3, Zenon DEF Stream

LEMMA StreamDelivers ==
  ASSUME NEW M, Maps(M, Requests, Seq(Received)),
         NEW nums, NEW prs \in Seq(Requests), NEW snt,
         NEW held, NEW inn \in Seq(Received), NEW rest, NEW tail,
         Stream(M, nums, prs, snt, held, inn, rest, tail),
         rest # <<>>, NEW left \in Seq(Received), held = Cat(M[rest[1]], left)
  PROVE  Stream(M, nums, Append(prs, rest[1]), snt, left, inn, Tail(rest), tail)
<1>1. rest \in Seq(Requests) /\ tail \in Seq(Received)
  BY DEF Stream
<1>2. rest[1] \in Requests /\ Tail(rest) \in Seq(Requests)
  BY <1>1, FrontAndRest
<1>3. Cat(Append(prs, rest[1]), Tail(rest)) = Cat(prs, rest)
  BY <1>1, FirstMoves
<1> DEFINE first == M[rest[1]]
           there == Cat(inn, tail)
           others == FlatMap(M, Tail(rest))
<1>4. FlatMap(M, rest) = Cat(first, others)
  BY <1>1, FlatMapOfFront
<1>5. first \in Seq(Received)
  BY <1>2 DEF Maps
<1>6. others \in Seq(Received)
  BY <1>2, FlatMapType
<1>7. there \in Seq(Received)
  BY <1>1, CatType
<1>8. Cat(held, there) = Cat(first, others) /\ held = Cat(first, left)
  BY <1>4, Zenon DEF Stream
<1> HIDE DEF first, there, others
<1>9. Cat(first, Cat(left, there)) = Cat(Cat(first, left), there)
  BY <1>5, <1>7, CatAssociative
<1>10. Cat(left, there) \in Seq(Received)
  BY <1>7, CatType
<1>11. Cat(left, there) = others
  BY <1>5, <1>6, <1>8, <1>9, <1>10, CatCancels
<1> QED BY <1>1, <1>2, <1>3, <1>11, Zenon DEF Stream, there, others

LEMMA StreamConserves ==
  ASSUME NEW M, Maps(M, Requests, Seq(Received)),
         NEW nums, NEW prs \in Seq(Requests), NEW snt \in Seq(Received),
         NEW held \in Seq(Received), NEW inn \in Seq(Received), NEW rest, NEW tail,
         Stream(M, nums, prs, snt, held, inn, rest, tail)
  PROVE  Cat(FlatMap(M, prs), Cat(held, inn)) = snt
<1> DEFINE before == FlatMap(M, prs)
           here == Cat(held, inn)
<1>1. rest \in Seq(Requests) /\ tail \in Seq(Received) /\ Cat(prs, rest) = nums
  BY DEF Stream
<1>2. FlatMap(M, nums) = Cat(before, FlatMap(M, rest))
  BY <1>1, FlatMapOfCat
<1>3. before \in Seq(Received)
  BY FlatMapType
<1>4. here \in Seq(Received)
  BY CatType
<1>5. Cat(held, Cat(inn, tail)) = Cat(here, tail)
  BY <1>1, CatAssociative
<1>6. Cat(snt, tail) = Cat(before, Cat(here, tail))
  BY <1>2, <1>5, Zenon DEF Stream
<1> HIDE DEF before, here
<1>7. Cat(before, Cat(here, tail)) = Cat(Cat(before, here), tail)
  BY <1>1, <1>3, <1>4, CatAssociative
<1>8. Cat(before, here) \in Seq(Received)
  BY <1>3, <1>4, CatType
<1>9. Cat(before, here) = snt
  BY <1>1, <1>6, <1>7, <1>8, CatCancels
<1> QED BY <1>9 DEF before, here

-----------------------------------------------------------------------------
(* What the parser takes from the front of a stream.                       *)

\* FindHeaderEnd, of any sequence.
HeaderEndIn(q) == SelectInSeq(q, LAMBDA u : u[3] = HeaderLen)

LEMMA HeaderEndIsFirst ==
  ASSUME NEW A, NEW q \in Seq(A)
  PROVE  \/ HeaderEndIn(q) = 0
         \/ /\ HeaderEndIn(q) \in 1 .. Len(q)
            /\ q[HeaderEndIn(q)][3] = HeaderLen
            /\ \A i \in 1 .. Len(q) : q[i][3] = HeaderLen => HeaderEndIn(q) <= i
<1> DEFINE T == {i \in 1 .. Len(q) : q[i][3] = HeaderLen}
<1>1. HeaderEndIn(q) = IF T # {} THEN Min(T) ELSE 0
  BY DEF HeaderEndIn, SelectInSeq
<1>2. T \in SUBSET Nat
  BY LenProperties
<1>3. T # {} => Min(T) \in T /\ \A i \in T : Min(T) <= i
  BY <1>2, LeastElement
<1> QED BY <1>1, <1>3

\* The messages not parsed begin with a header and a content.
LEMMA FirstMessage ==
  ASSUME NEW kind \in PeerKinds, NEW nums, NEW prs, NEW snt,
         NEW held \in Seq(Received), NEW inn \in Seq(Received), NEW rest, NEW tail,
         Stream(Messages(kind), nums, prs, snt, held, inn, rest, tail), rest # <<>>
  PROVE  \E others \in Seq(Received) :
           Cat(held, Cat(inn, tail)) = Cat(Messages(kind)[rest[1]], others)
<1>1. rest \in Seq(Requests)
  BY DEF Stream
<1>2. Maps(Messages(kind), Requests, Seq(Received))
  BY MessagesType DEF Received, PeerKinds, Kinds
<1>3. FlatMap(Messages(kind), rest) = Cat(Messages(kind)[rest[1]], FlatMap(Messages(kind), Tail(rest)))
  BY <1>1, <1>2, FlatMapOfFront
<1>4. Tail(rest) \in Seq(Requests)
  BY <1>1, FrontAndRest
<1>5. FlatMap(Messages(kind), Tail(rest)) \in Seq(Received)
  BY <1>2, <1>4, FlatMapType
<1> QED BY <1>3, <1>5, Zenon DEF Stream

\* What a cut at the unit end of what is held leaves: the header of the first
\* message of rest, and the rest of what is held.
HeaderCut(kind, rest, held, end) ==
  LET left == SubSeq(held, end + 1, Len(held)) IN
  /\ rest # <<>> /\ rest[1] \in Requests
  /\ held[end] = UnitAt(kind, rest[1], HeaderLen)
  /\ left \in Seq(Received) /\ held = Cat(Header(kind, rest[1]), left)

\* The first unit that ends a header ends that of the first message not parsed.
LEMMA HeaderFound ==
  ASSUME NEW kind \in PeerKinds, NEW nums, NEW prs, NEW snt,
         NEW held \in Seq(Received), NEW inn \in Seq(Received), NEW rest, NEW tail,
         Stream(Messages(kind), nums, prs, snt, held, inn, rest, tail),
         HeaderEndIn(held) # 0
  PROVE  HeaderCut(kind, rest, held, HeaderEndIn(held))
<1> DEFINE end == HeaderEndIn(held)
           there == Cat(inn, tail)
           all == Cat(held, there)
<1>1. /\ end \in 1 .. Len(held) /\ held[end][3] = HeaderLen
      /\ \A i \in 1 .. Len(held) : held[i][3] = HeaderLen => end <= i
  BY HeaderEndIsFirst
<1>2. rest \in Seq(Requests) /\ tail \in Seq(Received) /\ all = FlatMap(Messages(kind), rest)
  BY Zenon DEF Stream
<1>3. there \in Seq(Received)
  BY <1>2, CatType
<1> HIDE DEF there
<1>4. /\ Len(held) \in Nat /\ Len(there) \in Nat /\ Len(all) = Len(held) + Len(there)
      /\ \A i \in 1 .. Len(held) : all[i] = held[i]
  BY <1>3, CatElements
<1>5. rest # <<>>
  <2>1. Len(all) # 0
    BY <1>1, <1>4
  <2> HIDE DEF all
  <2> QED BY <1>2, <2>1, FlatMapOfEmpty, EmptySeq
<1> DEFINE n == rest[1]
           head == Header(kind, n)
<1>6. PICK others \in Seq(Received) : all = Cat(Messages(kind)[n], others)
  BY <1>5, FirstMessage DEF there
<1>7. n \in Requests
  BY <1>2, <1>5, FrontAndRest
<1> HIDE DEF all, end, n
<1>8. kind \in PeerKinds /\ PeerKinds \in SUBSET Kinds
  BY DEF PeerKinds, Kinds
<1>9. /\ head \in Seq(Received) /\ Content(kind, n) \in Seq(Received)
      /\ Len(head) = HeaderLen
      /\ \A i \in 1 .. HeaderLen : head[i] = UnitAt(kind, n, i)
  BY <1>7, <1>8, MessageParts DEF Received
<1>10. Messages(kind)[n] = Cat(head, Content(kind, n))
  BY <1>7, <1>8, MessagesType
<1> HIDE DEF head
<1>11. PICK more \in Seq(Received) : all = Cat(head, more)
  <2>1. Cat(Cat(head, Content(kind, n)), others) = Cat(head, Cat(Content(kind, n), others))
    BY <1>9, CatAssociative
  <2>2. Cat(Content(kind, n), others) \in Seq(Received)
    BY <1>9, CatType
  <2> QED BY <1>6, <1>10, <2>1, <2>2, Zenon
<1>12. \A i \in 1 .. HeaderLen : all[i] = UnitAt(kind, n, i)
  <2>1. \A i \in 1 .. Len(head) : Cat(head, more)[i] = head[i]
    BY <1>9, CatElements
  <2> QED BY <1>9, <1>11, <2>1
<1>13. \A i \in 1 .. HeaderLen : UnitAt(kind, n, i)[3] = i
  BY DEF UnitAt
<1>14. end = HeaderLen
  <2>1. HeaderLen \in Nat \ {0} /\ HeaderLen \in 1 .. HeaderLen
    BY RelayAssumption
  <2>2. ~ (end < HeaderLen)
    <3>1. SUFFICES ASSUME end < HeaderLen PROVE FALSE
      OBVIOUS
    <3>2. end \in 1 .. HeaderLen
      BY <1>1, <1>4, <2>1, <3>1
    <3>3. held[end] = UnitAt(kind, n, end)
      BY <1>1, <1>4, <1>12, <3>2
    <3>4. held[end][3] = end
      BY <1>13, <3>2, <3>3
    <3> QED BY <1>1, <3>1, <3>4, <2>1, <1>4
  <2>3. HeaderLen \in 1 .. Len(held)
    BY <1>1, <1>4, <2>1, <2>2
  <2>4. held[HeaderLen][3] = HeaderLen
    BY <1>4, <1>12, <1>13, <2>1, <2>3
  <2>5. end <= HeaderLen
    BY <1>1, <2>3, <2>4
  <2> QED BY <1>1, <1>4, <2>1, <2>2, <2>5
<1>15. held[end] = UnitAt(kind, n, HeaderLen)
  <2>1. HeaderLen \in 1 .. HeaderLen
    BY RelayAssumption
  <2> QED BY <1>1, <1>4, <1>12, <1>14, <2>1
<1> DEFINE taken == SubSeq(held, 1, end)
           left == SubSeq(held, end + 1, Len(held))
<1>16. /\ held = Cat(taken, left) /\ taken \in Seq(Received) /\ left \in Seq(Received)
       /\ Len(taken) = end
  <2>1. end \in 0 .. Len(held)
    BY <1>1, <1>4
  <2> QED BY <2>1, SplitAt
<1> HIDE DEF taken, left
<1>17. taken = head
  <2>1. Cat(taken, Cat(left, there)) = Cat(head, more)
    <3>1. Cat(Cat(taken, left), there) = Cat(taken, Cat(left, there))
      BY <1>3, <1>16, CatAssociative
    <3> QED BY <1>11, <1>16, <3>1 DEF all
  <2>2. Cat(left, there) \in Seq(Received)
    BY <1>3, <1>16, CatType
  <2> QED BY <1>9, <1>14, <1>16, <2>1, <2>2, SameCut
<1> QED BY <1>5, <1>7, <1>15, <1>16, <1>17, Zenon DEF HeaderCut, left, end, head, n

\* What take units of q do to the content held: it is longer by them, and
\* complete when it has the length of the message's content.
ContentCut(kind, rest, content, q, take) ==
  LET n == rest[1]
      more == Cat(content, SubSeq(q, 1, take))
      left == SubSeq(q, take + 1, Len(q))
      held == Cat(Cat(Header(kind, n), content), q)
  IN  /\ more \in Seq(Received) /\ left \in Seq(Received)
      /\ Len(more) = Len(content) + take
      /\ held = Cat(Cat(Header(kind, n), more), left)
      /\ Len(more) = ContentLen(kind, n) => held = Cat(Messages(kind)[n], left)

\* The header and a part of the content are held, and take units of q follow.
LEMMA ContentTaken ==
  ASSUME NEW kind \in PeerKinds, NEW nums, NEW prs, NEW snt,
         NEW inn \in Seq(Received), NEW rest, NEW tail, rest # <<>>,
         NEW content \in Seq(Received), NEW q \in Seq(Received),
         Stream(Messages(kind), nums, prs, snt, Cat(Cat(Header(kind, rest[1]), content), q),
                inn, rest, tail),
         NEW take \in 0 .. Len(q)
  PROVE  ContentCut(kind, rest, content, q, take)
<1> DEFINE n == rest[1]
           taken == SubSeq(q, 1, take)
           left == SubSeq(q, take + 1, Len(q))
           more == Cat(content, taken)
           head == Header(kind, n)
           held == Cat(Cat(head, content), q)
           there == Cat(inn, tail)
<1>1. rest \in Seq(Requests) /\ tail \in Seq(Received)
  BY DEF Stream
<1>2. n \in Requests
  BY <1>1, FrontAndRest
<1>3. PeerKinds \in SUBSET Kinds
  BY DEF PeerKinds, Kinds
<1>4. /\ head \in Seq(Received) /\ Content(kind, n) \in Seq(Received)
      /\ Len(Content(kind, n)) = ContentLen(kind, n)
  BY <1>2, <1>3, MessageParts DEF Received
<1>5. Messages(kind)[n] = Cat(head, Content(kind, n))
  BY <1>2, <1>3, MessagesType
<1>6. held \in Seq(Received)
  <2>1. Cat(head, content) \in Seq(Received)
    BY <1>4, CatType
  <2> HIDE DEF head
  <2> QED BY <2>1, CatType
<1>7. PICK others \in Seq(Received) : Cat(held, there) = Cat(Messages(kind)[n], others)
  BY <1>6, FirstMessage
<1>8. /\ q = Cat(taken, left) /\ taken \in Seq(Received) /\ left \in Seq(Received)
      /\ Len(taken) = take
  BY SplitAt
<1>9. there \in Seq(Received)
  BY <1>1, CatType
<1> HIDE DEF taken, left, head, there, n
<1>10. more \in Seq(Received) /\ Len(more) = Len(content) + take
  BY <1>8, CatType
<1>11. held = Cat(Cat(head, more), left)
  <2>1. Cat(Cat(head, content), Cat(taken, left)) = Cat(Cat(Cat(head, content), taken), left)
    <3>1. Cat(head, content) \in Seq(Received)
      BY <1>4, CatType
    <3> QED BY <1>8, <3>1, CatAssociative
  <2>2. Cat(Cat(head, content), taken) = Cat(head, more)
    BY <1>4, <1>8, CatAssociative
  <2> QED BY <1>8, <2>1, <2>2, Zenon
<1>12. Cat(head, more) \in Seq(Received)
  BY <1>4, <1>10, CatType
<1> HIDE DEF more, held
<1>13. ASSUME Len(more) = ContentLen(kind, n) PROVE held = Cat(Messages(kind)[n], left)
  <2>1. Cat(Cat(head, more), Cat(left, there)) = Cat(Messages(kind)[n], others)
    <3>1. Cat(Cat(Cat(head, more), left), there) = Cat(Cat(head, more), Cat(left, there))
      BY <1>8, <1>9, <1>12, CatAssociative
    <3> QED BY <1>7, <1>11, <3>1, Zenon
  <2>2. Messages(kind)[n] \in Seq(Received)
    BY <1>4, <1>5, CatType
  <2>3. Len(Cat(head, more)) = Len(Messages(kind)[n])
    <3>1. Len(Cat(head, more)) = Len(head) + Len(more)
      BY <1>4, <1>10, CatElements
    <3>2. Len(Cat(head, Content(kind, n))) = Len(head) + Len(Content(kind, n))
      BY <1>4, CatElements
    <3> QED BY <1>4, <1>5, <1>13, <3>1, <3>2
  <2>4. Cat(left, there) \in Seq(Received)
    BY <1>8, <1>9, CatType
  <2>5. Cat(head, more) = Messages(kind)[n]
    BY <1>12, <2>1, <2>2, <2>3, <2>4, SameCut
  <2> QED BY <1>11, <2>5
<1> QED BY <1>8, <1>10, <1>11, <1>13, Zenon DEF ContentCut, left, taken, more, held, head, n

-----------------------------------------------------------------------------
(* A queue of contexts on its way to the peer.                             *)

\* Unsent and Message, as functions.
Unsents == [c \in Context |-> Unsent(c)]
AllMessages == [m \in Kinds \X Requests |-> Message(m[1], m[2])]

\* What the peer has, what the socket holds and what is unsent is what was queued.
Outgoing(gt, ou, que, qd) ==
  Cat(Cat(gt, ou), FlatMap(Unsents, que)) = FlatMap(AllMessages, qd)

LEMMA ContextFields ==
  ASSUME NEW c \in Context
  PROVE  /\ c.header \in Seq(Units) /\ c.content \in Seq(Units)
         /\ c.msg \in Kinds \X Requests
         /\ c.phase \in {"SEND_HEADER", "SEND_CONTENT"}
         /\ c.phase = "SEND_HEADER" => Unsents[c] = Cat(c.header, c.content)
         /\ c.phase = "SEND_CONTENT" => Unsents[c] = c.content
         /\ Unsents[c] \in Seq(Units)
<1>1. /\ c.header \in Seq(Units) /\ c.content \in Seq(Units)
      /\ c.msg \in Kinds \X Requests
      /\ c.phase \in {"SEND_HEADER", "SEND_CONTENT"}
  BY Zenon DEF Context, Units, UnitsOf, Kinds
<1>2. /\ c.phase = "SEND_HEADER" => Unsents[c] = Cat(c.header, c.content)
      /\ c.phase = "SEND_CONTENT" => Unsents[c] = c.content
  BY DEF Unsents, Unsent, Cat
<1>3. Cat(c.header, c.content) \in Seq(Units)
  BY <1>1, CatType
<1> QED BY <1>1, <1>2, <1>3

LEMMA OutgoingTypes ==
  /\ Maps(Unsents, Context, Seq(Units))
  /\ Maps(AllMessages, Kinds \X Requests, Seq(Units))
<1>1. Maps(Unsents, Context, Seq(Units))
  BY ContextFields DEF Maps
<1>2. ASSUME NEW m \in Kinds \X Requests PROVE AllMessages[m] \in Seq(Units)
  <2>1. m[1] \in Kinds /\ m[2] \in Requests /\ Kinds \in SUBSET Kinds
    OBVIOUS
  <2>2. Messages(m[1])[m[2]] \in Seq(Units)
    BY <2>1, MessagesType DEF Maps, Units
  <2>3. AllMessages[m] = Messages(m[1])[m[2]]
    BY <2>1 DEF AllMessages, Messages
  <2> QED BY <2>2, <2>3
<1> QED BY <1>1, <1>2 DEF Maps

LEMMA NewContextType ==
  ASSUME NEW kind \in Kinds, NEW n \in Requests
  PROVE  /\ NewContext(kind, n) \in Context
         /\ NewContext(kind, n).msg = <<kind, n>>
         /\ <<kind, n>> \in Kinds \X Requests
         /\ Unsents[NewContext(kind, n)] = AllMessages[<<kind, n>>]
<1> DEFINE c == NewContext(kind, n)
<1>1. /\ Header(kind, n) \in Seq(Units) /\ Content(kind, n) \in Seq(Units)
      /\ <<kind, n>> \in Kinds \X Requests
  BY MessageParts DEF Units
<1>2. /\ c.msg = <<kind, n>> /\ c.phase = "SEND_HEADER"
      /\ c.header = Header(kind, n) /\ c.content = Content(kind, n)
  BY Zenon DEF NewContext
<1>3. c \in Context
  <2> DEFINE h == Header(kind, n)
             b == Content(kind, n)
             m == <<kind, n>>
  <2>1. c = [msg |-> m, header |-> h, content |-> b, phase |-> "SEND_HEADER"]
    BY Zenon DEF NewContext
  <2>2. Context = [msg : Kinds \X Requests, header : Seq(Units), content : Seq(Units),
                   phase : {"SEND_HEADER", "SEND_CONTENT"}]
    BY Zenon DEF Context, Kinds, Units, UnitsOf
  <2> HIDE DEF h, b, m, c
  <2> QED BY <1>1, <2>1, <2>2 DEF h, b, m
<1> HIDE DEF c
<1>4. Unsents[c] = Cat(Header(kind, n), Content(kind, n))
  BY <1>2, <1>3, ContextFields, Zenon
<1>5. AllMessages[<<kind, n>>] = Message(kind, n)
  BY <1>1 DEF AllMessages
<1>6. Message(kind, n) = Cat(Header(kind, n), Content(kind, n))
  BY Zenon DEF Message, Cat
<1> QED BY <1>1, <1>2, <1>3, <1>4, <1>5, <1>6, Zenon DEF c

LEMMA OutgoingTaken ==
  ASSUME NEW gt \in Seq(Units), NEW ou \in Seq(Units), NEW que, NEW qd,
         ou # <<>>, Outgoing(gt, ou, que, qd)
  PROVE  Outgoing(Append(gt, Head(ou)), Tail(ou), que, qd)
<1>1. Head(ou) = ou[1]
  BY HeadTailProperties
<1>2. Cat(Append(gt, ou[1]), Tail(ou)) = Cat(gt, ou)
  BY FirstMoves
<1> QED BY <1>1, <1>2, Zenon DEF Outgoing

LEMMA OutgoingQueued ==
  ASSUME NEW gt \in Seq(Units), NEW ou \in Seq(Units), NEW que \in Seq(Context),
         NEW qd \in Seq(Kinds \X Requests), Outgoing(gt, ou, que, qd),
         NEW kind \in Kinds, NEW n \in Requests
  PROVE  Outgoing(gt, ou, Append(que, NewContext(kind, n)), Append(qd, <<kind, n>>))
<1> DEFINE c == NewContext(kind, n)
           m == <<kind, n>>
           there == Cat(gt, ou)
<1>1. c \in Context /\ m \in Kinds \X Requests /\ Unsents[c] = AllMessages[m]
  BY NewContextType
<1>2. Unsents[c] \in Seq(Units)
  BY <1>1, ContextFields
<1>3. there \in Seq(Units)
  BY CatType
<1> HIDE DEF c, m, there
<1>4. FlatMap(Unsents, Append(que, c)) = Cat(FlatMap(Unsents, que), Unsents[c])
  BY <1>1, OutgoingTypes, FlatMapOfAppend
<1>5. FlatMap(AllMessages, Append(qd, m)) = Cat(FlatMap(AllMessages, qd), AllMessages[m])
  BY <1>1, OutgoingTypes, FlatMapOfAppend
<1>6. FlatMap(Unsents, que) \in Seq(Units)
  BY OutgoingTypes, FlatMapType
<1>7. Cat(there, Cat(FlatMap(Unsents, que), Unsents[c]))
        = Cat(Cat(there, FlatMap(Unsents, que)), Unsents[c])
  BY <1>2, <1>3, <1>6, CatAssociative
<1> QED BY <1>1, <1>4, <1>5, <1>7, Zenon DEF Outgoing, c, m, there

\* Written goes to the socket, and nothing of what was unsent is lost.
LEMMA OutgoingWritten ==
  ASSUME NEW gt \in Seq(Units), NEW ou \in Seq(Units), NEW que, NEW qd,
         Outgoing(gt, ou, que, qd), NEW written \in Seq(Units), NEW que2 \in Seq(Context),
         FlatMap(Unsents, que) = Cat(written, FlatMap(Unsents, que2))
  PROVE  Outgoing(gt, Cat(ou, written), que2, qd)
<1> DEFINE left == FlatMap(Unsents, que2)
           there == Cat(gt, ou)
<1>1. left \in Seq(Units)
  BY OutgoingTypes, FlatMapType
<1>2. there \in Seq(Units)
  BY CatType
<1>3. Cat(gt, Cat(ou, written)) = Cat(there, written)
  BY CatAssociative
<1> HIDE DEF left, there
<1>4. Cat(Cat(there, written), left) = Cat(there, Cat(written, left))
  BY <1>1, <1>2, CatAssociative
<1> QED BY <1>3, <1>4, Zenon DEF Outgoing, left, there

-----------------------------------------------------------------------------
(* What a write makes of the queue.                                        *)

Buffer(c) == IF c.phase = "SEND_HEADER" THEN c.header ELSE c.content

\* AfterWrite, of any queue.
AfterWriting(que, n) ==
  LET c == que[1] IN
  IF n < Len(Buffer(c))
    THEN [que EXCEPT ![1].header = SubSeq(Buffer(c), n + 1, Len(Buffer(c)))]
    ELSE IF c.phase = "SEND_CONTENT" \/ c.content = <<>>
           THEN Tail(que)
           ELSE [que EXCEPT ![1].phase = "SEND_CONTENT"]

LEMMA FrontReplaced ==
  ASSUME NEW A, NEW q \in Seq(A), q # <<>>, NEW x \in A
  PROVE  /\ [q EXCEPT ![1] = x] \in Seq(A) /\ [q EXCEPT ![1] = x] # <<>>
         /\ [q EXCEPT ![1] = x][1] = x /\ Tail([q EXCEPT ![1] = x]) = Tail(q)
<1> DEFINE r == [q EXCEPT ![1] = x]
<1>1. Len(q) \in Nat \ {0} /\ 1 \in 1 .. Len(q)
  BY EmptySeq, LenProperties
<1>2. r \in Seq(A) /\ Len(r) = Len(q)
  BY <1>1, ExceptSeq
<1>3. r[1] = x /\ \A i \in 2 .. Len(q) : r[i] = q[i]
  BY <1>1, LenProperties
<1> HIDE DEF r
<1>4. r # <<>>
  BY <1>1, <1>2, EmptySeq
<1>5. /\ Tail(q) \in Seq(A) /\ Len(Tail(q)) = Len(q) - 1
      /\ \A i \in 1 .. Len(Tail(q)) : Tail(q)[i] = q[i + 1]
  BY HeadTailProperties
<1>6. /\ Tail(r) \in Seq(A) /\ Len(Tail(r)) = Len(q) - 1
      /\ \A i \in 1 .. Len(Tail(r)) : Tail(r)[i] = r[i + 1]
  BY <1>2, <1>4, HeadTailProperties
<1>7. ASSUME NEW i \in 1 .. Len(Tail(r)) PROVE Tail(r)[i] = Tail(q)[i]
  <2>1. i + 1 \in 2 .. Len(q)
    BY <1>1, <1>6
  <2> QED BY <1>3, <1>5, <1>6, <2>1
<1>8. Tail(r) = Tail(q)
  BY <1>5, <1>6, <1>7, SeqEqual
<1> QED BY <1>2, <1>3, <1>4, <1>8 DEF r

LEMMA UnsentsOfReplaced ==
  ASSUME NEW que \in Seq(Context), que # <<>>, NEW d \in Context
  PROVE  /\ [que EXCEPT ![1] = d] \in Seq(Context)
         /\ FlatMap(Unsents, [que EXCEPT ![1] = d]) = Cat(Unsents[d], FlatMap(Unsents, Tail(que)))
<1> DEFINE q == [que EXCEPT ![1] = d]
<1>1. q \in Seq(Context) /\ q # <<>> /\ q[1] = d /\ Tail(q) = Tail(que)
  BY FrontReplaced
<1> HIDE DEF q
<1>2. FlatMap(Unsents, q) = Cat(Unsents[q[1]], FlatMap(Unsents, Tail(q)))
  BY <1>1, OutgoingTypes, FlatMapOfFront
<1> QED BY <1>1, <1>2 DEF q

LEMMA WriteAdvances ==
  ASSUME NEW que \in Seq(Context), que # <<>>, NEW n \in 0 .. Len(Buffer(que[1]))
  PROVE  /\ AfterWriting(que, n) \in Seq(Context)
         /\ SubSeq(Buffer(que[1]), 1, n) \in Seq(Units)
         /\ Len(SubSeq(Buffer(que[1]), 1, n)) = n
         /\ ~ (que[1].phase = "SEND_CONTENT" /\ n < Len(Buffer(que[1]))) =>
              FlatMap(Unsents, que)
                = Cat(SubSeq(Buffer(que[1]), 1, n), FlatMap(Unsents, AfterWriting(que, n)))
<1> DEFINE c == que[1]
           buffer == Buffer(c)
           written == SubSeq(buffer, 1, n)
           left == SubSeq(buffer, n + 1, Len(buffer))
           rest == FlatMap(Unsents, Tail(que))
<1>1. c \in Context /\ Tail(que) \in Seq(Context)
  BY FrontAndRest
<1>2. rest \in Seq(Units)
  BY <1>1, OutgoingTypes, FlatMapType
<1>3. FlatMap(Unsents, que) = Cat(Unsents[c], rest)
  BY OutgoingTypes, FlatMapOfFront
<1>4. /\ c.header \in Seq(Units) /\ c.content \in Seq(Units)
      /\ c.phase \in {"SEND_HEADER", "SEND_CONTENT"}
      /\ c.phase = "SEND_HEADER" => Unsents[c] = Cat(c.header, c.content)
      /\ c.phase = "SEND_CONTENT" => Unsents[c] = c.content
  BY <1>1, ContextFields
<1>5. buffer \in Seq(Units)
  BY <1>4 DEF Buffer
<1>6. /\ buffer = Cat(written, left)
      /\ written \in Seq(Units) /\ Len(written) = n
      /\ left \in Seq(Units) /\ Len(left) = Len(buffer) - n
  BY <1>5, SplitAt
<1>7. Len(buffer) \in Nat /\ n \in Nat /\ n <= Len(buffer)
  BY <1>5, LenProperties
<1>8. ~ (n < Len(buffer)) => buffer = written
  <2>1. ASSUME ~ (n < Len(buffer)) PROVE left = <<>>
    BY <1>6, <1>7, <2>1, EmptySeq
  <2> QED BY <1>6, <2>1, CatEmpty
<1>9. 1 \in DOMAIN que
  BY EmptySeq, LenProperties
<1>10. CASE n < Len(buffer)
  <2> DEFINE d == [c EXCEPT !.header = left]
  <2>1. AfterWriting(que, n) = [que EXCEPT ![1] = d]
    BY <1>9, <1>10 DEF AfterWriting
  <2>2. d \in Context /\ d.header = left /\ d.content = c.content /\ d.phase = c.phase
    BY <1>1, <1>6 DEF Context, Units, UnitsOf, Kinds
  <2> HIDE DEF d
  <2>3. /\ AfterWriting(que, n) \in Seq(Context)
        /\ FlatMap(Unsents, AfterWriting(que, n)) = Cat(Unsents[d], rest)
    BY <2>1, <2>2, UnsentsOfReplaced
  <2>4. ASSUME c.phase = "SEND_HEADER"
        PROVE  FlatMap(Unsents, que) = Cat(written, FlatMap(Unsents, AfterWriting(que, n)))
    <3>1. Unsents[d] = Cat(left, c.content) /\ Unsents[d] \in Seq(Units)
      BY <2>2, <2>4, ContextFields
    <3>2. Unsents[c] = Cat(Cat(written, left), c.content)
      BY <1>4, <1>6, <2>4, Zenon DEF Buffer
    <3> HIDE DEF rest, written, left
    <3>3. Cat(Cat(written, left), c.content) = Cat(written, Cat(left, c.content))
      BY <1>4, <1>6, CatAssociative
    <3>4. Cat(Cat(written, Unsents[d]), rest) = Cat(written, Cat(Unsents[d], rest))
      BY <1>2, <1>6, <3>1, CatAssociative
    <3> QED BY <1>3, <2>3, <3>1, <3>2, <3>3, <3>4, Zenon
  <2> QED BY <1>4, <1>6, <1>10, <2>3, <2>4
<1>11. CASE ~ (n < Len(buffer)) /\ (c.phase = "SEND_CONTENT" \/ c.content = <<>>)
  <2>1. AfterWriting(que, n) = Tail(que)
    BY <1>11 DEF AfterWriting
  <2>2. Unsents[c] = buffer
    <3>1. CASE c.phase = "SEND_CONTENT"
      BY <1>4, <3>1 DEF Buffer
    <3>2. CASE c.phase = "SEND_HEADER" /\ c.content = <<>>
      BY <1>4, <3>2, CatEmpty DEF Buffer
    <3> QED BY <1>4, <1>11, <3>1, <3>2
  <2> QED BY <1>1, <1>3, <1>6, <1>8, <1>11, <2>1, <2>2
<1>12. CASE ~ (n < Len(buffer)) /\ ~ (c.phase = "SEND_CONTENT" \/ c.content = <<>>)
  <2> DEFINE d == [c EXCEPT !.phase = "SEND_CONTENT"]
  <2>1. AfterWriting(que, n) = [que EXCEPT ![1] = d]
    BY <1>9, <1>12 DEF AfterWriting
  <2>2. d \in Context /\ d.content = c.content /\ d.phase = "SEND_CONTENT"
    BY <1>1 DEF Context
  <2> HIDE DEF d
  <2>3. /\ AfterWriting(que, n) \in Seq(Context)
        /\ FlatMap(Unsents, AfterWriting(que, n)) = Cat(Unsents[d], rest)
    BY <2>1, <2>2, UnsentsOfReplaced
  <2>4. Unsents[d] = c.content
    BY <2>2, ContextFields
  <2>5. Unsents[c] = Cat(written, c.content)
    BY <1>4, <1>8, <1>12 DEF Buffer
  <2> HIDE DEF rest, written
  <2>6. Cat(Cat(written, c.content), rest) = Cat(written, Cat(c.content, rest))
    BY <1>2, <1>4, <1>6, CatAssociative
  <2> QED BY <1>3, <1>6, <2>3, <2>4, <2>5, <2>6 DEF rest, written
<1> QED BY <1>10, <1>11, <1>12

-----------------------------------------------------------------------------
(* The inductive invariant.                                                *)

\* What the peer of a side sends.
Kind(s) == IF s = "client" THEN "req" ELSE "rsp"

\* The number of the message that a unit completes, or the header of it.
Mark(early) == [u \in Units |->
  IF u[3] = (IF early THEN HeaderEnd(u[1], u[2]) ELSE LastPart(u[1], u[2]))
    THEN <<u[2]>> ELSE <<>>]

\* The requests a unit makes due: those that it lets the backend answer.
DueAt == Mark(EarlyAnswer)

\* The messages the peer of a side has sent, sends and will send, as far as known.
Nums(s) == IF s = "client" THEN [n \in Requests |-> n] ELSE FlatMap(DueAt, got["backend"])

\* The message being parsed, as far as it was read, and raw_buffer.
Partial(s) == IF state[s] = "READ_HEADERS" THEN <<>>
              ELSE Cat(Header(Kind(s), tmp[s].msg[2]), tmp[s].content)
Held(s) == Cat(Partial(s), raw[s])

\* tmp_context of a handler.
TmpType == [msg : PeerKinds \X Nat, content : Seq(Received)]

DataTypes ==
  /\ in \in [Side -> Seq(Received)]
  /\ raw \in [Side -> Seq(Received)]
  /\ sent \in [Side -> Seq(Received)]
  /\ out \in [Side -> Seq(Units)]
  /\ got \in [Side -> Seq(Units)]
  /\ queue \in [Side -> Seq(Context)]
  /\ queued \in [Side -> Seq(Kinds \X Requests)]
  /\ parsed \in [Side -> Seq(Requests)]
  /\ tmp \in [Side -> TmpType]
  /\ \A s \in Side : Len(out[s]) <= SndBuf

ControlTypes ==
  /\ eof \in [Side -> BOOLEAN] /\ reset \in [Side -> BOOLEAN] /\ ready \in [Side -> BOOLEAN]
  /\ watchOut \in [Side -> BOOLEAN] /\ noSpace \in [Side -> BOOLEAN]
  /\ is_sending \in [Side -> BOOLEAN] /\ resent \in [Side -> BOOLEAN]
  /\ missed \in [Side -> BOOLEAN]
  /\ state \in [Side -> {"READ_HEADERS", "READ_BODY"}]
  /\ pc \in {"wait", "dispatch", "read", "parse", "write", "closed", "killed"}
  /\ batch \in [Side -> {"none", "in", "out"}]
  /\ reader \in Side \cup {"none"}
  /\ writer \in Side
  /\ pc \in {"read", "parse"} => reader \in Side
  /\ handler \in Handlers

\* The parser is in the first message that is not parsed, before its end.
InMessage(s, rest) ==
  state[s] = "READ_BODY" =>
    /\ rest # <<>>
    /\ tmp[s].msg = <<Kind(s), rest[1]>>
    /\ Len(tmp[s].content) < ContentLen(Kind(s), rest[1])

ReadInv(s) ==
  \E rest, tail :
    /\ Stream(Messages(Kind(s)), Nums(s), parsed[s], sent[s], Held(s), in[s], rest, tail)
    /\ InMessage(s, rest)

WriteInv(t) == ~ resent[t] /\ ~ reset[t] => Outgoing(got[t], out[t], queue[t], queued[t])

\* While the session lasts.
LiveInv ==
  /\ DataTypes
  /\ ControlTypes
  /\ \A s \in Side : ReadInv(s)
  /\ \A t \in Side : WriteInv(t)

\* When it is over: nothing is left of it, and what was parsed is what was sent up
\* to what the session had not parsed.
EndedInv ==
  /\ ~ Up
  /\ DataTypes
  /\ ControlTypes
  /\ \A s \in Side : in[s] = <<>> /\ raw[s] = <<>> /\ state[s] = "READ_HEADERS"
  /\ \A s \in Side : \E rest, tail : \E held, inn \in Seq(Received) :
       Stream(Messages(Kind(s)), Nums(s), parsed[s], sent[s], held, inn, rest, tail)

DataInv == LiveInv \/ EndedInv

LEMMA KindType ==
  ASSUME NEW s
  PROVE  /\ Kind(s) \in PeerKinds /\ PeerKinds \in SUBSET Kinds /\ Kind(s) \in Kinds
         /\ Maps(Messages(Kind(s)), Requests, Seq(Received))
<1>1. Kind(s) \in PeerKinds /\ PeerKinds \in SUBSET Kinds
  BY DEF Kind, PeerKinds, Kinds
<1>2. Maps(Messages(Kind(s)), Requests, Seq(UnitsOf(PeerKinds)))
  BY <1>1, MessagesType
<1> QED BY <1>1, <1>2 DEF Received

LEMMA MarkType ==
  ASSUME NEW early
  PROVE  Maps(Mark(early), Units, Seq(Requests))
<1>1. ASSUME NEW u \in Units PROVE Mark(early)[u] \in Seq(Requests)
  <2>1. u[2] \in Requests
    BY DEF Units, UnitsOf
  <2>2. <<u[2]>> \in Seq(Requests) /\ <<>> \in Seq(Requests)
    BY <2>1
  <2>3. Mark(early)[u] = <<u[2]>> \/ Mark(early)[u] = <<>>
    BY Zenon DEF Mark
  <2> QED BY <2>2, <2>3
<1> QED BY <1>1 DEF Maps

LEMMA DueType == Maps(DueAt, Units, Seq(Requests))
BY MarkType DEF DueAt

LEMMA NumsType ==
  ASSUME DataTypes, NEW s
  PROVE  Nums(s) \in Seq(Requests)
<1>1. [n \in Requests |-> n] \in Seq(Requests)
  BY RelayAssumption DEF Requests
<1>2. got["backend"] \in Seq(Units)
  BY DEF DataTypes, Side
<1>3. FlatMap(DueAt, got["backend"]) \in Seq(Requests)
  BY <1>2, DueType, FlatMapType
<1> QED BY <1>1, <1>3 DEF Nums

LEMMA HeldType ==
  ASSUME DataTypes, ControlTypes, NEW s \in Side, ReadInv(s)
  PROVE  /\ Partial(s) \in Seq(Received) /\ Held(s) \in Seq(Received)
         /\ raw[s] \in Seq(Received)
<1>1. raw[s] \in Seq(Received) /\ tmp[s].content \in Seq(Received)
  BY DEF DataTypes, TmpType
<1>2. Partial(s) \in Seq(Received)
  <2>1. CASE state[s] = "READ_HEADERS"
    BY <2>1, EmptySeq DEF Partial
  <2>2. CASE state[s] = "READ_BODY"
    <3>1. PICK rest, tail :
            /\ Stream(Messages(Kind(s)), Nums(s), parsed[s], sent[s], Held(s), in[s], rest, tail)
            /\ InMessage(s, rest)
      BY DEF ReadInv
    <3>2. rest \in Seq(Requests) /\ rest # <<>> /\ tmp[s].msg = <<Kind(s), rest[1]>>
      BY <2>2, <3>1 DEF Stream, InMessage
    <3>3. tmp[s].msg[2] \in Requests
      BY <3>2, FrontAndRest
    <3>4. Header(Kind(s), tmp[s].msg[2]) \in Seq(Received)
      BY <3>3, KindType, MessageParts DEF Received
    <3> QED BY <1>1, <2>2, <3>4, CatType DEF Partial
  <2> QED BY <2>1, <2>2 DEF ControlTypes
<1> QED BY <1>1, <1>2, CatType DEF Held

-----------------------------------------------------------------------------
(* What a step leaves alone.                                               *)

LEMMA ReadFrame ==
  ASSUME NEW s, ReadInv(s),
         in'[s] = in[s], raw'[s] = raw[s], state'[s] = state[s], tmp'[s] = tmp[s],
         sent'[s] = sent[s], parsed'[s] = parsed[s],
         s # "client" => got'["backend"] = got["backend"]
  PROVE  ReadInv(s)'
<1>1. Nums(s)' = Nums(s)
  BY DEF Nums
<1>2. Held(s)' = Held(s)
  BY DEF Held, Partial
<1>3. \A rest : InMessage(s, rest) => InMessage(s, rest)'
  BY DEF InMessage
<1> QED BY <1>1, <1>2, <1>3 DEF ReadInv

LEMMA WriteFrame ==
  ASSUME NEW t, WriteInv(t), resent'[t] = resent[t] \/ resent'[t], reset'[t] = reset[t] \/ reset'[t],
         got'[t] = got[t], out'[t] = out[t], queue'[t] = queue[t], queued'[t] = queued[t]
  PROVE  WriteInv(t)'
BY DEF WriteInv

\* Steps that move no data.
Quiet == UNCHANGED <<in, out, reset, raw, tmp, state, queue, sent, got, parsed, queued, resent>>

LEMMA QuietStep ==
  ASSUME LiveInv, Quiet, ControlTypes'
  PROVE  LiveInv'
<1>1. DataTypes'
  BY Zenon DEF LiveInv, Quiet, DataTypes
<1>2. \A s \in Side : ReadInv(s)'
  BY ReadFrame DEF LiveInv, Quiet
<1>3. \A t \in Side : WriteInv(t)'
  BY WriteFrame DEF LiveInv, Quiet
<1> QED BY <1>1, <1>2, <1>3 DEF LiveInv

\* A function with one value changed.
LEMMA Changed ==
  ASSUME NEW D, NEW R, NEW f \in [D -> R], NEW x \in D, NEW y \in R
  PROVE  /\ [f EXCEPT ![x] = y] \in [D -> R]
         /\ [f EXCEPT ![x] = y][x] = y
         /\ \A z \in D : z # x => [f EXCEPT ![x] = y][z] = f[z]
OBVIOUS

-----------------------------------------------------------------------------
(* The steps of the peers and of the kernel.                               *)

LEMMA SendStep ==
  ASSUME LiveInv, NEW s \in Side, NEW u, Send(s, u),
         Len(sent[s]) + 1 <= Len(FlatMap(Messages(Kind(s)), Nums(s))),
         u = FlatMap(Messages(Kind(s)), Nums(s))[Len(sent[s]) + 1]
  PROVE  LiveInv'
<1> DEFINE all == Nums(s)
           held == Held(s)
           M == Messages(Kind(s))
<1>1. DataTypes /\ ControlTypes /\ ReadInv(s)
  BY DEF LiveInv
<1>2. PICK rest, tail :
        Stream(M, all, parsed[s], sent[s], held, in[s], rest, tail) /\ InMessage(s, rest)
  BY <1>1 DEF ReadInv
<1>3. sent[s] \in Seq(Received) /\ in[s] \in Seq(Received)
  BY <1>1 DEF DataTypes
<1> DEFINE inn == Append(in[s], u)
           snt == Append(sent[s], u)
<1> HIDE DEF all, held, M
<1>4. u \in Received /\ Stream(M, all, parsed[s], snt, held, inn, rest, Tail(tail))
  BY <1>2, <1>3, StreamSends DEF all, M
<1>5. inn \in Seq(Received) /\ snt \in Seq(Received)
  BY <1>3, <1>4, AppendProperties
<1>6. /\ in' = [in EXCEPT ![s] = inn] /\ sent' = [sent EXCEPT ![s] = snt]
      /\ ready' = [ready EXCEPT ![s] = TRUE]
      /\ UNCHANGED <<out, eof, reset, watchOut, noSpace, handlers, thread, handler,
                      got, parsed, queued, resent, missed>>
  BY Zenon DEF Send
<1> HIDE DEF inn, snt
<1>7. /\ in' \in [Side -> Seq(Received)] /\ in'[s] = inn
      /\ \A r \in Side : r # s => in'[r] = in[r]
  BY <1>1, <1>5, <1>6, Changed DEF DataTypes
<1>8. /\ sent' \in [Side -> Seq(Received)] /\ sent'[s] = snt
      /\ \A r \in Side : r # s => sent'[r] = sent[r]
  BY <1>1, <1>5, <1>6, Changed DEF DataTypes
<1>9. DataTypes'
  BY <1>1, <1>6, <1>7, <1>8, Zenon DEF DataTypes, handlers
<1>10. ControlTypes'
  BY <1>1, <1>6 DEF ControlTypes, handlers, thread
<1>11. ReadInv(s)'
  <2>1. held = Held(s)' /\ all = Nums(s)' /\ M = Messages(Kind(s))
    BY <1>6, Zenon DEF held, all, M, Held, Partial, Nums, handlers
  <2>2. InMessage(s, rest)'
    BY <1>2, <1>6 DEF InMessage, handlers
  <2>3. Stream(Messages(Kind(s)), Nums(s)', parsed'[s], sent'[s], Held(s)', in'[s], rest, Tail(tail))
    BY <1>4, <1>6, <1>7, <1>8, <2>1, Zenon
  <2> QED BY <2>2, <2>3 DEF ReadInv
<1>12. ASSUME NEW r \in Side, r # s PROVE ReadInv(r)'
  BY <1>6, <1>7, <1>8, <1>12, ReadFrame DEF LiveInv, handlers
<1>13. ASSUME NEW t \in Side PROVE WriteInv(t)'
  BY <1>6, WriteFrame DEF LiveInv, handlers
<1> QED BY <1>9, <1>10, <1>11, <1>12, <1>13 DEF LiveInv

\* Numbers, in terms of Mark.
LEMMA NumbersIsFlatMap ==
  ASSUME NEW units \in Seq(Units)
  PROVE  /\ Numbers(units, HeaderEnd) = FlatMap(Mark(TRUE), units)
         /\ Numbers(units, LastPart) = FlatMap(Mark(FALSE), units)
<1>1. \A j \in DOMAIN units : units[j] \in Units
  BY ElementOfSeq, LenProperties
<1>2. Numbers(units, HeaderEnd) = FlatMap(Mark(TRUE), units)
  <2>1. \A u \in Units :
          Mark(TRUE)[u] = IF u[3] = HeaderEnd(u[1], u[2]) THEN <<u[2]>> ELSE <<>>
    BY Zenon DEF Mark
  <2>2. MapEach(Mark(TRUE), units) = [j \in DOMAIN units |->
          IF units[j][3] = HeaderEnd(units[j][1], units[j][2]) THEN <<units[j][2]>> ELSE <<>>]
    BY <1>1, <2>1, Zenon DEF MapEach
  <2>3. Numbers(units, HeaderEnd) = FlattenSeq(MapEach(Mark(TRUE), units))
    BY <2>2, Zenon DEF Numbers
  <2> QED BY <2>3 DEF FlatMap
<1>3. Numbers(units, LastPart) = FlatMap(Mark(FALSE), units)
  <2>1. \A u \in Units :
          Mark(FALSE)[u] = IF u[3] = LastPart(u[1], u[2]) THEN <<u[2]>> ELSE <<>>
    BY Zenon DEF Mark
  <2>2. MapEach(Mark(FALSE), units) = [j \in DOMAIN units |->
          IF units[j][3] = LastPart(units[j][1], units[j][2]) THEN <<units[j][2]>> ELSE <<>>]
    BY <1>1, <2>1, Zenon DEF MapEach
  <2>3. Numbers(units, LastPart) = FlattenSeq(MapEach(Mark(FALSE), units))
    BY <2>2, Zenon DEF Numbers
  <2> QED BY <2>3 DEF FlatMap
<1> QED BY <1>2, <1>3

\* What BackendSends calls due, in terms of DueAt.
LEMMA DueIsFlatMap ==
  ASSUME NEW units \in Seq(Units)
  PROVE  (IF EarlyAnswer THEN Numbers(units, HeaderEnd) ELSE Numbers(units, LastPart))
           = FlatMap(DueAt, units)
<1>1. EarlyAnswer = TRUE \/ EarlyAnswer = FALSE
  BY RelayAssumption
<1> QED BY <1>1, NumbersIsFlatMap, Zenon DEF DueAt

LEMMA SendsStep == LiveInv /\ (ClientSends \/ BackendSends) => LiveInv'
<1> SUFFICES ASSUME LiveInv, ClientSends \/ BackendSends PROVE LiveInv'
  OBVIOUS
<1>1. DataTypes
  BY DEF LiveInv
<1>2. CASE ClientSends
  <2> DEFINE stream == Wire("req", [n \in Requests |-> n])
             k == Len(sent["client"]) + 1
  <2>1. k <= Len(stream) /\ Send("client", stream[k])
    BY <1>2, Zenon DEF ClientSends
  <2>2. Kind("client") = "req" /\ Nums("client") = [n \in Requests |-> n]
    BY Zenon DEF Kind, Nums
  <2>3. stream = FlatMap(Messages(Kind("client")), Nums("client"))
    BY <1>1, <2>2, NumsType, WireIsFlatMap
  <2> HIDE DEF stream
  <2>4. "client" \in Side
    BY DEF Side
  <2> QED BY <2>1, <2>3, <2>4, SendStep
<1>3. CASE BackendSends
  <2> DEFINE due == IF EarlyAnswer THEN Numbers(got["backend"], HeaderEnd)
                                   ELSE Numbers(got["backend"], LastPart)
             stream == Wire("rsp", due)
             k == Len(sent["backend"]) + 1
  <2>1. k <= Len(stream) /\ Send("backend", stream[k])
    BY <1>3, Zenon DEF BackendSends
  <2>2. got["backend"] \in Seq(Units)
    BY <1>1 DEF DataTypes, Side
  <2>3. due = FlatMap(DueAt, got["backend"])
    BY <2>2, DueIsFlatMap
  <2> HIDE DEF due
  <2>4. Kind("backend") = "rsp" /\ Nums("backend") = due
    BY <2>3 DEF Kind, Nums
  <2>5. stream = FlatMap(Messages(Kind("backend")), Nums("backend"))
    BY <1>1, <2>4, NumsType, WireIsFlatMap
  <2> HIDE DEF stream
  <2>6. "backend" \in Side
    BY DEF Side
  <2> QED BY <2>1, <2>5, <2>6, SendStep
<1> QED BY <1>2, <1>3

LEMMA PeerReadsStep ==
  ASSUME LiveInv, NEW s \in Side, PeerReads(s)
  PROVE  LiveInv'
<1> DEFINE u == Head(out[s])
           g == Append(got[s], u)
           o == Tail(out[s])
<1>1. DataTypes /\ ControlTypes
  BY DEF LiveInv
<1>2. out[s] \in Seq(Units) /\ got[s] \in Seq(Units) /\ Len(out[s]) <= SndBuf /\ out[s] # <<>>
  BY <1>1 DEF DataTypes, PeerReads
<1>3. u \in Units /\ o \in Seq(Units) /\ Len(o) = Len(out[s]) - 1 /\ Len(out[s]) \in Nat
  BY <1>2, HeadTailProperties, LenProperties
<1>4. g \in Seq(Units) /\ Len(o) <= SndBuf
  <2>1. g \in Seq(Units)
    BY <1>2, <1>3, AppendProperties
  <2>2. Len(o) <= SndBuf
    <3> HIDE DEF o
    <3> QED BY <1>2, <1>3, RelayAssumption
  <2> QED BY <2>1, <2>2
<1>5. /\ got' = [got EXCEPT ![s] = g] /\ out' = [out EXCEPT ![s] = o]
      /\ ready' = [ready EXCEPT ![s] = @ \/ (noSpace[s] /\ watchOut[s])]
      /\ noSpace' = [noSpace EXCEPT ![s] = FALSE]
      /\ UNCHANGED <<in, eof, reset, watchOut, handlers, thread, handler,
                     sent, parsed, queued, resent, missed>>
  BY Zenon DEF PeerReads
<1>6. Outgoing(got[s], out[s], queue[s], queued[s]) => Outgoing(g, o, queue[s], queued[s])
  BY <1>2, OutgoingTaken
<1>7. g = Cat(got[s], One(u))
  BY <1>2, <1>3, AppendIsCat
<1> HIDE DEF u, g, o
<1>8. /\ got' \in [Side -> Seq(Units)] /\ got'[s] = g
      /\ \A r \in Side : r # s => got'[r] = got[r]
  BY <1>1, <1>4, <1>5, Changed DEF DataTypes
<1>9. /\ out' \in [Side -> Seq(Units)] /\ out'[s] = o
      /\ \A r \in Side : r # s => out'[r] = out[r]
  BY <1>1, <1>3, <1>5, Changed DEF DataTypes
<1>10. DataTypes'
  <2>1. \A r \in Side : Len(out'[r]) <= SndBuf
    BY <1>1, <1>4, <1>9 DEF DataTypes
  <2> QED BY <1>1, <1>5, <1>8, <1>9, <2>1, Zenon DEF DataTypes, handlers
<1>11. ControlTypes'
  BY <1>1, <1>5 DEF ControlTypes, handlers, thread
<1>12. ASSUME NEW t \in Side PROVE WriteInv(t)'
  <2>1. CASE t = s
    BY <1>5, <1>6, <1>8, <1>9, <2>1, Zenon DEF LiveInv, WriteInv, handlers
  <2>2. CASE t # s
    BY <1>5, <1>8, <1>9, <2>2, WriteFrame DEF LiveInv, handlers
  <2> QED BY <2>1, <2>2
<1>13. ASSUME NEW r \in Side, ~ (r = "backend" /\ s = "backend") PROVE ReadInv(r)'
  <2>1. r # "client" => got'["backend"] = got["backend"]
    BY <1>8, <1>13 DEF Side
  <2> QED BY <1>5, <2>1, ReadFrame DEF LiveInv, handlers
<1>14. ASSUME s = "backend" PROVE ReadInv(s)'
  <2> DEFINE more == DueAt[u]
             M == Messages(Kind(s))
             all == Nums(s)
             held == Held(s)
  <2>0. ReadInv(s)
    BY DEF LiveInv
  <2>1. PICK rest, tail :
          Stream(M, all, parsed[s], sent[s], held, in[s], rest, tail) /\ InMessage(s, rest)
    BY <2>0 DEF ReadInv
  <2>2. more \in Seq(Requests)
    BY <1>3, DueType DEF Maps
  <2>3. Nums(s)' = Cat(all, more)
    <3>1. One(u) \in Seq(Units) /\ FlatMap(DueAt, One(u)) = more
      BY <1>3, OneType, DueType, FlatMapOfOne
    <3>2. FlatMap(DueAt, g) = Cat(FlatMap(DueAt, got[s]), more)
      BY <1>2, <1>7, <3>1, DueType, FlatMapOfCat
    <3>3. all = FlatMap(DueAt, got[s]) /\ Nums(s)' = FlatMap(DueAt, got'[s])
      BY <1>14, Zenon DEF Nums
    <3> QED BY <1>8, <3>2, <3>3
  <2>4. Held(s)' = held /\ M = Messages(Kind(s))
    BY <1>5, Zenon DEF Held, Partial, handlers
  <2>5. Maps(M, Requests, Seq(Received)) /\ all \in Seq(Requests) /\ held \in Seq(Received)
    BY <1>1, <2>0, KindType, NumsType, HeldType
  <2>6. /\ parsed[s] \in Seq(Requests) /\ sent[s] \in Seq(Received) /\ in[s] \in Seq(Received)
    BY <1>1 DEF DataTypes
  <2>7. rest \in Seq(Requests)
    BY <2>1 DEF Stream
  <2> PICK rest2 : rest2 = Cat(rest, more)
    OBVIOUS
  <2> PICK tail2 : tail2 = Cat(tail, FlatMap(M, more))
    OBVIOUS
  <2>8. InMessage(s, rest2)'
    <3>1. ASSUME rest # <<>> PROVE Cat(rest, more) # <<>> /\ Cat(rest, more)[1] = rest[1]
      <4> DEFINE c == Cat(rest, more)
      <4>1. 1 \in 1 .. Len(rest) /\ Len(rest) # 0
        BY <2>7, <3>1, EmptySeq, LenProperties
      <4>2. Len(rest) \in Nat /\ Len(more) \in Nat /\ Len(c) = Len(rest) + Len(more) /\ c[1] = rest[1]
        BY <2>2, <2>7, <4>1, CatElements
      <4> HIDE DEF c
      <4>3. c # <<>>
        BY <4>1, <4>2, EmptySeq
      <4> QED BY <4>2, <4>3 DEF c
    <3> QED BY <1>5, <2>1, <3>1, Zenon DEF InMessage, handlers
  <2> HIDE DEF more, M, all, held
  <2>9. Stream(M, Cat(all, more), parsed[s], sent[s], held, in[s],
               Cat(rest, more), Cat(tail, FlatMap(M, more)))
    BY <2>1, <2>2, <2>5, <2>6, StreamGrows
  <2>10. Stream(Messages(Kind(s)), Nums(s)', parsed'[s], sent'[s], Held(s)', in'[s],
               rest2, tail2)
    BY <1>5, <2>3, <2>4, <2>9, Zenon
  <2> QED BY <2>8, <2>10 DEF ReadInv
<1>15. \A r \in Side : ReadInv(r)'
  BY <1>13, <1>14
<1> QED BY <1>10, <1>11, <1>12, <1>15 DEF LiveInv

LEMMA PeerEndsStep ==
  ASSUME LiveInv, NEW s \in Side, PeerCloses(s) \/ PeerResets(s)
  PROVE  LiveInv'
<1>1. DataTypes /\ ControlTypes
  BY DEF LiveInv
<1>2. CASE PeerCloses(s)
  <2>1. Quiet
    BY <1>2, Zenon DEF PeerCloses, Quiet, handlers, history
  <2>2. ControlTypes'
    BY <1>1, <1>2 DEF PeerCloses, ControlTypes, handlers, thread, history
  <2> QED BY <2>1, <2>2, QuietStep
<1>3. CASE PeerResets(s)
  <2>1. /\ reset' = [reset EXCEPT ![s] = TRUE] /\ out' = [out EXCEPT ![s] = <<>>]
        /\ ready' = [ready EXCEPT ![s] = TRUE]
        /\ UNCHANGED <<in, eof, watchOut, noSpace, handlers, thread, history>>
    BY <1>3, Zenon DEF PeerResets
  <2>2. <<>> \in Seq(Units) /\ Len(<<>>) = 0 /\ 0 <= SndBuf
    BY EmptySeq, RelayAssumption
  <2>3. /\ out' \in [Side -> Seq(Units)] /\ out'[s] = <<>>
        /\ \A r \in Side : r # s => out'[r] = out[r]
    BY <1>1, <2>1, <2>2, Changed DEF DataTypes
  <2>4. DataTypes'
    <3>1. \A r \in Side : Len(out'[r]) <= SndBuf
      BY <1>1, <2>2, <2>3 DEF DataTypes
    <3> QED BY <1>1, <2>1, <2>3, <3>1, Zenon DEF DataTypes, handlers, history
  <2>5. ControlTypes'
    BY <1>1, <2>1 DEF ControlTypes, handlers, thread, history
  <2>6. \A r \in Side : ReadInv(r)'
    BY <2>1, ReadFrame DEF LiveInv, handlers, history
  <2>7. reset'[s] /\ \A r \in Side : r # s => reset'[r] = reset[r]
    BY <1>1, <2>1 DEF ControlTypes
  <2>8. ASSUME NEW t \in Side PROVE WriteInv(t)'
    <3>1. CASE t = s
      BY <2>7, <3>1 DEF WriteInv
    <3>2. CASE t # s
      BY <2>1, <2>3, <2>7, <3>2, WriteFrame DEF LiveInv, handlers, history
    <3> QED BY <3>1, <3>2
  <2> QED BY <2>4, <2>5, <2>6, <2>8 DEF LiveInv
<1> QED BY <1>2, <1>3

LEMMA LoopStep ==
  LiveInv /\ (EpollWait \/ BatchDone \/ (\E s \in Side : Dispatch(s))) => LiveInv'
<1> SUFFICES ASSUME LiveInv, EpollWait \/ BatchDone \/ (\E s \in Side : Dispatch(s)) PROVE LiveInv'
  OBVIOUS
<1>1. ControlTypes
  BY DEF LiveInv
<1>2. CASE EpollWait
  <2>1. Quiet
    BY <1>2, Zenon DEF EpollWait, Quiet, sockets, handlers
  <2>2. ControlTypes'
    BY <1>1, <1>2 DEF EpollWait, ControlTypes, sockets, handlers, Each, Readable, Writable
  <2> QED BY <2>1, <2>2, QuietStep
<1>3. CASE BatchDone
  <2>1. Quiet
    BY <1>3, Zenon DEF BatchDone, Quiet, sockets, handlers, history
  <2>2. ControlTypes'
    BY <1>1, <1>3 DEF BatchDone, ControlTypes, sockets, epoll, handlers, history
  <2> QED BY <2>1, <2>2, QuietStep
<1>4. CASE \E s \in Side : Dispatch(s)
  <2>1. Quiet
    BY <1>4, Zenon DEF Dispatch, Quiet, sockets, handlers, history
  <2>2. ControlTypes'
    BY <1>1, <1>4 DEF Dispatch, ControlTypes, sockets, epoll, handlers, history
  <2> QED BY <2>1, <2>2, QuietStep
<1> QED BY <1>2, <1>3, <1>4

-----------------------------------------------------------------------------
(* The steps of handle_read_event.                                         *)

LEMMA ReadSomeStep ==
  ASSUME LiveInv, NEW s \in Side, s = reader, ReadSome
  PROVE  LiveInv'
<1>1. DataTypes /\ ControlTypes /\ ReadInv(s)
  BY DEF LiveInv
<1> PICK q : q = Cat(raw[s], in[s])
  OBVIOUS
<1>2. /\ raw' = [raw EXCEPT ![s] = q] /\ in' = [in EXCEPT ![s] = <<>>]
      /\ UNCHANGED <<out, eof, reset, epoll, state, tmp, queue, is_sending, thread, history>>
  BY Zenon DEF ReadSome, Cat
<1>3. raw[s] \in Seq(Received) /\ in[s] \in Seq(Received) /\ <<>> \in Seq(Received)
  BY <1>1, EmptySeq DEF DataTypes
<1>4. q \in Seq(Received)
  BY <1>3, CatType
<1>5. /\ raw' \in [Side -> Seq(Received)] /\ raw'[s] = q
      /\ \A r \in Side : r # s => raw'[r] = raw[r]
  BY <1>1, <1>2, <1>4, Changed DEF DataTypes
<1>6. /\ in' \in [Side -> Seq(Received)] /\ in'[s] = <<>>
      /\ \A r \in Side : r # s => in'[r] = in[r]
  BY <1>1, <1>2, <1>3, Changed DEF DataTypes
<1>7. DataTypes'
  BY <1>1, <1>2, <1>5, <1>6, Zenon DEF DataTypes, history
<1>8. ControlTypes'
  BY <1>1, <1>2 DEF ControlTypes, epoll, thread, history
<1>9. ReadInv(s)'
  <2>1. PICK rest, tail :
          /\ Stream(Messages(Kind(s)), Nums(s), parsed[s], sent[s], Held(s), in[s], rest, tail)
          /\ InMessage(s, rest)
    BY <1>1 DEF ReadInv
  <2>2. Partial(s) \in Seq(Received) /\ Held(s) \in Seq(Received)
    BY <1>1, HeldType
  <2>3. Stream(Messages(Kind(s)), Nums(s), parsed[s], sent[s], Cat(Held(s), in[s]), <<>>, rest, tail)
    BY <1>3, <2>1, <2>2, StreamReads
  <2>4. Held(s)' = Cat(Held(s), in[s])
    <3>1. Partial(s)' = Partial(s)
      BY <1>2, Zenon DEF Partial
    <3>2. Cat(Cat(Partial(s), raw[s]), in[s]) = Cat(Partial(s), Cat(raw[s], in[s]))
      BY <1>3, <2>2, CatAssociative
    <3> QED BY <1>5, <3>1, <3>2, Zenon DEF Held
  <2>5. Nums(s)' = Nums(s) /\ sent' = sent /\ parsed' = parsed /\ InMessage(s, rest)'
    BY <1>2, <2>1, Zenon DEF Nums, InMessage, history
  <2>6. Stream(Messages(Kind(s)), Nums(s)', parsed'[s], sent'[s], Held(s)', in'[s], rest, tail)
    BY <1>6, <2>3, <2>4, <2>5, Zenon
  <2> QED BY <2>5, <2>6 DEF ReadInv
<1>10. ASSUME NEW r \in Side, r # s PROVE ReadInv(r)'
  BY <1>2, <1>5, <1>6, <1>10, ReadFrame DEF LiveInv, history
<1>11. ASSUME NEW t \in Side PROVE WriteInv(t)'
  BY <1>2, WriteFrame DEF LiveInv, history
<1> QED BY <1>7, <1>8, <1>9, <1>10, <1>11 DEF LiveInv

LEMMA EnqueueStep ==
  ASSUME LiveInv, NEW t \in Side, NEW kind \in Kinds, NEW n \in Requests,
         Enqueue(t, NewContext(kind, n)), UNCHANGED <<got, out, reset, resent>>
  PROVE  /\ queue' \in [Side -> Seq(Context)]
         /\ queued' \in [Side -> Seq(Kinds \X Requests)]
         /\ writer' \in Side /\ pc' \in {pc, "write"}
         /\ \A r \in Side : WriteInv(r)'
<1> PICK c : c = NewContext(kind, n)
  OBVIOUS
<1> PICK m : m = <<kind, n>>
  OBVIOUS
<1>1. c \in Context /\ c.msg = m /\ m \in Kinds \X Requests
  BY NewContextType
<1>2. /\ DataTypes /\ ControlTypes
      /\ queue[t] \in Seq(Context) /\ queued[t] \in Seq(Kinds \X Requests)
      /\ got[t] \in Seq(Units) /\ out[t] \in Seq(Units)
  BY DEF LiveInv, DataTypes
<1> PICK q : q = Append(queue[t], c)
  OBVIOUS
<1> PICK qd : qd = Append(queued[t], m)
  OBVIOUS
<1>3. q \in Seq(Context) /\ qd \in Seq(Kinds \X Requests)
  BY <1>1, <1>2, AppendProperties
<1>4. /\ queue' = [queue EXCEPT ![t] = q] /\ queued' = [queued EXCEPT ![t] = qd]
      /\ (pc' = pc /\ writer' = writer) \/ (pc' = "write" /\ writer' = t)
  BY <1>1, Zenon DEF Enqueue
<1>5. Outgoing(got[t], out[t], queue[t], queued[t]) => Outgoing(got[t], out[t], q, qd)
  BY <1>2, OutgoingQueued
<1>6. /\ queue' \in [Side -> Seq(Context)] /\ queue'[t] = q
      /\ \A r \in Side : r # t => queue'[r] = queue[r]
  BY <1>2, <1>3, <1>4, Changed DEF DataTypes
<1>7. /\ queued' \in [Side -> Seq(Kinds \X Requests)] /\ queued'[t] = qd
      /\ \A r \in Side : r # t => queued'[r] = queued[r]
  BY <1>2, <1>3, <1>4, Changed DEF DataTypes
<1>8. ASSUME NEW r \in Side PROVE WriteInv(r)'
  <2>1. CASE r = t
    BY <1>5, <1>6, <1>7, <2>1, Zenon DEF LiveInv, WriteInv
  <2>2. CASE r # t
    BY <1>6, <1>7, <2>2, WriteFrame DEF LiveInv
  <2> QED BY <2>1, <2>2
<1>9. writer' \in Side /\ pc' \in {pc, "write"}
  BY <1>2, <1>4 DEF ControlTypes
<1> QED BY <1>6, <1>7, <1>8, <1>9

LEMMA RecvContentStep ==
  ASSUME LiveInv, NEW kind \in PeerKinds, NEW n \in Requests,
         RecvContent(kind, n), UNCHANGED <<got, out, reset, resent>>
  PROVE  /\ queue' \in [Side -> Seq(Context)]
         /\ queued' \in [Side -> Seq(Kinds \X Requests)]
         /\ writer' \in Side /\ pc' \in {pc, "write"}
         /\ \A r \in Side : WriteInv(r)'
<1>1. /\ kind \in Kinds /\ "req" \in Kinds /\ "rsp" \in Kinds /\ "err" \in Kinds
      /\ "client" \in Side /\ "backend" \in Side
  BY DEF PeerKinds, Kinds, Side
<1>2. \/ Enqueue("backend", NewContext("req", n))
      \/ Enqueue("client", NewContext("rsp", n))
      \/ Enqueue("client", NewContext("err", n))
  BY DEF RecvContent
<1> QED BY <1>1, <1>2, EnqueueStep

\* The first message not parsed is complete, and is delivered.
Delivered(s) ==
  \E rest, tail : \E left \in Seq(Received) :
    /\ Stream(Messages(Kind(s)), Nums(s), parsed[s], sent[s], Held(s), in[s], rest, tail)
    /\ rest # <<>> /\ Held(s) = Cat(Messages(Kind(s))[rest[1]], left)
    /\ parsed' = [parsed EXCEPT ![s] = Append(@, rest[1])]
    /\ RecvContent(Kind(s), rest[1])

\* What a pass of the parser shows to the other side and to its peer.
ParseEffect(s) ==
  /\ UNCHANGED <<out, reset, sent, got>>
  /\ UNCHANGED <<queue, parsed, queued>> \/ Delivered(s)

\* Deliver, when the first message not parsed is complete, and left follows it.
LEMMA DeliverStep ==
  ASSUME LiveInv, NEW s \in Side, s = reader, pc = "parse",
         NEW rest, NEW tail, NEW left \in Seq(Received),
         Stream(Messages(Kind(s)), Nums(s), parsed[s], sent[s], Held(s), in[s], rest, tail),
         rest # <<>>, Held(s) = Cat(Messages(Kind(s))[rest[1]], left),
         NEW t \in TmpType,
         raw' = [raw EXCEPT ![s] = left], tmp' = [tmp EXCEPT ![s] = t],
         Deliver(s, Kind(s), rest[1]),
         UNCHANGED <<sockets, epoll, batch, reader, handler, sent, got, resent, missed>>
  PROVE  LiveInv' /\ ParseEffect(s)
<1>1. /\ DataTypes /\ ControlTypes
      /\ parsed[s] \in Seq(Requests) /\ in[s] \in Seq(Received)
  BY DEF LiveInv, DataTypes
<1>2. rest \in Seq(Requests)
  BY DEF Stream
<1> PICK n : n = rest[1]
  OBVIOUS
<1>3. n \in Requests
  BY <1>2, FrontAndRest
<1> PICK prs : prs = Append(parsed[s], n)
  OBVIOUS
<1>4. prs \in Seq(Requests)
  BY <1>1, <1>3, AppendProperties
<1>5. /\ state' = [state EXCEPT ![s] = "READ_HEADERS"]
      /\ parsed' = [parsed EXCEPT ![s] = prs]
      /\ RecvContent(Kind(s), n)
      /\ UNCHANGED is_sending
  BY Zenon DEF Deliver
<1>6. /\ queue' \in [Side -> Seq(Context)]
      /\ queued' \in [Side -> Seq(Kinds \X Requests)]
      /\ writer' \in Side /\ pc' \in {pc, "write"}
      /\ \A r \in Side : WriteInv(r)'
  BY <1>3, <1>5, KindType, RecvContentStep DEF sockets
<1>7. /\ raw' \in [Side -> Seq(Received)] /\ raw'[s] = left
      /\ \A r \in Side : r # s => raw'[r] = raw[r]
  BY <1>1, Changed DEF DataTypes
<1>8. /\ tmp' \in [Side -> TmpType]
      /\ \A r \in Side : r # s => tmp'[r] = tmp[r]
  BY <1>1, Changed DEF DataTypes
<1>9. /\ parsed' \in [Side -> Seq(Requests)] /\ parsed'[s] = prs
      /\ \A r \in Side : r # s => parsed'[r] = parsed[r]
  BY <1>1, <1>4, <1>5, Changed DEF DataTypes
<1>10. /\ state' \in [Side -> {"READ_HEADERS", "READ_BODY"}] /\ state'[s] = "READ_HEADERS"
       /\ \A r \in Side : r # s => state'[r] = state[r]
  BY <1>1, <1>5 DEF ControlTypes
<1>11. DataTypes'
  BY <1>1, <1>6, <1>7, <1>8, <1>9, Zenon DEF DataTypes, sockets
<1>12. ControlTypes'
  BY <1>1, <1>5, <1>6, <1>10 DEF ControlTypes, sockets, epoll
<1>13. ReadInv(s)'
  <2>1. Stream(Messages(Kind(s)), Nums(s), prs, sent[s], left, in[s], Tail(rest), tail)
    BY <1>1, KindType, StreamDelivers
  <2>2. Held(s)' = left
    <3>1. Partial(s)' = <<>>
      BY <1>10 DEF Partial
    <3>2. Cat(<<>>, left) = left
      BY CatEmpty
    <3> QED BY <1>7, <3>1, <3>2, Zenon DEF Held
  <2>3. Nums(s)' = Nums(s)
    BY Zenon DEF Nums
  <2>4. InMessage(s, Tail(rest))'
    BY <1>10 DEF InMessage
  <2>5. Stream(Messages(Kind(s)), Nums(s)', parsed'[s], sent'[s], Held(s)', in'[s], Tail(rest), tail)
    BY <1>9, <2>1, <2>2, <2>3, Zenon DEF sockets
  <2> QED BY <2>4, <2>5 DEF ReadInv
<1>14. ASSUME NEW r \in Side, r # s PROVE ReadInv(r)'
  BY <1>7, <1>8, <1>9, <1>10, <1>14, ReadFrame DEF LiveInv, sockets
<1>15. ParseEffect(s)
  <2>1. UNCHANGED <<out, reset, sent, got>>
    BY DEF sockets
  <2>2. parsed' = [parsed EXCEPT ![s] = Append(@, rest[1])] /\ RecvContent(Kind(s), rest[1])
    BY Zenon DEF Deliver
  <2>3. Delivered(s)
    BY <2>2, Zenon DEF Delivered
  <2> QED BY <2>1, <2>3, Zenon DEF ParseEffect
<1> QED BY <1>6, <1>11, <1>12, <1>13, <1>14, <1>15 DEF LiveInv

\* The parser is then within the first message not parsed.
LEMMA ParseGoesOn ==
  ASSUME LiveInv, NEW s \in Side, s = reader,
         NEW rest, NEW tail, NEW left \in Seq(Received),
         Stream(Messages(Kind(s)), Nums(s), parsed[s], sent[s], Held(s), in[s], rest, tail),
         rest # <<>>, NEW content \in Seq(Received),
         Held(s) = Cat(Cat(Header(Kind(s), rest[1]), content), left),
         Len(content) < ContentLen(Kind(s), rest[1]),
         raw' = [raw EXCEPT ![s] = left],
         tmp' = [tmp EXCEPT ![s] = [msg |-> <<Kind(s), rest[1]>>, content |-> content]],
         state' = [state EXCEPT ![s] = "READ_BODY"],
         UNCHANGED <<sockets, epoll, batch, reader, handler, sent, got, resent, missed,
                     queue, is_sending, pc, writer, parsed, queued>>
  PROVE  LiveInv' /\ ParseEffect(s)
<1>1. DataTypes /\ ControlTypes
  BY DEF LiveInv
<1>2. rest \in Seq(Requests)
  BY DEF Stream
<1> PICK n : n = rest[1]
  OBVIOUS
<1>3. n \in Requests /\ n \in Nat
  <2>1. n \in Requests
    BY <1>2, FrontAndRest
  <2> QED BY <2>1, RelayAssumption DEF Requests
<1> PICK t : t = [msg |-> <<Kind(s), n>>, content |-> content]
  OBVIOUS
<1>4. /\ t \in TmpType
      /\ t.msg = <<Kind(s), n>> /\ t.content = content
  BY <1>3, KindType DEF TmpType
<1>5. /\ raw' \in [Side -> Seq(Received)] /\ raw'[s] = left
      /\ \A r \in Side : r # s => raw'[r] = raw[r]
  BY <1>1, Changed DEF DataTypes
<1>6. /\ tmp' \in [Side -> TmpType] /\ tmp'[s] = t
      /\ \A r \in Side : r # s => tmp'[r] = tmp[r]
  <2>1. tmp' = [tmp EXCEPT ![s] = t]
    OBVIOUS
  <2> QED BY ONLY <1>1, <1>4, <2>1, s \in Side, Changed DEF DataTypes
<1>7. /\ state' \in [Side -> {"READ_HEADERS", "READ_BODY"}] /\ state'[s] = "READ_BODY"
      /\ \A r \in Side : r # s => state'[r] = state[r]
  BY <1>1 DEF ControlTypes
<1>8. DataTypes'
  BY <1>1, <1>5, <1>6, Zenon DEF DataTypes, sockets
<1>9. ControlTypes'
  BY <1>1, <1>7 DEF ControlTypes, sockets, epoll
<1>10. ReadInv(s)'
  <2>1. Held(s)' = Held(s)
    <3>1. Partial(s)' = Cat(Header(Kind(s), n), content)
      <4>1. tmp'[s].msg[2] = n /\ tmp'[s].content = content /\ state'[s] # "READ_HEADERS"
        BY <1>4, <1>6, <1>7
      <4> QED BY <4>1 DEF Partial
    <3> QED BY <1>5, <3>1, Zenon DEF Held
  <2>2. Nums(s)' = Nums(s)
    BY Zenon DEF Nums
  <2>3. InMessage(s, rest)'
    BY <1>4, <1>6, Zenon DEF InMessage
  <2>4. Stream(Messages(Kind(s)), Nums(s)', parsed'[s], sent'[s], Held(s)', in'[s], rest, tail)
    BY <2>1, <2>2, Zenon DEF sockets
  <2> QED BY <2>3, <2>4 DEF ReadInv
<1>11. ASSUME NEW r \in Side, r # s PROVE ReadInv(r)'
  BY <1>5, <1>6, <1>7, <1>11, ReadFrame DEF LiveInv, sockets
<1>12. ASSUME NEW r \in Side PROVE WriteInv(r)'
  BY WriteFrame DEF LiveInv, sockets
<1>13. ParseEffect(s)
  BY DEF ParseEffect, sockets
<1> QED BY <1>8, <1>9, <1>10, <1>11, <1>12, <1>13 DEF LiveInv

LEMMA ParseHeaderStep ==
  ASSUME LiveInv, NEW s \in Side, s = reader, ParseHeader
  PROVE  LiveInv' /\ ParseEffect(s)
<1>1. DataTypes /\ ControlTypes /\ ReadInv(s)
  BY DEF LiveInv
<1>a. PICK end : end = FindHeaderEnd(s)
  OBVIOUS
<1>b. PICK left : left = SubSeq(raw[s], end + 1, Len(raw[s]))
  OBVIOUS
<1>c. PICK u : u = raw[s][end]
  OBVIOUS
<1>2. /\ pc = "parse" /\ state[s] = "READ_HEADERS" /\ end # 0
      /\ raw' = [raw EXCEPT ![s] = left]
      /\ tmp' = [tmp EXCEPT ![s] = [msg |-> <<u[1], u[2]>>, content |-> <<>>]]
      /\ IF ContentLen(u[1], u[2]) = 0
           THEN Deliver(s, u[1], u[2])
           ELSE /\ state' = [state EXCEPT ![s] = "READ_BODY"]
                /\ UNCHANGED <<queue, is_sending, pc, writer, parsed, queued>>
      /\ UNCHANGED <<sockets, epoll, batch, reader, handler, sent, got, resent, missed>>
  BY <1>a, <1>b, <1>c, Zenon DEF ParseHeader
<1>3. PICK rest, tail :
        /\ Stream(Messages(Kind(s)), Nums(s), parsed[s], sent[s], Held(s), in[s], rest, tail)
        /\ InMessage(s, rest)
  BY <1>1 DEF ReadInv
<1>4. raw[s] \in Seq(Received) /\ in[s] \in Seq(Received)
  BY <1>1 DEF DataTypes
<1>5. Held(s) = raw[s]
  <2>1. Partial(s) = <<>>
    BY <1>2 DEF Partial
  <2> QED BY <1>4, <2>1, CatEmpty DEF Held
<1>6. end = HeaderEndIn(raw[s])
  BY <1>a, Zenon DEF FindHeaderEnd, HeaderEndIn
<1>n. PICK n : n = rest[1]
  OBVIOUS
<1>7. /\ rest # <<>> /\ n \in Requests /\ u = UnitAt(Kind(s), n, HeaderLen)
      /\ left \in Seq(Received) /\ raw[s] = Cat(Header(Kind(s), n), left)
  <2>1. Stream(Messages(Kind(s)), Nums(s), parsed[s], sent[s], raw[s], in[s], rest, tail)
    BY <1>3, <1>5
  <2>2. HeaderEndIn(raw[s]) # 0 /\ Kind(s) \in PeerKinds
    BY <1>2, <1>6, KindType
  <2>3. HeaderCut(Kind(s), rest, raw[s], HeaderEndIn(raw[s]))
    BY ONLY <1>4, <2>1, <2>2, HeaderFound
  <2> QED BY ONLY <1>b, <1>c, <1>6, <1>n, <2>3, Zenon DEF HeaderCut
<1>8. u[1] = Kind(s) /\ u[2] = n
  BY <1>7 DEF UnitAt
<1>9. /\ Header(Kind(s), n) \in Seq(Received) /\ Content(Kind(s), n) \in Seq(Received)
      /\ ContentLen(Kind(s), n) \in Nat
      /\ Len(Content(Kind(s), n)) = ContentLen(Kind(s), n)
      /\ Messages(Kind(s))[n] = Cat(Header(Kind(s), n), Content(Kind(s), n))
  BY <1>7, KindType, MessageParts, MessagesType DEF Received
<1>10. <<>> \in Seq(Received) /\ Len(<<>>) = 0
  BY EmptySeq
<1>11. Cat(Header(Kind(s), n), <<>>) = Header(Kind(s), n)
  BY <1>9, CatEmpty
<1>12. CASE ContentLen(Kind(s), n) = 0
  <2>1. Content(Kind(s), n) = <<>>
    BY <1>9, <1>12, EmptySeq
  <2>2. Held(s) = Cat(Messages(Kind(s))[rest[1]], left)
    BY <1>5, <1>7, <1>9, <1>11, <1>n, <2>1
  <2>3. Deliver(s, Kind(s), rest[1])
    BY <1>2, <1>8, <1>12, <1>n
  <2>a. PICK t : t = [msg |-> <<Kind(s), n>>, content |-> <<>>]
    OBVIOUS
  <2>4. t \in TmpType
    <3>1. n \in Nat
      BY <1>7, RelayAssumption DEF Requests
    <3> QED BY <1>10, <2>a, <3>1, KindType DEF TmpType
  <2>5. tmp' = [tmp EXCEPT ![s] = t]
    BY <1>2, <1>8, <2>a
  <2>6. /\ pc = "parse" /\ raw' = [raw EXCEPT ![s] = left]
        /\ UNCHANGED <<sockets, epoll, batch, reader, handler, sent, got, resent, missed>>
    BY <1>2
  <2> QED BY <1>3, <1>7, <2>2, <2>3, <2>4, <2>5, <2>6, DeliverStep
<1>13. CASE ContentLen(Kind(s), n) # 0
  <2>a. PICK content : content = <<>>
    OBVIOUS
  <2>1. content \in Seq(Received) /\ Len(content) < ContentLen(Kind(s), rest[1])
    BY <1>9, <1>10, <1>13, <1>n, <2>a
  <2>2. Held(s) = Cat(Cat(Header(Kind(s), rest[1]), content), left)
    BY <1>5, <1>7, <1>11, <1>n, <2>a
  <2>3. /\ state' = [state EXCEPT ![s] = "READ_BODY"]
        /\ UNCHANGED <<queue, is_sending, pc, writer, parsed, queued>>
    BY <1>2, <1>8, <1>13
  <2>4. tmp' = [tmp EXCEPT ![s] = [msg |-> <<Kind(s), rest[1]>>, content |-> content]]
    BY <1>2, <1>8, <1>n, <2>a
  <2>5. UNCHANGED <<sockets, epoll, batch, reader, handler, sent, got, resent, missed,
                     queue, is_sending, pc, writer, parsed, queued>>
    BY <1>2, <2>3
  <2> QED BY <1>2, <1>3, <1>7, <2>1, <2>2, <2>3, <2>4, <2>5, ParseGoesOn
<1> QED BY <1>12, <1>13

LEMMA ParseBodyStep ==
  ASSUME LiveInv, NEW s \in Side, s = reader, ParseBody
  PROVE  LiveInv' /\ ParseEffect(s)
<1>1. DataTypes /\ ControlTypes /\ ReadInv(s)
  BY DEF LiveInv
<1>q. PICK q : q = raw[s]
  OBVIOUS
<1>d. PICK content : content = tmp[s].content
  OBVIOUS
<1>2. PICK rest, tail :
        /\ Stream(Messages(Kind(s)), Nums(s), parsed[s], sent[s], Held(s), in[s], rest, tail)
        /\ InMessage(s, rest)
  BY <1>1 DEF ReadInv
<1>n. PICK n : n = rest[1]
  OBVIOUS
<1>3. pc = "parse" /\ state[s] = "READ_BODY"
  BY DEF ParseBody
<1>4. /\ rest # <<>> /\ tmp[s].msg = <<Kind(s), n>>
      /\ Len(content) < ContentLen(Kind(s), n)
  BY <1>2, <1>3, <1>d, <1>n DEF InMessage
<1>5. q \in Seq(Received) /\ content \in Seq(Received) /\ in[s] \in Seq(Received)
  BY <1>1, <1>d, <1>q DEF DataTypes, TmpType
<1>6. rest \in Seq(Requests) /\ n \in Requests
  BY <1>2, <1>4, <1>n, FrontAndRest DEF Stream
<1>7. ContentLen(Kind(s), n) \in Nat /\ Len(q) \in Nat /\ Len(content) \in Nat
  BY <1>5, <1>6, KindType, MessageParts, LenProperties
<1>r. PICK remaining : remaining = ContentLen(Kind(s), n) - Len(content)
  OBVIOUS
<1>e. PICK take : take = BytesToRead(s, remaining)
  OBVIOUS
<1>8. /\ take \in 0 .. Len(q) /\ take <= remaining
      /\ take = remaining => Len(content) + take = ContentLen(Kind(s), n)
      /\ take # remaining => Len(content) + take < ContentLen(Kind(s), n)
  <2>1. take = IF remaining < Len(q) THEN remaining ELSE Len(q)
    BY <1>e, <1>q, Zenon DEF BytesToRead
  <2> QED BY <1>4, <1>7, <1>r, <2>1
<1>m. PICK more : more = Cat(content, SubSeq(q, 1, take))
  OBVIOUS
<1>b. PICK left : left = SubSeq(q, take + 1, Len(q))
  OBVIOUS
<1>9. tmp[s].msg[1] = Kind(s) /\ tmp[s].msg[2] = n
  BY <1>4
<1>10. /\ raw' = [raw EXCEPT ![s] = left]
       /\ tmp' = [tmp EXCEPT ![s].content = more]
       /\ IF take = remaining
            THEN Deliver(s, Kind(s), n)
            ELSE UNCHANGED <<state, queue, is_sending, pc, writer, parsed, queued>>
       /\ UNCHANGED <<sockets, epoll, batch, reader, handler, sent, got, resent, missed>>
  <2>1. /\ tmp' = [tmp EXCEPT ![s].content = @ \o SubSeq(raw[s], 1, take)]
        /\ raw' = [raw EXCEPT ![s] = SubSeq(@, take + 1, Len(@))]
        /\ IF take = remaining
             THEN Deliver(s, Kind(s), n)
             ELSE UNCHANGED <<state, queue, is_sending, pc, writer, parsed, queued>>
        /\ UNCHANGED <<sockets, epoll, batch, reader, handler, sent, got, resent, missed>>
    BY <1>9, <1>d, <1>e, <1>r, Zenon DEF ParseBody
  <2>2. more = tmp[s].content \o SubSeq(raw[s], 1, take)
    BY <1>m, <1>d, <1>q, Zenon DEF Cat
  <2>3. tmp' = [tmp EXCEPT ![s].content = more]
    BY <2>1, <2>2, Zenon
  <2>4. raw' = [raw EXCEPT ![s] = left]
    BY <1>b, <1>q, <2>1, Zenon
  <2> QED BY <2>1, <2>3, <2>4
<1>11. Held(s) = Cat(Cat(Header(Kind(s), n), content), q)
  BY <1>3, <1>9, <1>d, <1>q DEF Held, Partial
<1>12. /\ more \in Seq(Received) /\ left \in Seq(Received)
       /\ Len(more) = Len(content) + take
       /\ Held(s) = Cat(Cat(Header(Kind(s), n), more), left)
       /\ Len(more) = ContentLen(Kind(s), n) => Held(s) = Cat(Messages(Kind(s))[n], left)
  <2>1. Stream(Messages(Kind(s)), Nums(s), parsed[s], sent[s],
               Cat(Cat(Header(Kind(s), rest[1]), content), q), in[s], rest, tail)
    BY <1>2, <1>11, <1>n
  <2>2. Kind(s) \in PeerKinds
    BY KindType
  <2>3. ContentCut(Kind(s), rest, content, q, take)
    BY ONLY <1>4, <1>5, <1>8, <2>1, <2>2, ContentTaken
  <2> QED BY ONLY <1>m, <1>b, <1>n, <1>8, <1>11, <2>3, Zenon DEF ContentCut
<1>t. PICK t : t = [tmp[s] EXCEPT !.content = more]
  OBVIOUS
<1>13. /\ t = [msg |-> <<Kind(s), n>>, content |-> more]
       /\ tmp' = [tmp EXCEPT ![s] = t]
       /\ t \in TmpType
  <2>1. tmp[s] \in TmpType
    BY <1>1 DEF DataTypes
  <2>2. t = [msg |-> <<Kind(s), n>>, content |-> more]
    BY <1>4, <1>t, <2>1 DEF TmpType
  <2>3. tmp' = [tmp EXCEPT ![s] = t]
    BY <1>10, <1>t
  <2>4. t \in TmpType
    BY <1>12, <1>t, <2>1 DEF TmpType
  <2> QED BY <2>2, <2>3, <2>4
<1>c. /\ raw' = [raw EXCEPT ![s] = left] /\ tmp' = [tmp EXCEPT ![s] = t] /\ t \in TmpType
      /\ left \in Seq(Received) /\ more \in Seq(Received)
      /\ UNCHANGED <<sockets, epoll, batch, reader, handler, sent, got, resent, missed>>
  BY <1>10, <1>12, <1>13
<1>14. CASE take = remaining
  <2>1. Held(s) = Cat(Messages(Kind(s))[rest[1]], left)
    BY <1>8, <1>12, <1>14, <1>n
  <2>2. Deliver(s, Kind(s), rest[1])
    BY <1>10, <1>14, <1>n
  <2>3. pc = "parse" /\ rest # <<>>
    BY <1>3, <1>4
  <2> QED BY <1>2, <1>c, <2>1, <2>2, <2>3, DeliverStep
<1>15. CASE take # remaining
  <2>1. Len(more) < ContentLen(Kind(s), rest[1])
    BY <1>8, <1>12, <1>15, <1>n
  <2>2. UNCHANGED <<sockets, epoll, batch, reader, handler, sent, got, resent, missed,
                     queue, is_sending, pc, writer, parsed, queued>>
    BY <1>10, <1>15
  <2>3. state' = [state EXCEPT ![s] = "READ_BODY"]
    BY <1>1, <1>3, <1>10, <1>15 DEF ControlTypes
  <2>4. tmp' = [tmp EXCEPT ![s] = [msg |-> <<Kind(s), rest[1]>>, content |-> more]]
    BY <1>13, <1>n
  <2>5. Held(s) = Cat(Cat(Header(Kind(s), rest[1]), more), left)
    BY <1>12, <1>n
  <2>6. rest # <<>>
    BY <1>4
  <2> QED BY <1>2, <1>c, <2>1, <2>2, <2>3, <2>4, <2>5, <2>6, ParseGoesOn
<1> QED BY <1>14, <1>15

\* The end of the session.
Ending == \E how \in {"closed", "killed"} : Destroy(how)

LEMMA EndStep ==
  ASSUME LiveInv, Ending
  PROVE  EndedInv'
<1> PICK how \in {"closed", "killed"} : Destroy(how)
  BY DEF Ending
<1>1. DataTypes /\ ControlTypes
  BY DEF LiveInv
<1>2. /\ pc' = how
      /\ in' = Each(<<>>) /\ raw' = Each(<<>>) /\ state' = Each("READ_HEADERS")
      /\ tmp' = Each(NoMessage) /\ queue' = Each(<<>>) /\ is_sending' = Each(FALSE)
      /\ UNCHANGED <<out, eof, reset, epoll, batch, reader, writer, history>>
  BY Zenon DEF Destroy
<1>3. \A S : <<>> \in Seq(S)
  BY EmptySeq
<1>4. /\ in' \in [Side -> Seq(Received)] /\ raw' \in [Side -> Seq(Received)]
      /\ queue' \in [Side -> Seq(Context)]
  BY <1>2, <1>3 DEF Each
<1>5. NoMessage \in TmpType
  BY <1>3 DEF NoMessage, TmpType, PeerKinds
<1>6. tmp' \in [Side -> TmpType]
  BY <1>2, <1>5 DEF Each
<1>7. DataTypes'
  BY <1>1, <1>2, <1>4, <1>6, Zenon DEF DataTypes, history
<1>8. ControlTypes' /\ ~ Up'
  BY <1>1, <1>2 DEF ControlTypes, Up, Each, epoll, history
<1>9. \A s \in Side : (in[s] = <<>> /\ raw[s] = <<>> /\ state[s] = "READ_HEADERS")'
  BY <1>2 DEF Each
<1>10. ASSUME NEW s \in Side
       PROVE  (\E rest, tail : \E held, inn \in Seq(Received) :
                 Stream(Messages(Kind(s)), Nums(s), parsed[s], sent[s], held, inn, rest, tail))'
  <2>1. ReadInv(s)
    BY DEF LiveInv
  <2>2. PICK rest, tail :
          Stream(Messages(Kind(s)), Nums(s), parsed[s], sent[s], Held(s), in[s], rest, tail)
    BY <2>1 DEF ReadInv
  <2>3. Held(s) \in Seq(Received) /\ in[s] \in Seq(Received)
    BY <1>1, <2>1, HeldType DEF DataTypes
  <2>4. Nums(s)' = Nums(s) /\ parsed' = parsed /\ sent' = sent
    BY <1>2, Zenon DEF Nums, history
  <2> QED BY <2>2, <2>3, <2>4, Zenon
<1> QED BY <1>7, <1>8, <1>9, <1>10 DEF EndedInv

LEMMA HandleReadStep == LiveInv /\ HandleRead => LiveInv' \/ Ending
<1> SUFFICES ASSUME LiveInv, HandleRead PROVE LiveInv' \/ Ending
  OBVIOUS
<1>1. ControlTypes
  BY DEF LiveInv
<1>2. CASE ReadSome \/ ParseHeader \/ ParseBody
  <2>1. reader \in Side
    BY <1>1, <1>2 DEF ReadSome, ParseHeader, ParseBody, ControlTypes
  <2> QED BY <1>2, <2>1, ReadSomeStep, ParseHeaderStep, ParseBodyStep
<1>3. CASE ReadDrained \/ ParseStops
  <2>1. Quiet
    BY <1>3, Zenon DEF ReadDrained, ParseStops, Quiet, sockets, handlers, history
  <2>2. ControlTypes'
    BY <1>1, <1>3 DEF ReadDrained, ParseStops, ControlTypes, sockets, epoll, handlers, history
  <2> QED BY <2>1, <2>2, QuietStep
<1>4. CASE ReadEnds \/ ParseKills
  BY <1>4 DEF ReadEnds, ParseKills, Disconnect, Ending
<1> QED BY <1>2, <1>3, <1>4 DEF HandleRead

-----------------------------------------------------------------------------
(* The steps of handle_write_event.                                        *)

\* What a write does, n being the units that the socket took.
WriteEffect(t) ==
  /\ queue[t] # <<>> /\ ~ reset[t]
  /\ UNCHANGED <<got, queued, reset, parsed, sent>>
  /\ \A r \in Side : r # t => queue'[r] = queue[r] /\ out'[r] = out[r]
  /\ \E n \in 0 .. Len(Buffer(queue[t][1])) :
       /\ queue'[t] = AfterWriting(queue[t], n)
       /\ out'[t] = Cat(out[t], SubSeq(Buffer(queue[t][1]), 1, n))

LEMMA WriteSomeStep ==
  ASSUME LiveInv, NEW t \in Side, t = writer, WriteSome
  PROVE  LiveInv' /\ WriteEffect(t)
<1>1. /\ DataTypes /\ ControlTypes
      /\ queue[t] \in Seq(Context) /\ out[t] \in Seq(Units) /\ got[t] \in Seq(Units)
      /\ Len(out[t]) <= SndBuf
  BY DEF LiveInv, DataTypes
<1>a. PICK que : que = queue[t]
  OBVIOUS
<1>2. que \in Seq(Context) /\ que # <<>>
  BY <1>1, <1>a DEF WriteSome
<1>c. PICK c : c = que[1]
  OBVIOUS
<1>3. Head(queue[t]) = c
  BY <1>2, <1>a, <1>c, HeadTailProperties
<1>b. PICK buffer : buffer = Buffer(c)
  OBVIOUS
<1>f. PICK free : free = SndBuf - Len(out[t])
  OBVIOUS
<1>n. PICK n : n = IF free < Len(buffer) THEN free ELSE Len(buffer)
  OBVIOUS
<1>o. PICK o : o = Cat(out[t], SubSeq(buffer, 1, n))
  OBVIOUS
<1>q. PICK que2 : que2 = AfterWriting(que, n)
  OBVIOUS
<1>4. /\ free > 0 /\ out' = [out EXCEPT ![t] = o]
      /\ AfterWrite(t, c, n)
      /\ resent' = [resent EXCEPT ![t] = @ \/ (c.phase = "SEND_CONTENT" /\ n < Len(buffer))]
      /\ UNCHANGED <<in, eof, reset, epoll, raw, state, tmp, is_sending, thread,
                     handler, sent, got, parsed, queued, missed>>
  <2> DEFINE c0 == Head(queue[t])
             buffer0 == IF c0.phase = "SEND_HEADER" THEN c0.header ELSE c0.content
             free0 == SndBuf - Len(out[t])
             n0 == IF free0 < Len(buffer0) THEN free0 ELSE Len(buffer0)
  <2>1. /\ free0 > 0 /\ out' = [out EXCEPT ![t] = @ \o SubSeq(buffer0, 1, n0)]
        /\ AfterWrite(t, c0, n0)
        /\ resent' = [resent EXCEPT ![t] =
                        @ \/ (c0.phase = "SEND_CONTENT" /\ n0 < Len(buffer0))]
        /\ UNCHANGED <<in, eof, reset, epoll, raw, state, tmp, is_sending, thread,
                       handler, sent, got, parsed, queued, missed>>
    BY Zenon DEF WriteSome
  <2>2. c0 = c /\ buffer0 = buffer /\ free0 = free /\ n0 = n
    BY <1>3, <1>b, <1>f, <1>n, Zenon DEF Buffer
  <2> HIDE DEF c0, buffer0, free0, n0
  <2>3. out' = [out EXCEPT ![t] = @ \o SubSeq(buffer, 1, n)]
    BY <2>1, <2>2, Zenon
  <2>4. out' = [out EXCEPT ![t] = o]
    BY <1>o, <2>3, Zenon DEF Cat
  <2> QED BY ONLY <2>1, <2>2, <2>4, Zenon
<1>5. queue' = [queue EXCEPT ![t] = que2]
  BY <1>4, <1>a, <1>b, <1>c, <1>q, Zenon DEF AfterWrite, AfterWriting, Buffer
<1>6. c \in Context
  BY <1>2, <1>c, FrontAndRest
<1>7. buffer \in Seq(Units)
  BY <1>6, <1>b, ContextFields DEF Buffer
<1>8. n \in 0 .. Len(buffer) /\ n <= free /\ Len(buffer) \in Nat /\ Len(out[t]) \in Nat
  <2>1. Len(buffer) \in Nat /\ Len(out[t]) \in Nat /\ SndBuf \in Nat
    BY <1>1, <1>7, LenProperties, RelayAssumption
  <2>2. free \in Nat
    BY <1>4, <1>f, <2>1
  <2> QED BY <1>n, <2>1, <2>2
<1>w. PICK written : written = SubSeq(buffer, 1, n)
  OBVIOUS
<1>9. /\ que2 \in Seq(Context) /\ written \in Seq(Units) /\ Len(written) = n
      /\ ~ (c.phase = "SEND_CONTENT" /\ n < Len(buffer)) =>
            FlatMap(Unsents, que) = Cat(written, FlatMap(Unsents, que2))
  <2>1. n \in 0 .. Len(Buffer(que[1]))
    BY <1>8, <1>b, <1>c
  <2>2. /\ AfterWriting(que, n) \in Seq(Context)
        /\ SubSeq(Buffer(que[1]), 1, n) \in Seq(Units)
        /\ Len(SubSeq(Buffer(que[1]), 1, n)) = n
        /\ ~ (que[1].phase = "SEND_CONTENT" /\ n < Len(Buffer(que[1]))) =>
             FlatMap(Unsents, que)
               = Cat(SubSeq(Buffer(que[1]), 1, n), FlatMap(Unsents, AfterWriting(que, n)))
    BY ONLY <1>2, <2>1, WriteAdvances
  <2> QED BY ONLY <1>b, <1>c, <1>q, <1>w, <2>2, Zenon
<1>10. o \in Seq(Units) /\ Len(o) <= SndBuf
  <2>1. o = Cat(out[t], written)
    BY ONLY <1>o, <1>w, Zenon
  <2>2. o \in Seq(Units) /\ Len(o) = Len(out[t]) + Len(written)
    BY <1>1, <1>9, <2>1, CatType
  <2> QED BY <1>8, <1>9, <1>f, <2>2, RelayAssumption
<1>11. /\ out' \in [Side -> Seq(Units)] /\ out'[t] = o
       /\ \A r \in Side : r # t => out'[r] = out[r]
  BY <1>1, <1>4, <1>10, Changed DEF DataTypes
<1>12. /\ queue' \in [Side -> Seq(Context)] /\ queue'[t] = que2
       /\ \A r \in Side : r # t => queue'[r] = queue[r]
  BY <1>1, <1>5, <1>9, Changed DEF DataTypes
<1>13. DataTypes'
  <2>1. \A r \in Side : Len(out'[r]) <= SndBuf
    BY <1>1, <1>10, <1>11 DEF DataTypes
  <2> QED BY <1>1, <1>4, <1>11, <1>12, <2>1, Zenon DEF DataTypes
<1>14. ControlTypes'
  BY <1>1, <1>4 DEF ControlTypes, epoll, thread
<1>15. ASSUME NEW s \in Side PROVE ReadInv(s)'
  BY <1>4, ReadFrame DEF LiveInv
<1>16. /\ resent'[t] = (resent[t] \/ (c.phase = "SEND_CONTENT" /\ n < Len(buffer)))
       /\ \A r \in Side : r # t => resent'[r] = resent[r]
  BY <1>1, <1>4, Zenon DEF ControlTypes
<1>17. WriteInv(t)'
  <2>1. SUFFICES ASSUME ~ resent'[t], ~ reset'[t]
                 PROVE  Outgoing(got'[t], out'[t], queue'[t], queued'[t])
    BY DEF WriteInv
  <2>2. /\ ~ (c.phase = "SEND_CONTENT" /\ n < Len(buffer)) /\ ~ resent[t] /\ ~ reset[t]
    BY <1>4, <1>16, <2>1, Zenon
  <2>3. Outgoing(got[t], out[t], que, queued[t])
    BY <1>a, <2>2 DEF LiveInv, WriteInv
  <2>4. Outgoing(got[t], o, que2, queued[t])
    <3>1. o = Cat(out[t], written)
      BY ONLY <1>o, <1>w, Zenon
    <3> QED BY <1>1, <1>9, <2>2, <2>3, <3>1, OutgoingWritten
  <2> QED BY <1>4, <1>11, <1>12, <2>4, Zenon
<1>18. ASSUME NEW r \in Side, r # t PROVE WriteInv(r)'
  BY <1>4, <1>11, <1>12, <1>16, <1>18, WriteFrame DEF LiveInv
<1>19. WriteEffect(t)
  <2>1. queue[t] # <<>> /\ ~ reset[t]
    BY Zenon DEF WriteSome
  <2>2. n \in 0 .. Len(Buffer(queue[t][1]))
    BY <1>8, <1>a, <1>b, <1>c, Zenon
  <2>3. /\ queue'[t] = AfterWriting(queue[t], n)
        /\ out'[t] = Cat(out[t], SubSeq(Buffer(queue[t][1]), 1, n))
    BY <1>11, <1>12, <1>a, <1>b, <1>c, <1>o, <1>q, Zenon
  <2>4. UNCHANGED <<got, queued, reset, parsed, sent>>
    BY <1>4
  <2> QED BY <1>11, <1>12, <2>1, <2>2, <2>3, <2>4, Zenon DEF WriteEffect
<1> QED BY <1>13, <1>14, <1>15, <1>17, <1>18, <1>19 DEF LiveInv

LEMMA HandleWriteStep == LiveInv /\ HandleWrite => LiveInv' \/ Ending
<1> SUFFICES ASSUME LiveInv, HandleWrite PROVE LiveInv' \/ Ending
  OBVIOUS
<1>1. ControlTypes
  BY DEF LiveInv
<1>2. CASE WriteSome
  BY <1>1, <1>2, WriteSomeStep DEF ControlTypes
<1>3. CASE WriteDone
  <2>1. Quiet
    BY <1>3, Zenon DEF WriteDone, Quiet, sockets, history
  <2>2. ControlTypes'
    BY <1>1, <1>3 DEF WriteDone, Return, ModifyEvent, ControlTypes, sockets, epoll, history,
      Readable, Writable
  <2> QED BY <2>1, <2>2, QuietStep
<1>4. CASE WriteBlocked
  <2>1. Quiet
    BY <1>4, Zenon DEF WriteBlocked, Quiet, sockets, history
  <2>2. ControlTypes'
    BY <1>1, <1>4 DEF WriteBlocked, Return, ModifyEvent, ControlTypes, sockets, epoll, history,
      Readable, Writable
  <2> QED BY <2>1, <2>2, QuietStep
<1>5. CASE WriteFails /\ reader # "none"
  <2>1. Quiet
    BY <1>5, Zenon DEF WriteFails, Quiet, sockets, handlers, history
  <2>2. ControlTypes'
    BY <1>1, <1>5 DEF WriteFails, ControlTypes, sockets, epoll, handlers, history
  <2> QED BY <2>1, <2>2, QuietStep
<1>6. CASE WriteKills \/ (WriteFails /\ reader = "none")
  BY <1>6 DEF WriteKills, WriteFails, Disconnect, Ending
<1> QED BY <1>2, <1>3, <1>4, <1>5, <1>6 DEF HandleWrite

-----------------------------------------------------------------------------
(* The invariant holds.                                                    *)

LEMMA InitData == Init => LiveInv
<1> SUFFICES ASSUME Init PROVE LiveInv
  OBVIOUS
<1>1. \A S : <<>> \in Seq(S)
  BY EmptySeq
<1>2. Len(<<>>) = 0 /\ 0 <= SndBuf
  BY EmptySeq, RelayAssumption
<1>3. DataTypes
  BY <1>1, <1>2 DEF Init, DataTypes, TmpType, NoMessage, Each, PeerKinds
<1>4. ControlTypes
  BY DEF Init, ControlTypes, Each, Side
<1>5. ASSUME NEW s \in Side PROVE ReadInv(s)
  <2>1. /\ parsed[s] = <<>> /\ sent[s] = <<>> /\ in[s] = <<>> /\ raw[s] = <<>>
        /\ state[s] = "READ_HEADERS"
    BY DEF Init, Each
  <2> PICK rest : rest = Nums(s)
    OBVIOUS
  <2> PICK tail : tail = FlatMap(Messages(Kind(s)), rest)
    OBVIOUS
  <2>2. rest \in Seq(Requests)
    BY <1>3, NumsType
  <2>3. tail \in Seq(Received)
    BY <2>2, KindType, FlatMapType
  <2>4. Held(s) = <<>>
    <3>1. Cat(<<>>, <<>>) = <<>>
      BY <1>1, CatEmpty
    <3> QED BY <2>1, <3>1 DEF Held, Partial
  <2>5. Cat(<<>>, rest) = rest /\ Cat(<<>>, tail) = tail
    BY <2>2, <2>3, CatEmpty
  <2>6. Stream(Messages(Kind(s)), Nums(s), parsed[s], sent[s], Held(s), in[s], rest, tail)
    BY <2>1, <2>2, <2>3, <2>4, <2>5 DEF Stream
  <2>7. InMessage(s, rest)
    BY <2>1 DEF InMessage
  <2> QED BY <2>6, <2>7 DEF ReadInv
<1>6. ASSUME NEW t \in Side PROVE WriteInv(t)
  <2>1. got[t] = <<>> /\ out[t] = <<>> /\ queue[t] = <<>> /\ queued[t] = <<>>
    BY DEF Init, Each
  <2>2. Cat(<<>>, <<>>) = <<>>
    BY <1>1, CatEmpty
  <2>3. FlatMap(Unsents, <<>>) = <<>> /\ FlatMap(AllMessages, <<>>) = <<>>
    BY FlatMapOfEmpty
  <2> QED BY <2>1, <2>2, <2>3 DEF WriteInv, Outgoing
<1> QED BY <1>3, <1>4, <1>5, <1>6 DEF LiveInv

\* Nothing happens when the session is over.
LEMMA StepsAreLive == Next => Up
BY DEF Next, Peers, Worker, ClientSends, BackendSends, Send, PeerReads, PeerCloses, PeerResets,
  EpollWait, BatchDone, Dispatch, HandleRead, ReadSome, ReadDrained, ReadEnds, ParseStops,
  ParseHeader, ParseBody, ParseKills, HandleWrite, WriteDone, WriteSome, WriteBlocked,
  WriteFails, WriteKills, Up

LEMMA LiveSteps == LiveInv /\ [Next]_vars => LiveInv' \/ Ending
<1>1. LiveInv /\ UNCHANGED vars => LiveInv'
  <2> SUFFICES ASSUME LiveInv, UNCHANGED vars PROVE LiveInv'
    OBVIOUS
  <2>1. Quiet
    BY Zenon DEF Quiet, vars, sockets, handlers, history
  <2>2. ControlTypes'
    BY Zenon DEF LiveInv, ControlTypes, vars, sockets, epoll, handlers, thread, history
  <2> QED BY <2>1, <2>2, QuietStep
<1>2. LiveInv /\ Next => LiveInv' \/ Ending
  BY SendsStep, PeerReadsStep, PeerEndsStep, LoopStep, HandleReadStep, HandleWriteStep
    DEF Next, Peers, Worker
<1> QED BY <1>1, <1>2

LEMMA EndedStays == EndedInv /\ UNCHANGED vars => EndedInv'
<1> SUFFICES ASSUME EndedInv, UNCHANGED vars PROVE EndedInv'
  OBVIOUS
<1>1. DataTypes' /\ ControlTypes' /\ ~ Up'
  BY Zenon DEF EndedInv, DataTypes, ControlTypes, Up, vars, sockets, epoll, handlers, thread, history
<1>2. \A s \in Side : Nums(s)' = Nums(s)
  BY Zenon DEF Nums, vars, history
<1> QED BY <1>1, <1>2, Zenon DEF EndedInv, vars, sockets, handlers, history

LEMMA DataInvariant == Spec => []DataInv
<1>1. EndedInv => ~ Next
  BY StepsAreLive DEF EndedInv
<1>2. DataInv /\ [Next]_vars => DataInv'
  BY <1>1, EndedStays, LiveSteps, EndStep DEF DataInv
<1>3. Init => DataInv
  BY InitData DEF DataInv
<1> QED BY <1>2, <1>3, PTL DEF Spec

-----------------------------------------------------------------------------
(* The theorems.                                                           *)

\* Spec => []TypeOK: in particular, no socket holds more than its send buffer.
THEOREM TypeCorrect == Spec => []TypeOK
<1>1. DataInv => TypeOK
  <2> SUFFICES ASSUME DataTypes, ControlTypes PROVE TypeOK
    BY DEF DataInv, LiveInv, EndedInv
  <2>1. \A s \in Side : in[s] \in Seq({"req", "rsp"} \X Requests \X Nat)
    BY Zenon DEF DataTypes, Received, UnitsOf, PeerKinds
  <2>2. \A s \in Side : \A j \in DOMAIN queue[s] : queue[s][j] \in Context
    <3>1. \A s \in Side : queue[s] \in Seq(Context)
      BY DEF DataTypes
    <3> QED BY <3>1, ElementOfSeq, LenProperties
  <2>3. {eof, reset, ready, watchOut, noSpace, is_sending, resent, missed}
          \subseteq [Side -> BOOLEAN]
    BY DEF ControlTypes
  <2> QED BY <2>1, <2>2, <2>3 DEF TypeOK, DataTypes, ControlTypes
<1> QED BY <1>1, DataInvariant, PTL

\* What the session has parsed of a stream, and what it still holds of it.
Kept(s) ==
  Wire(Kind(s), parsed[s]) \o
    (IF state[s] = "READ_HEADERS" THEN <<>> ELSE Header(Kind(s), tmp[s].msg[2]) \o tmp[s].content)
    \o raw[s] \o in[s]

LEMMA CatIsPrefix ==
  ASSUME NEW S, NEW p \in Seq(S), NEW q \in Seq(S)
  PROVE  IsPrefix(p, Cat(p, q))
<1>1. /\ Len(Cat(p, q)) = Len(p) + Len(q) /\ Len(p) \in Nat /\ Len(q) \in Nat
      /\ \A k \in 1 .. Len(p) : Cat(p, q)[k] = p[k]
  BY CatElements
<1>2. Len(p) <= Len(Cat(p, q))
  BY <1>1
<1> PICK c : c = Cat(p, q)
  OBVIOUS
<1>3. c \in Seq(S)
  BY CatType
<1> PICK n : n = Len(p)
  OBVIOUS
<1>4. /\ SubSeq(p, 1, n) \in Seq(S) /\ Len(SubSeq(p, 1, n)) = n
      /\ SubSeq(c, 1, n) \in Seq(S) /\ Len(SubSeq(c, 1, n)) = n
      /\ \A k \in 1 .. n : SubSeq(p, 1, n)[k] = p[k] /\ SubSeq(c, 1, n)[k] = c[k]
  BY <1>1, <1>2, <1>3, SubSeqProperties
<1>5. SubSeq(p, 1, n) = SubSeq(c, 1, n)
  BY <1>1, <1>4, SeqEqual
<1> QED BY <1>2, <1>5 DEF IsPrefix

LEMMA OwnPrefix ==
  ASSUME NEW S, NEW p \in Seq(S)
  PROVE  IsPrefix(p, p)
<1>1. <<>> \in Seq(S)
  BY EmptySeq
<1>2. IsPrefix(p, Cat(p, <<>>))
  BY <1>1, CatIsPrefix
<1> QED BY <1>2, CatEmpty

\* Spec => []ReadConserves: however the stream of a peer is cut, the messages
\* parsed, the one being parsed, raw_buffer and the socket are what it has sent;
\* once the session is over, what it parsed is how the stream began.
THEOREM ReadsAlwaysConserve == Spec => []ReadConserves
<1>1. ASSUME LiveInv, NEW s \in Side
      PROVE  Kept(s) = sent[s]
  <2>1. DataTypes /\ ControlTypes /\ ReadInv(s)
    BY <1>1 DEF LiveInv
  <2>2. PICK rest, tail :
          /\ Stream(Messages(Kind(s)), Nums(s), parsed[s], sent[s], Held(s), in[s], rest, tail)
          /\ InMessage(s, rest)
    BY <2>1 DEF ReadInv
  <2>3. /\ parsed[s] \in Seq(Requests) /\ sent[s] \in Seq(Received) /\ in[s] \in Seq(Received)
        /\ Partial(s) \in Seq(Received) /\ raw[s] \in Seq(Received) /\ Held(s) \in Seq(Received)
        /\ Nums(s) \in Seq(Requests)
    BY <2>1, HeldType, NumsType DEF DataTypes
  <2> DEFINE before == FlatMap(Messages(Kind(s)), parsed[s])
  <2>4. Cat(before, Cat(Held(s), in[s])) = sent[s]
    BY <2>2, <2>3, KindType, StreamConserves
  <2>5. before \in Seq(Received) /\ before = Wire(Kind(s), parsed[s])
    BY <2>3, KindType, FlatMapType, WireIsFlatMap
  <2> HIDE DEF before
  <2>6. Cat(before, Cat(Held(s), in[s])) = Cat(Cat(before, Held(s)), in[s])
    BY <2>3, <2>5, CatAssociative
  <2>7. Cat(before, Held(s)) = Cat(Cat(before, Partial(s)), raw[s])
    BY <2>3, <2>5, CatAssociative DEF Held
  <2>8. Cat(Cat(Cat(before, Partial(s)), raw[s]), in[s]) = sent[s]
    BY <2>4, <2>6, <2>7
  <2> QED BY <2>5, <2>8, Zenon DEF Cat, Partial, Kept
<1>2. ASSUME EndedInv, NEW s \in Side
      PROVE  IsPrefix(Kept(s), sent[s])
  <2>1. PICK rest, tail : \E held, inn \in Seq(Received) :
          Stream(Messages(Kind(s)), Nums(s), parsed[s], sent[s], held, inn, rest, tail)
    BY <1>2 DEF EndedInv
  <2>2. PICK held \in Seq(Received), inn \in Seq(Received) :
          Stream(Messages(Kind(s)), Nums(s), parsed[s], sent[s], held, inn, rest, tail)
    BY <2>1
  <2>3. /\ parsed[s] \in Seq(Requests) /\ sent[s] \in Seq(Received)
        /\ Nums(s) \in Seq(Requests)
    BY <1>2, NumsType DEF EndedInv, DataTypes
  <2> DEFINE before == FlatMap(Messages(Kind(s)), parsed[s])
  <2>4. Cat(before, Cat(held, inn)) = sent[s]
    BY <2>2, <2>3, KindType, StreamConserves
  <2>5. before \in Seq(Received) /\ before = Wire(Kind(s), parsed[s])
    BY <2>3, KindType, FlatMapType, WireIsFlatMap
  <2> HIDE DEF before
  <2>6. Kept(s) = before
    <3>1. in[s] = <<>> /\ raw[s] = <<>> /\ state[s] = "READ_HEADERS"
      BY <1>2 DEF EndedInv
    <3>2. Kept(s) = Cat(Cat(Cat(before, <<>>), <<>>), <<>>)
      BY <2>5, <3>1, Zenon DEF Kept, Cat
    <3> QED BY <2>5, <3>2, CatEmpty, Zenon
  <2>7. Cat(held, inn) \in Seq(Received)
    BY CatType
  <2> QED BY <2>4, <2>5, <2>6, <2>7, CatIsPrefix
<1>3. DataInv => ReadConserves
  <2>1. ASSUME DataInv, NEW s \in Side
        PROVE  IF Up THEN Kept(s) = sent[s] ELSE IsPrefix(Kept(s), sent[s])
    <3>1. CASE LiveInv
      <4>1. sent[s] \in Seq(Received)
        BY <3>1 DEF LiveInv, DataTypes
      <4> QED BY <1>1, <3>1, <4>1, OwnPrefix, Zenon
    <3>2. CASE EndedInv
      BY <1>2, <3>2 DEF EndedInv
    <3> QED BY <2>1, <3>1, <3>2 DEF DataInv
  <2> QED BY <2>1, Zenon DEF ReadConserves, Kept, Kind
<1> QED BY <1>3, DataInvariant, PTL

\* Spec => []WriteConserves: while the session lasts, and until a write of content is short or the connection
\* is reset, the peer gets the messages that were queued, whole and in order.
THEOREM WritesAlwaysConserve == Spec => []WriteConserves
<1>1. DataInv => WriteConserves
  <2> SUFFICES ASSUME LiveInv, NEW t \in Side, ~ resent[t], ~ reset[t]
               PROVE  got[t] \o out[t] \o
                        FlattenSeq([k \in DOMAIN queue[t] |-> Unsent(queue[t][k])]) = Queued(t)
    BY Zenon DEF WriteConserves, DataInv, EndedInv
  <2>1. Outgoing(got[t], out[t], queue[t], queued[t])
    BY DEF LiveInv, WriteInv
  <2>2. queue[t] \in Seq(Context) /\ queued[t] \in Seq(Kinds \X Requests)
    BY DEF LiveInv, DataTypes
  <2>3. FlattenSeq([k \in DOMAIN queue[t] |-> Unsent(queue[t][k])]) = FlatMap(Unsents, queue[t])
    <3>1. \A k \in DOMAIN queue[t] : queue[t][k] \in Context
      BY <2>2, ElementOfSeq, LenProperties
    <3>2. [k \in DOMAIN queue[t] |-> Unsent(queue[t][k])] = MapEach(Unsents, queue[t])
      BY <3>1 DEF MapEach, Unsents
    <3> QED BY <3>2 DEF FlatMap
  <2>4. Queued(t) = FlatMap(AllMessages, queued[t])
    <3>1. \A k \in DOMAIN queued[t] : queued[t][k] \in Kinds \X Requests
      BY <2>2, ElementOfSeq, LenProperties
    <3>2. [k \in DOMAIN queued[t] |-> Message(queued[t][k][1], queued[t][k][2])]
            = MapEach(AllMessages, queued[t])
      BY <3>1, Zenon DEF MapEach, AllMessages
    <3> QED BY <3>2 DEF FlatMap, Queued
  <2> QED BY <2>1, <2>3, <2>4, Zenon DEF Outgoing, Cat
<1> QED BY <1>1, DataInvariant, PTL
=============================================================================
