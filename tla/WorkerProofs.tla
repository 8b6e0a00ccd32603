---------------------------- MODULE WorkerProofs ----------------------------
(***************************************************************************)
(* Proofs about Worker: for every number of descriptors and heap addresses *)
(* its safety properties hold and it implements Sessions.                  *)
(***************************************************************************)
EXTENDS Worker, TLAPS

\* Every event still to be handled is on a descriptor that is open, or was
\* closed since epoll_wait returned the event.
PendingKnown == pending \cap Fd \subseteq open \cup closed

\* The loop was left on its own condition.
ExitedEmpty == pc = "exited" => needExit /\ \A f \in Fd : c2b[f] = None

\* Nothing is accepted before startup is done.
StartedEmpty == pc = "start" => \A f \in Fd : c2b[f] = None

\* The part of TypeOK that an accept or a disconnect changes.
TablesType ==
  /\ open \subseteq Fd
  /\ c2b \in [Fd -> Handlers \cup {None}]
  /\ b2c \in [Fd -> Handlers \cup {None}]
  /\ heap \in [Handlers -> Object \cup {None}]
  /\ closed \subseteq Fd

Consistent == TablesType /\ TablesAgree /\ NoFdLeak

IInv == TypeOK /\ TablesAgree /\ NoFdLeak /\ PendingKnown /\ ExitedEmpty /\ StartedEmpty

-----------------------------------------------------------------------------
(* Facts about objects.                                                    *)

\* The descriptors of an object are its client and, if it has one, its
\* backend.
LEMMA ObjectFds ==
  ASSUME NEW o \in Object
  PROVE  /\ FdsOf(o) \subseteq Fd
         /\ o.client \in Fd /\ o.client \in FdsOf(o)
         /\ o.backend \in Fd \cup {None}
         /\ o.backend # None => o.backend \in FdsOf(o)
         /\ \A f \in FdsOf(o) : f = o.client \/ (f = o.backend /\ o.backend # None)
BY WorkerAssumption DEF FdsOf, Object

\* A live address holds an object.
LEMMA LiveObject ==
  ASSUME TablesType, NEW h \in Live
  PROVE  /\ h \in Handlers
         /\ heap[h] \in Object
         /\ heap[h] # None
BY DEF TablesType, Live

\* Erasing a client's entry destroys the object that holds its descriptor.
LEMMA EraseDestroysOwner ==
  ASSUME Consistent, NEW c \in Fd, c2b[c] # None, EraseClient(c)
  PROVE  \E h \in Live :
           /\ h = c2b[c] /\ heap[h].client = c
           /\ Destroy(h)
           /\ c2b' = [c2b EXCEPT ![heap[h].client] = None]
BY DEF EraseClient, Consistent, TablesAgree

\* What Worker::disconnect reaches: for a descriptor whose Route is a live
\* object it destroys exactly that object and drops its client's entry.
LEMMA DisconnectDestroysOne ==
  ASSUME Consistent, NEW f \in Fd, Route(f) \in Live, Disconnect(f)
  PROVE  \E h \in Live :
           /\ h = Route(f)
           /\ Destroy(h)
           /\ c2b' = [c2b EXCEPT ![heap[h].client] = None]
           /\ b2c' \in {b2c, [b2c EXCEPT ![f] = None]}
           /\ b2c' # b2c => b2c[f] \notin Live \ {h}
<1>1. CASE c2b[f] # None
  <2>1. EraseClient(f) /\ b2c' = b2c /\ Route(f) = c2b[f]
    BY <1>1 DEF Disconnect, Route
  <2> QED BY <1>1, <2>1, EraseDestroysOwner
<1>2. CASE c2b[f] = None
  <2> DEFINE h == b2c[f]
  <2>1. Route(f) = h /\ h \in Live
    BY <1>2 DEF Route
  <2>2. c2b[heap[h].client] = h /\ heap[h].client \in Fd /\ h # None
    BY <2>1, LiveObject, ObjectFds, WorkerAssumption DEF Consistent, TablesAgree
  <2>3. EraseClient(heap[h].client) /\ b2c' = [b2c EXCEPT ![f] = None]
    BY <1>2 DEF Disconnect
  <2> QED BY <2>1, <2>2, <2>3, EraseDestroysOwner
<1> QED BY <1>1, <1>2

-----------------------------------------------------------------------------
(* The changes of the tables keep them consistent.                         *)

\* An object is destroyed and its client's entry dropped, and perhaps one
\* pointer of backend_to_client that is no other live object's.
LEMMA DestroyKeeps ==
  ASSUME Consistent, NEW f \in Fd, NEW h \in Live,
         Destroy(h),
         c2b' = [c2b EXCEPT ![heap[h].client] = None],
         b2c' \in {b2c, [b2c EXCEPT ![f] = None]},
         b2c' # b2c => b2c[f] \notin Live \ {h}
  PROVE  Consistent' /\ open \cup closed \subseteq open' \cup closed'
<1>1. /\ Destroy(h)
      /\ c2b' = [c2b EXCEPT ![heap[h].client] = None]
      /\ b2c' \in {b2c, [b2c EXCEPT ![f] = None]}
      /\ b2c' # b2c => b2c[f] \notin Live \ {h}
  OBVIOUS
<1>2. h \in Handlers /\ heap[h] \in Object
  BY LiveObject DEF Consistent
<1>3. FdsOf(heap[h]) \subseteq Fd /\ heap[h].client \in Fd
  BY <1>2, ObjectFds
<1>4. TablesType'
  BY <1>1, <1>2, <1>3 DEF TablesType, Destroy, Consistent
<1>5. /\ Live' = Live \ {h}
      /\ \A g \in Live' : heap'[g] = heap[g]
  BY <1>1, <1>2 DEF Live, Destroy, Consistent, TablesType
<1>6. \A g \in Live' : /\ g # h /\ g \in Live /\ heap[g] \in Object
                       /\ FdsOf(heap[g]) \cap FdsOf(heap[h]) = {}
  BY <1>5, <1>2, LiveObject DEF Consistent, NoFdLeak
<1>7. TablesAgree'
  <2>1. ASSUME NEW c \in Fd, c2b'[c] # None
        PROVE  c2b'[c] \in Live' /\ heap'[c2b'[c]].client = c
    <3>1. c # heap[h].client /\ c2b'[c] = c2b[c]
      BY <1>1, <1>3, <2>1 DEF Consistent, TablesType
    <3>2. c2b[c] \in Live /\ heap[c2b[c]].client = c
      BY <2>1, <3>1 DEF Consistent, TablesAgree
    <3> QED BY <3>1, <3>2, <1>5
  <2>2. ASSUME NEW g \in Live'
        PROVE  /\ c2b'[heap'[g].client] = g
               /\ heap'[g].backend # None => /\ b2c'[heap'[g].backend] = g
                                             /\ c2b'[heap'[g].backend] = None
    <3>1. g # h /\ g \in Live /\ heap[g] \in Object /\ heap'[g] = heap[g]
      BY <1>5, <1>6
    <3>2. /\ c2b[heap[g].client] = g
          /\ heap[g].backend # None => /\ b2c[heap[g].backend] = g
                                       /\ c2b[heap[g].backend] = None
      BY <3>1 DEF Consistent, TablesAgree
    <3>3. heap[g].client \in Fd /\ heap[g].backend \in Fd \cup {None}
      BY <3>1, ObjectFds
    <3>4. heap[g].client # heap[h].client
      BY <3>1, <3>2 DEF Consistent, TablesAgree
    <3>5. c2b'[heap'[g].client] = g
      BY <1>1, <3>1, <3>2, <3>3, <3>4 DEF Consistent, TablesType
    <3>6. ASSUME heap[g].backend # None
          PROVE  b2c'[heap[g].backend] = g /\ c2b'[heap[g].backend] = None
      <4>1. heap[g].backend \in Fd
        BY <3>3, <3>6
      <4>2. c2b'[heap[g].backend] = None
        BY <1>1, <3>2, <3>6, <4>1 DEF Consistent, TablesType
      <4>3. b2c'[heap[g].backend] = g
        BY <1>1, <3>1, <3>2, <3>6, <4>1 DEF Consistent, TablesType
      <4> QED BY <4>2, <4>3
    <3> QED BY <3>1, <3>5, <3>6
  <2> QED BY <2>1, <2>2 DEF TablesAgree
<1>8. NoFdLeak'
  <2>1. open' = UNION {FdsOf(heap'[g]) : g \in Live'}
    <3>1. open' = open \ FdsOf(heap[h])
      BY <1>1 DEF Destroy
    <3>2. open = UNION {FdsOf(heap[g]) : g \in Live}
      BY DEF Consistent, NoFdLeak
    <3>3. ASSUME NEW x \in open' PROVE \E g \in Live' : x \in FdsOf(heap'[g])
      BY <3>1, <3>2, <1>5
    <3>4. ASSUME NEW g \in Live', NEW x \in FdsOf(heap'[g]) PROVE x \in open'
      BY <3>1, <3>2, <1>5, <1>6
    <3> QED BY <3>3, <3>4
  <2>2. \A g, k \in Live' : g # k => FdsOf(heap'[g]) \cap FdsOf(heap'[k]) = {}
    BY <1>5 DEF Consistent, NoFdLeak
  <2>3. \A g \in Live' : heap'[g].client # heap'[g].backend
    BY <1>5 DEF Consistent, NoFdLeak
  <2> QED BY <2>1, <2>2, <2>3 DEF NoFdLeak
<1>9. open \cup closed \subseteq open' \cup closed'
  BY <1>1 DEF Destroy
<1> QED BY <1>4, <1>7, <1>8, <1>9 DEF Consistent

\* Worker::disconnect.
LEMMA DisconnectKeeps ==
  ASSUME Consistent, NEW f \in Fd, Route(f) \in Live, Disconnect(f)
  PROVE  Consistent' /\ open \cup closed \subseteq open' \cup closed'
BY DisconnectDestroysOne, DestroyKeeps

\* A pointer of backend_to_client that is no live object's is dropped.
LEMMA DropPointerKeeps ==
  ASSUME Consistent, NEW f \in Fd, b2c[f] \notin Live,
         b2c' = [b2c EXCEPT ![f] = None], UNCHANGED <<open, c2b, heap, closed>>
  PROVE  Consistent'
<1>1. Live' = Live
  BY DEF Live
<1>2. \A h \in Live : heap[h].backend # None => heap[h].backend \in Fd \ {f}
  <2> SUFFICES ASSUME NEW h \in Live, heap[h].backend # None
               PROVE  heap[h].backend \in Fd \ {f}
    OBVIOUS
  <2>1. heap[h].backend \in Fd
    BY LiveObject, ObjectFds DEF Consistent
  <2> QED BY <2>1 DEF Consistent, TablesAgree
<1>3. TablesType'
  BY DEF Consistent, TablesType
<1>4. TablesAgree'
  BY <1>1, <1>2 DEF Consistent, TablesType, TablesAgree
<1> QED BY <1>1, <1>3, <1>4 DEF Consistent, NoFdLeak

\* The end of Worker::accept_new_conn.
LEMMA AddSessionKeeps ==
  ASSUME Consistent, NEW cfd \in Fd, NEW bfd \in Fd \cup {None}, NEW h \in Handlers,
         LowestFree(cfd, open), NewBackend(cfd, bfd), heap[h] = None,
         AddSession(h, cfd, bfd), UNCHANGED closed
  PROVE  /\ Consistent'
         /\ open \cup closed \subseteq open' \cup closed'
         /\ heap'[h] = [client |-> cfd, backend |-> bfd]
         /\ Live' = Live \cup {h}
         /\ \A g \in Live : g # h /\ heap'[g] = heap[g]
         /\ \A g \in Live : FdsOf(heap[g]) \cap FdsOf(heap'[h]) = {}
<1> DEFINE o == [client |-> cfd, backend |-> bfd]
<1>1. o \in Object /\ o # None
  BY WorkerAssumption DEF Object
<1>2. cfd \notin open /\ cfd # None
  BY WorkerAssumption DEF LowestFree
<1>3. bfd # cfd /\ bfd \notin open
  BY <1>2, WorkerAssumption DEF NewBackend, LowestFree, Consistent, TablesType
<1>4. heap'[h] = o /\ heap' = [heap EXCEPT ![h] = o]
  BY DEF AddSession, Consistent, TablesType
<1>5. /\ Live' = Live \cup {h}
      /\ \A g \in Live : g # h /\ g \in Handlers /\ heap'[g] = heap[g]
  BY <1>1, <1>4 DEF Live, Consistent, TablesType
<1>6. FdsOf(o) = {cfd, bfd} \ {None}
  BY DEF FdsOf
<1>7. TablesType'
  BY <1>1, <1>4 DEF TablesType, AddSession, Consistent
<1>8. \A g \in Live : FdsOf(heap[g]) \subseteq open
  BY DEF Consistent, NoFdLeak
<1>9. \A g \in Live : /\ heap[g] \in Object
                      /\ heap[g].client \in open
                      /\ heap[g].backend # None => heap[g].backend \in open
  BY <1>8, LiveObject, ObjectFds DEF Consistent
<1>10. TablesAgree'
  <2>1. c2b' = [c2b EXCEPT ![cfd] = h] /\ c2b'[cfd] = h
    BY DEF AddSession, Consistent, TablesType
  <2>2. \A f \in Fd : b2c'[f] = IF f = bfd THEN h ELSE b2c[f]
    BY DEF AddSession, Consistent, TablesType
  <2>3. ASSUME NEW f \in Fd, c2b'[f] # None
        PROVE  c2b'[f] \in Live' /\ heap'[c2b'[f]].client = f
    <3>1. CASE f = cfd
      BY <3>1, <2>1, <1>4, <1>5
    <3>2. CASE f # cfd
      <4>1. c2b'[f] = c2b[f]
        BY <3>2, <2>1 DEF Consistent, TablesType
      <4>2. c2b[f] \in Live /\ heap[c2b[f]].client = f
        BY <4>1, <2>3 DEF Consistent, TablesAgree
      <4> QED BY <4>1, <4>2, <1>5
    <3> QED BY <3>1, <3>2
  <2>4. ASSUME NEW g \in Live'
        PROVE  /\ c2b'[heap'[g].client] = g
               /\ heap'[g].backend # None => /\ b2c'[heap'[g].backend] = g
                                             /\ c2b'[heap'[g].backend] = None
    <3>1. CASE g = h
      <4>1. heap'[g].client = cfd /\ heap'[g].backend = bfd
        BY <3>1, <1>4
      <4>2. ASSUME bfd # None PROVE c2b'[bfd] = None
        <5>1. c2b'[bfd] = c2b[bfd] /\ bfd \in Fd
          BY <4>2, <2>1, <1>3 DEF Consistent, TablesType
        <5>2. ASSUME c2b[bfd] # None PROVE FALSE
          <6>1. c2b[bfd] \in Live /\ heap[c2b[bfd]].client = bfd
            BY <5>1, <5>2 DEF Consistent, TablesAgree
          <6> QED BY <6>1, <1>9, <1>3
        <5> QED BY <5>1, <5>2
      <4> QED BY <3>1, <4>1, <4>2, <2>1, <2>2
    <3>2. CASE g # h
      <4>1. g \in Live /\ heap'[g] = heap[g]
        BY <3>2, <1>5
      <4>2. /\ c2b[heap[g].client] = g
            /\ heap[g].backend # None => /\ b2c[heap[g].backend] = g
                                         /\ c2b[heap[g].backend] = None
        BY <4>1 DEF Consistent, TablesAgree
      <4>3. /\ heap[g].client \in Fd /\ heap[g].client # cfd
            /\ heap[g].backend # None => /\ heap[g].backend \in Fd
                                         /\ heap[g].backend \notin {cfd, bfd}
        BY <4>1, <1>9, <1>2, <1>3, ObjectFds
      <4>4. c2b'[heap[g].client] = g
        BY <2>1, <4>2, <4>3 DEF Consistent, TablesType
      <4>5. ASSUME heap[g].backend # None
            PROVE  b2c'[heap[g].backend] = g /\ c2b'[heap[g].backend] = None
        BY <2>1, <2>2, <4>2, <4>3, <4>5 DEF Consistent, TablesType
      <4> QED BY <4>1, <4>4, <4>5
    <3> QED BY <3>1, <3>2
  <2> QED BY <2>3, <2>4 DEF TablesAgree
<1>11. \A g \in Live : FdsOf(heap[g]) \cap FdsOf(o) = {}
  BY <1>2, <1>3, <1>6, <1>8
<1>12. NoFdLeak'
  <2>1. open' = open \cup FdsOf(o)
    BY <1>6 DEF AddSession
  <2>2. open = UNION {FdsOf(heap[g]) : g \in Live}
    BY DEF Consistent, NoFdLeak
  <2>3. open' = UNION {FdsOf(heap'[g]) : g \in Live'}
    <3>1. ASSUME NEW x \in open' PROVE \E g \in Live' : x \in FdsOf(heap'[g])
      BY <2>1, <2>2, <1>4, <1>5
    <3>2. ASSUME NEW g \in Live', NEW x \in FdsOf(heap'[g]) PROVE x \in open'
      BY <2>1, <2>2, <1>4, <1>5
    <3> QED BY <3>1, <3>2
  <2>4. \A g, k \in Live' : g # k => FdsOf(heap'[g]) \cap FdsOf(heap'[k]) = {}
    BY <1>4, <1>5, <1>11 DEF Consistent, NoFdLeak
  <2>5. \A g \in Live' : heap'[g].client # heap'[g].backend
    BY <1>3, <1>4, <1>5 DEF Consistent, NoFdLeak
  <2> QED BY <2>3, <2>4, <2>5 DEF NoFdLeak
<1>13. open \cup closed \subseteq open' \cup closed'
  BY DEF AddSession
<1> QED BY <1>4, <1>5, <1>7, <1>10, <1>11, <1>12, <1>13 DEF Consistent

\* What EventDangling does to the objects: nothing, or one is destroyed.
LEMMA DanglingOnObjects ==
  ASSUME Consistent, NEW f \in Fd, EventDangling(f)
  PROVE  /\ b2c[f] \notin Live
         /\ \/ UNCHANGED <<open, c2b, heap, closed>>
               /\ b2c' \in {b2c, [b2c EXCEPT ![f] = None]}
            \/ \E h \in Live :
                 /\ Destroy(h)
                 /\ c2b' = [c2b EXCEPT ![heap[h].client] = None]
                 /\ b2c' = [b2c EXCEPT ![f] = None]
<1>1. b2c[f] \notin Live
  <2>1. Route(f) \notin Live \cup {None}
    BY DEF EventDangling
  <2>2. c2b[f] # None => c2b[f] \in Live
    BY DEF Consistent, TablesAgree
  <2> QED BY <2>1, <2>2 DEF Route
<1>2. CASE UNCHANGED <<open, c2b, b2c, heap, closed>>
  BY <1>1, <1>2
<1>3. ASSUME NEW c \in Fd, EraseClient(c), b2c' = [b2c EXCEPT ![f] = None]
      PROVE  \/ UNCHANGED <<open, c2b, heap, closed>>
                /\ b2c' \in {b2c, [b2c EXCEPT ![f] = None]}
             \/ \E h \in Live :
                  /\ Destroy(h)
                  /\ c2b' = [c2b EXCEPT ![heap[h].client] = None]
                  /\ b2c' = [b2c EXCEPT ![f] = None]
  <2>2. CASE c2b[c] = None
    BY <1>3, <2>2 DEF EraseClient
  <2>3. CASE c2b[c] # None
    BY <1>3, <2>3, EraseDestroysOwner
  <2> QED BY <2>2, <2>3
<1> QED BY <1>1, <1>2, <1>3 DEF EventDangling

LEMMA DanglingKeeps ==
  ASSUME Consistent, NEW f \in Fd, EventDangling(f)
  PROVE  Consistent' /\ open \cup closed \subseteq open' \cup closed'
<1>1. b2c[f] \notin Live
  BY DanglingOnObjects
<1>2. CASE UNCHANGED <<open, c2b, b2c, heap, closed>>
  BY <1>2 DEF Consistent, TablesType, TablesAgree, NoFdLeak, Live
<1>3. CASE UNCHANGED <<open, c2b, heap, closed>> /\ b2c' = [b2c EXCEPT ![f] = None]
  BY <1>1, <1>3, DropPointerKeeps
<1>4. ASSUME NEW h \in Live, Destroy(h),
             c2b' = [c2b EXCEPT ![heap[h].client] = None],
             b2c' = [b2c EXCEPT ![f] = None]
      PROVE  Consistent' /\ open \cup closed \subseteq open' \cup closed'
  BY <1>1, <1>4, DestroyKeeps
<1> QED BY <1>2, <1>3, <1>4, DanglingOnObjects

-----------------------------------------------------------------------------
(* The inductive invariant.                                                *)

LEMMA InitIInv == Init => IInv
<1> SUFFICES ASSUME Init PROVE IInv
  OBVIOUS
<1>1. Live = {}
  BY DEF Init, Live
<1>2. TypeOK
  <2>1. 0 \in 0 .. MaxBacklog
    BY WorkerAssumption
  <2>2. TablesType
    BY DEF Init, TablesType
  <2> QED BY <2>1, <2>2 DEF Init, TypeOK, TablesType
<1>3. TablesAgree
  BY <1>1 DEF Init, TablesAgree
<1>4. NoFdLeak
  BY <1>1 DEF Init, NoFdLeak
<1> QED BY <1>2, <1>3, <1>4 DEF Init, IInv, PendingKnown, ExitedEmpty, StartedEmpty

\* The steps that leave the tables, the objects and the descriptors alone.
LEMMA TablesUnchanged ==
  ASSUME IInv, UNCHANGED <<open, c2b, b2c, heap>>
  PROVE  TablesAgree' /\ NoFdLeak'
BY DEF IInv, TablesAgree, NoFdLeak, Live

LEMMA TakeFacts ==
  ASSUME IInv, NEW f \in Fd \cup {LFD}, Take(f)
  PROVE  /\ pending' \subseteq pending
         /\ pending' \subseteq Fd \cup {LFD}
         /\ pc = "dispatch"
BY DEF IInv, TypeOK, Take

\* The end of the process leaves nothing behind.
LEMMA DiesKeeps ==
  ASSUME IInv, Dies, backlog' \in 0 .. MaxBacklog
  PROVE  IInv' /\ Live' = {}
<1>1. Live' = {}
  BY DEF Dies, Live
<1>2. TablesAgree' /\ NoFdLeak'
  BY <1>1 DEF Dies, TablesAgree, NoFdLeak
<1>3. TypeOK'
  BY DEF Dies, IInv, TypeOK
<1>4. PendingKnown' /\ ExitedEmpty' /\ StartedEmpty'
  BY DEF Dies, PendingKnown, ExitedEmpty, StartedEmpty
<1> QED BY <1>1, <1>2, <1>3, <1>4 DEF IInv

LEMMA NextIInv == IInv /\ [Next]_vars => IInv'
<1> SUFFICES ASSUME IInv, [Next]_vars PROVE IInv'
  OBVIOUS
<1> USE DEF PendingKnown, ExitedEmpty, StartedEmpty
<1>0. Consistent /\ PendingKnown /\ StartedEmpty
  BY DEF IInv, Consistent, TablesType, TypeOK
<1>1. CASE Loop
  <2>1. UNCHANGED <<needExit, pending, open, c2b, b2c, heap, backlog, closed>>
    BY <1>1 DEF Loop, Startup, LoopContinues, LoopEnds, EnterWait, BatchDone
  <2>2. ExitedEmpty' /\ StartedEmpty'
    BY <1>1, <2>1 DEF IInv, Loop, Startup, LoopContinues, LoopEnds, EnterWait, BatchDone
  <2>3. TypeOK'
    BY <1>1, <2>1 DEF IInv, TypeOK, Loop, Startup, LoopContinues, LoopEnds, EnterWait, BatchDone
  <2> QED BY <1>0, <2>1, <2>2, <2>3, TablesUnchanged DEF IInv
<1>2. CASE WaitReturns
  <2>1. pending' \subseteq open \cup {LFD}
    BY <1>2 DEF WaitReturns
  <2>2. TypeOK'
    BY <1>2, <2>1 DEF WaitReturns, IInv, TypeOK
  <2>3. PendingKnown' /\ ExitedEmpty' /\ StartedEmpty'
    BY <1>2, <2>1 DEF WaitReturns, LFD, Fd
  <2> QED BY <1>2, <2>2, <2>3, TablesUnchanged DEF WaitReturns, IInv
<1>3. CASE AcceptEvent
  <2>1. CASE Accept
    <3>1. PICK cfd \in Fd, bfd \in Fd \cup {None}, h \in Handlers :
            /\ LowestFree(cfd, open)
            /\ NewBackend(cfd, bfd)
            /\ heap[h] = None
            /\ AddSession(h, cfd, bfd)
      BY <2>1 DEF Accept
    <3>2. Consistent' /\ open \cup closed \subseteq open' \cup closed'
      BY <1>0, <2>1, <3>1, AddSessionKeeps DEF Accept
    <3>3. /\ pending' \subseteq pending
          /\ pending' \subseteq Fd \cup {LFD}
          /\ pc = "dispatch"
      BY <2>1, TakeFacts DEF Accept
    <3>4. backlog' \in 0 .. MaxBacklog
      BY <2>1, WorkerAssumption DEF Accept, IInv, TypeOK
    <3>5. TypeOK'
      BY <2>1, <3>2, <3>3, <3>4 DEF Accept, Consistent, TablesType, IInv, TypeOK
    <3>6. PendingKnown' /\ ExitedEmpty' /\ StartedEmpty'
      BY <1>0, <2>1, <3>2, <3>3 DEF Accept
    <3> QED BY <3>2, <3>5, <3>6 DEF IInv, Consistent
  <2>2. CASE AcceptHandshakeFails \/ AcceptFindsNobody \/ AcceptAtLimit
    <3>1. UNCHANGED <<pc, needExit, open, c2b, b2c, heap, closed>>
      BY <2>2 DEF AcceptHandshakeFails, AcceptFindsNobody, AcceptAtLimit
    <3>2. Take(LFD)
      BY <2>2 DEF AcceptHandshakeFails, AcceptFindsNobody, AcceptAtLimit
    <3>3. /\ pending' \subseteq pending
          /\ pending' \subseteq Fd \cup {LFD}
          /\ pc = "dispatch"
      BY <3>2, TakeFacts
    <3>4. /\ backlog' \in 0 .. MaxBacklog
          /\ armed' \in BOOLEAN
      <4>1. backlog' \in {backlog, backlog - 1} /\ (backlog' # backlog => backlog > 0)
        BY <2>2 DEF AcceptHandshakeFails, AcceptFindsNobody, AcceptAtLimit
      <4>2. armed' \in {armed, FALSE}
        BY <2>2 DEF AcceptHandshakeFails, AcceptFindsNobody, AcceptAtLimit
      <4>3. backlog' \in 0 .. MaxBacklog
        BY <4>1, WorkerAssumption DEF IInv, TypeOK
      <4>4. armed' \in BOOLEAN
        BY <4>2 DEF IInv, TypeOK
      <4> QED BY <4>3, <4>4
    <3>5. TypeOK'
      BY <3>1, <3>3, <3>4 DEF IInv, TypeOK
    <3>6. PendingKnown' /\ ExitedEmpty' /\ StartedEmpty'
      BY <1>0, <3>1, <3>3
    <3> QED BY <3>1, <3>5, <3>6, TablesUnchanged DEF IInv
  <2>3. CASE AcceptKills
    <3>1. backlog' \in 0 .. MaxBacklog
      BY <2>3, WorkerAssumption DEF AcceptKills, IInv, TypeOK
    <3> QED BY <2>3, <3>1, DiesKeeps DEF AcceptKills
  <2>4. CASE AcceptSticks
    <3>1. PICK cfd \in Fd, h \in Handlers :
            /\ LowestFree(cfd, open)
            /\ heap[h] = None
            /\ AddSession(h, cfd, None)
      BY <2>4 DEF AcceptSticks
    <3>2. Consistent'
      BY <1>0, <2>4, <3>1, AddSessionKeeps DEF AcceptSticks, NewBackend
    <3>3. backlog' \in 0 .. MaxBacklog
      BY <2>4, WorkerAssumption DEF AcceptSticks, IInv, TypeOK
    <3>4. TypeOK'
      BY <2>4, <3>2, <3>3 DEF AcceptSticks, Sticks, Consistent, TablesType, IInv, TypeOK
    <3>5. PendingKnown' /\ ExitedEmpty' /\ StartedEmpty'
      BY <2>4 DEF AcceptSticks, Sticks
    <3> QED BY <3>2, <3>4, <3>5 DEF IInv, Consistent
  <2> QED BY <1>3, <2>1, <2>2, <2>3, <2>4 DEF AcceptEvent
<1>4. ASSUME NEW f \in Fd, ConnEvent(f) PROVE IInv'
  <2>1. CASE EventKept(f) \/ EventUnrouted(f)
    <3>1. UNCHANGED <<pc, needExit, open, c2b, b2c, heap, armed, backlog, closed>>
      BY <2>1 DEF EventKept, EventUnrouted
    <3>2. /\ pending' \subseteq pending
          /\ pending' \subseteq Fd \cup {LFD}
          /\ pc = "dispatch"
      BY <2>1, TakeFacts DEF EventKept, EventUnrouted
    <3>3. TypeOK'
      BY <3>1, <3>2 DEF IInv, TypeOK
    <3> QED BY <1>0, <3>1, <3>2, <3>3, TablesUnchanged DEF IInv
  <2>2. CASE EventDisconnects(f)
    <3>1. Consistent' /\ open \cup closed \subseteq open' \cup closed'
      BY <1>0, <2>2, DisconnectKeeps DEF EventDisconnects
    <3>2. /\ pending' \subseteq pending
          /\ pending' \subseteq Fd \cup {LFD}
          /\ pc = "dispatch"
      BY <2>2, TakeFacts DEF EventDisconnects
    <3>3. TypeOK'
      BY <2>2, <3>1, <3>2 DEF EventDisconnects, Consistent, TablesType, IInv, TypeOK
    <3>4. PendingKnown' /\ ExitedEmpty' /\ StartedEmpty'
      BY <1>0, <2>2, <3>1, <3>2 DEF EventDisconnects
    <3> QED BY <3>1, <3>3, <3>4 DEF IInv, Consistent
  <2>3. CASE EventKills(f)
    BY <2>3, DiesKeeps DEF EventKills, IInv, TypeOK
  <2>4. CASE EventDangling(f)
    <3>1. Consistent' /\ open \cup closed \subseteq open' \cup closed'
      BY <1>0, <2>4, DanglingKeeps
    <3>2. /\ pending' \subseteq pending
          /\ pending' \subseteq Fd \cup {LFD}
          /\ pc = "dispatch"
      BY <2>4, TakeFacts DEF EventDangling
    <3>3. TypeOK'
      BY <2>4, <3>1, <3>2 DEF EventDangling, Consistent, TablesType, IInv, TypeOK
    <3>4. PendingKnown' /\ ExitedEmpty' /\ StartedEmpty'
      BY <1>0, <2>4, <3>1, <3>2 DEF EventDangling
    <3> QED BY <3>1, <3>3, <3>4 DEF IInv, Consistent
  <2>5. CASE EventSticks(f)
    <3>1. TypeOK'
      BY <2>5 DEF EventSticks, Sticks, IInv, TypeOK
    <3>2. PendingKnown' /\ ExitedEmpty' /\ StartedEmpty'
      BY <2>5 DEF EventSticks, Sticks
    <3> QED BY <2>5, <3>1, <3>2, TablesUnchanged DEF EventSticks, IInv
  <2> QED BY <1>4, <2>1, <2>2, <2>3, <2>4, <2>5 DEF ConnEvent
<1>5. CASE Sighup \/ ClientArrives \/ ClientGivesUp \/ UNCHANGED vars
  <2>1. UNCHANGED <<pending, open, c2b, b2c, heap, armed, closed>>
    BY <1>5 DEF Sighup, ClientArrives, ClientGivesUp, vars
  <2>2. backlog' \in 0 .. MaxBacklog
    BY <1>5, WorkerAssumption DEF Sighup, ClientArrives, ClientGivesUp, vars, IInv, TypeOK
  <2>3. /\ pc' \in {pc, "check"}
        /\ needExit' \in BOOLEAN
        /\ needExit => needExit'
    BY <1>5 DEF Sighup, ClientArrives, ClientGivesUp, vars, IInv, TypeOK
  <2>4. TypeOK'
    BY <2>1, <2>2, <2>3 DEF IInv, TypeOK
  <2>5. PendingKnown' /\ ExitedEmpty' /\ StartedEmpty'
    BY <1>0, <2>1, <2>3 DEF IInv
  <2> QED BY <2>1, <2>4, <2>5, TablesUnchanged DEF IInv
<1> QED BY <1>1, <1>2, <1>3, <1>4, <1>5 DEF Next

\* The conjunction of the parts below holds in every reachable state: no
\* order of events, no reuse of descriptors or addresses breaks it.
THEOREM InductiveInvariant == Spec => []IInv
BY InitIInv, NextIInv, PTL DEF Spec

\* The variables keep their types.
THEOREM TypeCorrect == Spec => []TypeOK
<1>1. IInv => TypeOK
  BY DEF IInv
<1> QED BY <1>1, InductiveInvariant, PTL

\* client_to_backend, backend_to_client and the live ProxyHandlers agree,
\* although disconnect leaves stale pointers in backend_to_client.
THEOREM TablesAlwaysAgree == Spec => []TablesAgree
<1>1. IInv => TablesAgree
  BY DEF IInv
<1> QED BY <1>1, InductiveInvariant, PTL

\* The open descriptors are exactly those of the live ProxyHandlers, each
\* held once.
THEOREM NoFdEverLeaks == Spec => []NoFdLeak
<1>1. IInv => NoFdLeak
  BY DEF IInv
<1> QED BY <1>1, InductiveInvariant, PTL

\* An open descriptor is routed to the object that holds it.
LEMMA FreshReachesOwner ==
  ASSUME IInv, NEW f \in (pending \cap Fd) \ closed
  PROVE  Route(f) \in Live /\ f \in FdsOf(heap[Route(f)])
<1>1. f \in open
  BY DEF IInv, PendingKnown
<1>2. PICK h \in Live : f \in FdsOf(heap[h])
  BY <1>1 DEF IInv, NoFdLeak
<1>3. heap[h] \in Object
  BY DEF IInv, TypeOK, Live
<1>4. CASE f = heap[h].client
  <2>1. c2b[f] = h /\ h # None
    BY <1>4, WorkerAssumption DEF IInv, TablesAgree, Live
  <2> QED BY <1>2, <2>1 DEF Route
<1>5. CASE f = heap[h].backend /\ heap[h].backend # None
  <2>1. b2c[f] = h /\ c2b[f] = None
    BY <1>5 DEF IInv, TablesAgree
  <2> QED BY <1>2, <2>1 DEF Route
<1> QED BY <1>2, <1>3, <1>4, <1>5, ObjectFds

\* An event on a descriptor that was not closed in its own batch reaches the
\* ProxyHandler that holds the descriptor.
THEOREM FreshEventsAlwaysReachOwner == Spec => []FreshEventsReachOwner
<1>1. IInv => FreshEventsReachOwner
  BY FreshReachesOwner DEF FreshEventsReachOwner
<1> QED BY <1>1, InductiveInvariant, PTL

\* Without an entry in client_to_backend there is no object.
LEMMA NoEntryNoObject ==
  ASSUME IInv, \A f \in Fd : c2b[f] = None
  PROVE  Live = {}
<1>1. ASSUME NEW h \in Live PROVE FALSE
  <2>1. heap[h] \in Object /\ h \in Handlers
    BY <1>1 DEF IInv, TypeOK, Live
  <2>2. c2b[heap[h].client] = h
    BY <1>1 DEF IInv, TablesAgree
  <2> QED BY <2>1, <2>2, ObjectFds, WorkerAssumption
<1> QED BY <1>1

\* A worker that leaves worker_loop has no connection open.
THEOREM ExitAlwaysClean == Spec => []ExitIsClean
<1>1. ASSUME IInv, pc = "exited" PROVE needExit /\ open = {} /\ Live = {}
  <2>1. needExit /\ Live = {}
    BY <1>1, NoEntryNoObject DEF IInv, ExitedEmpty
  <2> QED BY <1>1, <2>1 DEF IInv, NoFdLeak
<1>2. IInv => ExitIsClean
  BY <1>1 DEF ExitIsClean
<1> QED BY <1>2, InductiveInvariant, PTL

-----------------------------------------------------------------------------
(* What a step may do to the objects.                                      *)

\* Every step leaves the objects alone, and ends the process only if there
\* are none; or makes one with fresh descriptors; or destroys the one an event
\* is routed to, or one for an event on a descriptor closed earlier in its
\* batch; or kills the process.
LEMMA StepOnObjects ==
  ASSUME IInv, [Next]_vars
  PROVE  \/ /\ UNCHANGED heap
            /\ \/ UNCHANGED Process
               \/ Process = "up" /\ Process' = "exited" /\ Live = {}
         \/ /\ Process = "up" /\ Process' = "up"
            /\ \E h \in Handlers, cfd \in Fd, bfd \in Fd \cup {None} :
                 /\ Live' = Live \cup {h}
                 /\ h \notin Live
                 /\ heap'[h] = [client |-> cfd, backend |-> bfd]
                 /\ cfd # bfd
                 /\ \A g \in Live : g # h /\ heap'[g] = heap[g]
                 /\ \A g \in Live : FdsOf(heap[g]) \cap FdsOf(heap'[h]) = {}
         \/ /\ Process = "up" /\ Process' = "up"
            /\ \E f \in pending \cap Fd, h \in Live :
                 /\ f \notin pending'
                 /\ h = Route(f) \/ f \in closed
                 /\ heap' = [heap EXCEPT ![h] = None]
         \/ Process = "up" /\ Process' = "killed" /\ Live' = {}
<1>0. Consistent
  BY DEF IInv, Consistent, TablesType, TypeOK
<1>1. ASSUME Accept
      PROVE  /\ Process = "up" /\ Process' = "up"
             /\ \E h \in Handlers, cfd \in Fd, bfd \in Fd \cup {None} :
                  /\ Live' = Live \cup {h}
                  /\ h \notin Live
                  /\ heap'[h] = [client |-> cfd, backend |-> bfd]
                  /\ cfd # bfd
                  /\ \A g \in Live : g # h /\ heap'[g] = heap[g]
                  /\ \A g \in Live : FdsOf(heap[g]) \cap FdsOf(heap'[h]) = {}
  <2>1. PICK cfd \in Fd, bfd \in Fd \cup {None}, h \in Handlers :
          /\ LowestFree(cfd, open)
          /\ NewBackend(cfd, bfd)
          /\ heap[h] = None
          /\ AddSession(h, cfd, bfd)
    BY <1>1 DEF Accept
  <2>2. /\ heap'[h] = [client |-> cfd, backend |-> bfd]
        /\ Live' = Live \cup {h}
        /\ \A g \in Live : g # h /\ heap'[g] = heap[g]
        /\ \A g \in Live : FdsOf(heap[g]) \cap FdsOf(heap'[h]) = {}
    BY <1>0, <1>1, <2>1, AddSessionKeeps DEF Accept
  <2>3. h \notin Live
    BY <2>1 DEF Live
  <2>4. cfd # bfd
    BY <2>1, WorkerAssumption DEF NewBackend, LowestFree
  <2>5. Process = "up" /\ Process' = "up"
    BY <1>1 DEF Accept, Take, Process, Running
  <2> QED BY <2>2, <2>3, <2>4, <2>5
<1>2. ASSUME AcceptSticks
      PROVE  /\ Process = "up" /\ Process' = "up"
             /\ \E h \in Handlers, cfd \in Fd, bfd \in Fd \cup {None} :
                  /\ Live' = Live \cup {h}
                  /\ h \notin Live
                  /\ heap'[h] = [client |-> cfd, backend |-> bfd]
                  /\ cfd # bfd
                  /\ \A g \in Live : g # h /\ heap'[g] = heap[g]
                  /\ \A g \in Live : FdsOf(heap[g]) \cap FdsOf(heap'[h]) = {}
  <2>1. PICK cfd \in Fd, h \in Handlers :
          /\ LowestFree(cfd, open)
          /\ heap[h] = None
          /\ AddSession(h, cfd, None)
    BY <1>2 DEF AcceptSticks
  <2>2. /\ heap'[h] = [client |-> cfd, backend |-> None]
        /\ Live' = Live \cup {h}
        /\ \A g \in Live : g # h /\ heap'[g] = heap[g]
        /\ \A g \in Live : FdsOf(heap[g]) \cap FdsOf(heap'[h]) = {}
    <3>1. NewBackend(cfd, None) /\ UNCHANGED closed
      BY <1>2 DEF AcceptSticks, NewBackend
    <3> QED BY <1>0, <2>1, <3>1, AddSessionKeeps
  <2>3. h \notin Live
    BY <2>1 DEF Live
  <2>4. cfd # None
    BY <2>1, WorkerAssumption
  <2>5. Process = "up" /\ Process' = "up"
    BY <1>2 DEF AcceptSticks, Sticks, Process, Running
  <2> QED BY <2>2, <2>3, <2>4, <2>5
<1>3. ASSUME NEW f \in Fd, EventDisconnects(f)
      PROVE  /\ Process = "up" /\ Process' = "up"
             /\ \E g \in pending \cap Fd, h \in Live :
                  /\ g \notin pending'
                  /\ h = Route(g)
                  /\ heap' = [heap EXCEPT ![h] = None]
  <2>1. /\ f \in pending \cap Fd
        /\ f \notin pending'
        /\ Route(f) \in Live
        /\ Disconnect(f)
    BY <1>3 DEF EventDisconnects, Take
  <2>2. heap' = [heap EXCEPT ![Route(f)] = None]
    BY <1>0, <2>1, DisconnectDestroysOne DEF Destroy
  <2>3. Process = "up" /\ Process' = "up"
    BY <1>3 DEF EventDisconnects, Take, Process, Running
  <2> QED BY <2>1, <2>2, <2>3
<1>4. ASSUME AcceptKills
      PROVE  Process = "up" /\ Process' = "killed" /\ Live' = {}
  BY <1>4 DEF AcceptKills, Dies, Live, Process, Running
<1>5. ASSUME NEW f \in Fd, EventKills(f)
      PROVE  Process = "up" /\ Process' = "killed" /\ Live' = {}
  BY <1>5 DEF EventKills, Dies, Live, Process, Running
<1>6. ASSUME NEW f \in Fd, EventKept(f) \/ EventUnrouted(f) \/ EventSticks(f)
      PROVE  UNCHANGED heap /\ UNCHANGED Process
  BY <1>6 DEF EventKept, EventUnrouted, EventSticks, Sticks, Process, Running
<1>7. ASSUME NEW f \in Fd, EventDangling(f)
      PROVE  /\ Process = "up" /\ Process' = "up"
             /\ \/ UNCHANGED heap
                \/ \E g \in pending \cap Fd, h \in Live :
                     /\ g \notin pending'
                     /\ g \in closed
                     /\ heap' = [heap EXCEPT ![h] = None]
  <2>1. f \in pending \cap Fd /\ f \notin pending'
    BY <1>7 DEF EventDangling, Take
  <2>2. f \in closed
    BY <1>7, <2>1, FreshReachesOwner DEF EventDangling
  <2>3. Process = "up" /\ Process' = "up"
    BY <1>7 DEF EventDangling, Take, Process, Running
  <2> QED BY <1>0, <1>7, <2>1, <2>2, <2>3, DanglingOnObjects DEF Destroy
<1>8. ASSUME Startup \/ LoopEnds
      PROVE  /\ UNCHANGED heap
             /\ \/ UNCHANGED Process
                \/ Process = "up" /\ Process' = "exited" /\ Live = {}
  <2>1. Live = {}
    BY <1>8, NoEntryNoObject DEF Startup, LoopEnds, IInv, StartedEmpty
  <2> QED BY <1>8, <2>1 DEF Startup, LoopEnds, Process, Running
<1>9. ASSUME \/ LoopContinues \/ EnterWait \/ BatchDone \/ WaitReturns
             \/ AcceptHandshakeFails \/ AcceptFindsNobody \/ AcceptAtLimit
             \/ Sighup \/ ClientArrives \/ ClientGivesUp \/ UNCHANGED vars
      PROVE  UNCHANGED heap /\ UNCHANGED Process
  BY <1>9 DEF LoopContinues, EnterWait, BatchDone, WaitReturns,
              AcceptHandshakeFails, AcceptFindsNobody, AcceptAtLimit,
              Sighup, ClientArrives, ClientGivesUp, vars, Process, Running
<1> QED
  BY <1>1, <1>2, <1>3, <1>4, <1>5, <1>6, <1>7, <1>8, <1>9
     DEF Next, Loop, AcceptEvent, ConnEvent

\* A live ProxyHandler is destroyed only for an event on one of its own
\* sockets, or for one on a descriptor closed earlier in the same batch.
THEOREM TeardownOnlyByOwnEvent == Spec => TeardownByOwnEvent
<1> DEFINE Teardown ==
      \A h \in Live :
        heap'[h] = None /\ pc' # "killed" =>
          \E f \in pending \ pending' : f \in FdsOf(heap[h]) \cup closed
<1>2. ASSUME IInv, [Next]_vars, NEW h \in Live, heap'[h] = None, pc' # "killed"
      PROVE  \E f \in pending \ pending' : f \in FdsOf(heap[h]) \cup closed
  <2>0. Process' # "killed"
    BY <1>2 DEF Process, Running
  <2>1. heap[h] # None /\ h \in Handlers /\ heap \in [Handlers -> Object \cup {None}]
    BY <1>2 DEF Live, IInv, TypeOK
  <2>2. PICK f \in pending \cap Fd, g \in Live :
          /\ f \notin pending'
          /\ g = Route(f) \/ f \in closed
          /\ heap' = [heap EXCEPT ![g] = None]
    BY <1>2, <2>0, <2>1, StepOnObjects
  <2>3. h = g
    BY <1>2, <2>1, <2>2
  <2>4. CASE f \in closed
    BY <2>2, <2>4
  <2>5. CASE f \notin closed
    BY <1>2, <2>2, <2>3, <2>5, FreshReachesOwner
  <2> QED BY <2>4, <2>5
<1>3. IInv /\ [Next]_vars => [Teardown]_vars
  BY <1>2
<1> QED BY <1>3, InductiveInvariant, PTL DEF Spec, TeardownByOwnEvent

-----------------------------------------------------------------------------
(* Refinement.                                                             *)

LEMMA InitImplements == Init => S!Init
BY DEF Init, S!Init, Live, Process, Running

LEMMA StepImplements ==
  IInv /\ [Next]_vars => [S!Next]_(S!vars)
<1> SUFFICES ASSUME IInv, [Next]_vars
             PROVE  S!Next \/ UNCHANGED S!vars
  OBVIOUS
<1>0. \A h \in Live : heap[h] \in Object /\ h \in Handlers
  BY DEF IInv, TypeOK, Live
<1>1. ASSUME UNCHANGED heap, UNCHANGED Process PROVE UNCHANGED S!vars
  BY <1>1 DEF Live, S!vars
<1>2. ASSUME UNCHANGED heap, Process = "up", Process' = "exited", Live = {}
      PROVE  S!Next
  BY <1>2 DEF Live, S!Next, S!Exit
<1>3. ASSUME Process = "up", Process' = "up",
             NEW h \in Handlers, NEW cfd \in Fd, NEW bfd \in Fd \cup {None},
             Live' = Live \cup {h},
             h \notin Live,
             heap'[h] = [client |-> cfd, backend |-> bfd],
             cfd # bfd,
             \A g \in Live : g # h /\ heap'[g] = heap[g],
             \A g \in Live : FdsOf(heap[g]) \cap FdsOf(heap'[h]) = {}
      PROVE  S!Next
  <2> DEFINE o == [client |-> cfd, backend |-> bfd]
  <2>1. o \in S!Session
    BY DEF S!Session
  <2>2. \A t \in {heap[g] : g \in Live} : S!FdsOf(o) \cap S!FdsOf(t) = {}
    BY <1>3 DEF S!FdsOf, FdsOf
  <2>3. {heap'[g] : g \in Live'} = {heap[g] : g \in Live} \cup {o}
    BY <1>3
  <2>4. S!Open(o)
    BY <1>3, <2>2, <2>3 DEF S!Open
  <2> QED BY <2>1, <2>4 DEF S!Next
<1>4. ASSUME Process = "up", Process' = "up",
             NEW h \in Live, heap' = [heap EXCEPT ![h] = None]
      PROVE  S!Next
  <2>1. h \in Live /\ heap[h] \in S!Session
    BY <1>0, <1>4 DEF Object, S!Session
  <2>2. Live' = Live \ {h} /\ \A g \in Live' : heap'[g] = heap[g]
    BY <1>4, <2>1 DEF Live, IInv, TypeOK
  <2>3. \A g \in Live : g # h => heap[g] # heap[h]
    BY <2>1 DEF IInv, TablesAgree
  <2>4. {heap'[g] : g \in Live'} = {heap[g] : g \in Live} \ {heap[h]}
    BY <2>1, <2>2, <2>3
  <2>5. PICK s \in S!Session : s = heap[h]
    BY <2>1
  <2>6. S!Close(s)
    BY <1>4, <2>1, <2>4, <2>5 DEF S!Close
  <2> QED BY <2>6 DEF S!Next
<1>5. ASSUME Process = "up", Process' = "killed", Live' = {} PROVE S!Next
  BY <1>5 DEF S!Next, S!Kill
<1> QED BY <1>1, <1>2, <1>3, <1>4, <1>5, StepOnObjects

\* Worker implements Sessions, whose sessions are the live ProxyHandlers.
THEOREM WorkerImplementsSessions == Spec => ImplementsSessions
BY InitImplements, StepImplements, InductiveInvariant, PTL
   DEF Spec, ImplementsSessions, S!Spec
=============================================================================
