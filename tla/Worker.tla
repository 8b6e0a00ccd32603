------------------------------- MODULE Worker -------------------------------
(***************************************************************************)
(* One worker process: the event loop of src/src/worker.cpp, its two       *)
(* connection tables, and the life of descriptors and ProxyHandler objects.*)
(*                                                                         *)
(* What a handler does with the bytes of its sockets is left out: a        *)
(* handler's answer to an event is "keep" or "disconnect", or the process  *)
(* dies in it (::write to a reset peer raises SIGPIPE, which nothing       *)
(* ignores; std::stoul throws and nothing catches), or never comes back    *)
(* from it (the parser's loop spins, ::connect blocks without a timeout).  *)
(*                                                                         *)
(* A ProxyHandler* is a heap address.  Addresses are reused, so a pointer  *)
(* left behind in backend_to_client may name a freed object or a newer one.*)
(***************************************************************************)
EXTENDS Naturals, FiniteSets

CONSTANTS
  NumFd,        \* descriptors left for connections below RLIMIT_NOFILE
  Handlers,     \* heap addresses a ProxyHandler can be given
  BackendType,  \* ListenerConfig::backend_type
  IsSsl,        \* ListenerConfig::is_ssl
  MaxEvents,    \* MAX_EVENTS, the size of the epoll_wait batch
  MaxBacklog,   \* bound: clients waiting in the listen queue at one time
  None          \* no pointer, no descriptor, no object

Fd  == 1 .. NumFd
LFD == 0        \* listen_fd

\* A ProxyHandler: its client's descriptor, and its backend's if it has one.
Object  == [client : Fd, backend : Fd \cup {None}]
FdsOf(o) == {o.client, o.backend} \ {None}

ASSUME WorkerAssumption ==
  /\ NumFd \in Nat \ {0}
  /\ MaxEvents \in Nat \ {0}
  /\ MaxBacklog \in Nat
  /\ BackendType \in {"LOAD_BALANCER", "STATIC"}
  /\ IsSsl \in BOOLEAN
  /\ None \notin Handlers
  /\ None \notin Fd
  /\ None \notin Object

VARIABLES
  pc,        \* where the worker's only thread is
  needExit,  \* needExit, set by reload_signal_handler
  pending,   \* events of the current batch that are still to be handled
  open,      \* connection descriptors open in the process
  c2b,       \* client_to_backend: the handler a client descriptor owns
  b2c,       \* backend_to_client: the raw pointer kept for a backend
  heap,      \* the ProxyHandler at an address, None when freed
  armed,     \* epoll still watches listen_fd for EPOLLIN
  backlog,   \* clients waiting in the listen queue
  closed     \* history: descriptors closed since epoll_wait last returned

vars == <<pc, needExit, pending, open, c2b, b2c, heap, armed, backlog, closed>>

\* "stuck": in a call that does not return.
Running == pc \notin {"exited", "aborted", "killed"}
Live    == {h \in Handlers : heap[h] # None}

TypeOK ==
  /\ pc \in {"start", "check", "enter", "wait", "dispatch",
             "stuck", "exited", "aborted", "killed"}
  /\ needExit \in BOOLEAN
  /\ pending \subseteq Fd \cup {LFD}
  /\ open \subseteq Fd
  /\ c2b \in [Fd -> Handlers \cup {None}]
  /\ b2c \in [Fd -> Handlers \cup {None}]
  /\ heap \in [Handlers -> Object \cup {None}]
  /\ armed \in BOOLEAN
  /\ backlog \in 0 .. MaxBacklog
  /\ closed \subseteq Fd

Init ==
  /\ pc = "start"
  /\ needExit = FALSE
  /\ pending = {}
  /\ open = {}
  /\ c2b = [f \in Fd |-> None]
  /\ b2c = [f \in Fd |-> None]
  /\ heap = [h \in Handlers |-> None]
  /\ armed = FALSE
  /\ backlog = 0
  /\ closed = {}

-----------------------------------------------------------------------------
(* Pieces of the C++ objects.                                              *)

\* POSIX hands out the lowest descriptor that is not open.
LowestFree(f, used) ==
  /\ f \in Fd \ used
  /\ \A g \in Fd : g < f => g \in used

\* Mutant: the backend's connection does not close its socket.
DestroyLeaksBackend(h) ==
  /\ heap' = [heap EXCEPT ![h] = None]
  /\ open' = open \ {heap[h].client}
  /\ closed' = closed \cup FdsOf(heap[h])

\* The ProxyHandler at h is destroyed; both connections close their socket.
Destroy(h) ==
  /\ heap' = [heap EXCEPT ![h] = None]
  /\ open' = open \ FdsOf(heap[h])
  /\ closed' = closed \cup FdsOf(heap[h])

\* Mutant: backend_to_client is looked up first.
RouteBackendFirst(f) == IF b2c[f] # None THEN b2c[f] ELSE c2b[f]

\* Worker::process_read_event and process_write_event pick the handler alike.
Route(f) == IF c2b[f] # None THEN c2b[f] ELSE b2c[f]

\* client_to_backend.erase(c)
EraseClient(c) ==
  IF c2b[c] = None
    THEN UNCHANGED <<open, c2b, heap, closed>>
    ELSE /\ Destroy(c2b[c])
         /\ c2b' = [c2b EXCEPT ![c] = None]

\* Mutant: backend_to_client is looked up first.
DisconnectBackendFirst(f) ==
  IF b2c[f] \notin Live
    THEN /\ Destroy(c2b[f])
         /\ c2b' = [c2b EXCEPT ![f] = None]
         /\ UNCHANGED b2c
    ELSE LET client == heap[b2c[f]].client
         IN  /\ Destroy(c2b[client])
             /\ b2c' = [b2c EXCEPT ![f] = None]
             /\ c2b' = [c2b EXCEPT ![client] = None]

\* Mutant: client_to_backend is cleared instead of losing one entry.
DisconnectClears(f) ==
  /\ heap' = [h \in Handlers |-> None]
  /\ open' = {}
  /\ closed' = closed \cup open
  /\ c2b' = [g \in Fd |-> None]
  /\ UNCHANGED b2c

\* Worker::disconnect for a descriptor whose Route is a live object.  The
\* client's branch leaves backend_to_client alone.
Disconnect(f) ==
  IF c2b[f] # None
    THEN EraseClient(f) /\ UNCHANGED b2c
    ELSE /\ EraseClient(heap[b2c[f]].client)
         /\ b2c' = [b2c EXCEPT ![f] = None]

-----------------------------------------------------------------------------
(* Worker::worker_loop and Worker::process_events.                         *)

Startup ==
  /\ pc = "start"
  /\ \/ pc' = "check" /\ armed' = TRUE
     \/ pc' = "aborted" /\ UNCHANGED armed
  /\ UNCHANGED <<needExit, pending, open, c2b, b2c, heap, backlog, closed>>

LoopContinues ==
  /\ pc = "check"
  /\ ~needExit \/ \E f \in Fd : c2b[f] # None
  /\ pc' = "enter"
  /\ UNCHANGED <<needExit, pending, open, c2b, b2c, heap, armed, backlog, closed>>

\* Mutant: the loop ends on needExit alone.
LoopEndsAtOnce ==
  /\ pc = "check"
  /\ needExit
  /\ pc' = "exited"
  /\ UNCHANGED <<needExit, pending, open, c2b, b2c, heap, armed, backlog, closed>>

\* Mutant: the loop waits for backend_to_client to empty.
LoopEndsOnBackends ==
  /\ pc = "check"
  /\ needExit
  /\ \A f \in Fd : b2c[f] = None
  /\ pc' = "exited"
  /\ UNCHANGED <<needExit, pending, open, c2b, b2c, heap, armed, backlog, closed>>

LoopEnds ==
  /\ pc = "check"
  /\ needExit
  /\ \A f \in Fd : c2b[f] = None
  /\ pc' = "exited"
  /\ UNCHANGED <<needExit, pending, open, c2b, b2c, heap, armed, backlog, closed>>

\* epoll_wait blocks: from here a signal wakes it, before this it does not.
EnterWait ==
  /\ pc = "enter"
  /\ pc' = "wait"
  /\ UNCHANGED <<needExit, pending, open, c2b, b2c, heap, armed, backlog, closed>>

\* Mutant: a draining worker takes listen_fd out of the epoll set.
WaitReturnsWithoutListener ==
  /\ pc = "wait"
  /\ pending' \in SUBSET (open \cup {f \in {LFD} : armed /\ backlog > 0 /\ ~needExit})
                  \ {{}}
  /\ Cardinality(pending') <= MaxEvents
  /\ pc' = "dispatch"
  /\ closed' = {}
  /\ UNCHANGED <<needExit, open, c2b, b2c, heap, armed, backlog>>

\* epoll_wait returns a batch.  The batch is handled in an order the model
\* leaves open, and each event is any mix of EPOLLIN and EPOLLOUT.
WaitReturns ==
  /\ pc = "wait"
  /\ pending' \in SUBSET (open \cup {f \in {LFD} : armed /\ backlog > 0}) \ {{}}
  /\ Cardinality(pending') <= MaxEvents
  /\ pc' = "dispatch"
  /\ closed' = {}
  /\ UNCHANGED <<needExit, open, c2b, b2c, heap, armed, backlog>>

Take(f) ==
  /\ pc = "dispatch"
  /\ f \in pending
  /\ pending' = pending \ {f}

BatchDone ==
  /\ pc = "dispatch"
  /\ pending = {}
  /\ pc' = "check"
  /\ UNCHANGED <<needExit, pending, open, c2b, b2c, heap, armed, backlog, closed>>

-----------------------------------------------------------------------------
(* Worker::accept_new_conn, for an event on listen_fd.                     *)

\* Mutant: the raw pointer of a new backend does not replace a stale one.
AddSessionKeepsStale(h, cfd, bfd) ==
  /\ heap' = [heap EXCEPT ![h] = [client |-> cfd, backend |-> bfd]]
  /\ open' = open \cup ({cfd, bfd} \ {None})
  /\ c2b' = [c2b EXCEPT ![cfd] = h]
  /\ b2c' = [f \in Fd |-> IF f = bfd /\ b2c[f] = None THEN h ELSE b2c[f]]

\* Mutant: the entry is made outside "if (backend)", for descriptor -1 too.
AddSessionRegistersNone(h, cfd, bfd) ==
  /\ heap' = [heap EXCEPT ![h] = [client |-> cfd, backend |-> bfd]]
  /\ open' = open \cup ({cfd, bfd} \ {None})
  /\ c2b' = [c2b EXCEPT ![cfd] = h]
  /\ b2c' = [f \in Fd \cup {bfd} |-> IF f = bfd THEN h ELSE b2c[f]]

\* The new ProxyHandler, its two sockets and its entries in the tables.
AddSession(h, cfd, bfd) ==
  /\ heap' = [heap EXCEPT ![h] = [client |-> cfd, backend |-> bfd]]
  /\ open' = open \cup ({cfd, bfd} \ {None})
  /\ c2b' = [c2b EXCEPT ![cfd] = h]
  /\ b2c' = [f \in Fd |-> IF f = bfd THEN h ELSE b2c[f]]

\* The backend of a new session: none for static files, none when
\* new_backend_fd finds or reaches no backend or no descriptor is left.
NewBackend(cfd, bfd) ==
  \/ bfd = None
  \/ BackendType = "LOAD_BALANCER" /\ LowestFree(bfd, open \cup {cfd})

Accept ==
  /\ Take(LFD)
  /\ backlog > 0
  /\ backlog' = backlog - 1
  /\ \E cfd \in Fd, bfd \in Fd \cup {None}, h \in Handlers :
       /\ LowestFree(cfd, open)
       /\ NewBackend(cfd, bfd)
       /\ heap[h] = None
       /\ AddSession(h, cfd, bfd)
  /\ UNCHANGED <<pc, needExit, armed, closed>>

\* SSL_accept fails at once: the descriptor is closed again before return.
AcceptHandshakeFails ==
  /\ IsSsl
  /\ Take(LFD)
  /\ backlog > 0
  /\ open # Fd
  /\ backlog' = backlog - 1
  /\ UNCHANGED <<pc, needExit, open, c2b, b2c, heap, armed, closed>>

\* The client gave up meanwhile (EAGAIN, ECONNABORTED): logged only.
AcceptFindsNobody ==
  /\ Take(LFD)
  /\ backlog = 0
  /\ open # Fd
  /\ UNCHANGED <<pc, needExit, open, c2b, b2c, heap, armed, backlog, closed>>

\* EMFILE: listen_fd's event mask becomes 0.  No code sets it again.
AcceptAtLimit ==
  /\ Take(LFD)
  /\ open = Fd
  /\ armed' = FALSE
  /\ UNCHANGED <<pc, needExit, open, c2b, b2c, heap, backlog, closed>>

\* The process ends, and its memory and its descriptors with it.
Dies ==
  /\ pc' = "killed"
  /\ pending' = {}
  /\ open' = {}
  /\ c2b' = [g \in Fd |-> None]
  /\ b2c' = [g \in Fd |-> None]
  /\ heap' = [h \in Handlers |-> None]
  /\ closed' = {}
  /\ UNCHANGED <<needExit, armed>>

\* The thread does not return from its call: the rest of the batch is never
\* handled and no other is fetched.
Sticks ==
  /\ pc' = "stuck"
  /\ pending' = {}

\* It dies with the client it has accepted: get_next_backend divides by
\* backend_count 0, or set_nonblocking or add_epoll_fd throws.
AcceptKills ==
  /\ pc = "dispatch"
  /\ LFD \in pending
  /\ backlog > 0
  /\ open # Fd
  /\ backlog' = backlog - 1
  /\ Dies

\* ::connect does not return.  The client's handler is in its table already;
\* the socket being connected is in none yet and is left out.
AcceptSticks ==
  /\ BackendType = "LOAD_BALANCER"
  /\ pc = "dispatch"
  /\ LFD \in pending
  /\ backlog > 0
  /\ backlog' = backlog - 1
  /\ \E cfd \in Fd, h \in Handlers :
       /\ LowestFree(cfd, open)
       /\ open \cup {cfd} # Fd
       /\ heap[h] = None
       /\ AddSession(h, cfd, None)
  /\ Sticks
  /\ UNCHANGED <<needExit, armed, closed>>

-----------------------------------------------------------------------------
(* An event on a connection.                                               *)

\* The handler returns false, or the event has neither EPOLLIN nor EPOLLOUT.
EventKept(f) ==
  /\ Take(f)
  /\ Route(f) \in Live
  /\ UNCHANGED <<pc, needExit, open, c2b, b2c, heap, armed, backlog, closed>>

\* The handler returns true.  Only a handler with a socket does.
EventDisconnects(f) ==
  /\ Take(f)
  /\ Route(f) \in Live
  /\ c2b[f] = None => heap[b2c[f]].backend # None
  /\ Disconnect(f)
  /\ UNCHANGED <<pc, needExit, armed, backlog>>

\* Neither table knows the descriptor: true, and disconnect only logs.
EventUnrouted(f) ==
  /\ Take(f)
  /\ Route(f) = None
  /\ UNCHANGED <<pc, needExit, open, c2b, b2c, heap, armed, backlog, closed>>

\* backend_to_client holds a pointer to a freed ProxyHandler and it is
\* dereferenced.  Undefined: what is left in the freed memory may answer
\* "keep", or "disconnect" and name the client it had, perhaps batches ago,
\* whose descriptor may be a newer session's by now; or the process dies or
\* does not come back (EventKills, EventSticks).
EventDangling(f) ==
  /\ Take(f)
  /\ Route(f) \notin Live \cup {None}
  /\ \/ UNCHANGED <<open, c2b, b2c, heap, closed>>
     \/ /\ \E g \in Fd : EraseClient(g)
        /\ b2c' = [b2c EXCEPT ![f] = None]
  /\ UNCHANGED <<pc, needExit, armed, backlog>>

\* The process dies inside the handler, or on the freed one.
EventKills(f) ==
  /\ pc = "dispatch"
  /\ f \in pending
  /\ Route(f) # None
  /\ Dies
  /\ UNCHANGED backlog

\* The handler does not return: parse_http_context calls a parser for ever.
EventSticks(f) ==
  /\ pc = "dispatch"
  /\ f \in pending
  /\ Route(f) # None
  /\ Sticks
  /\ UNCHANGED <<needExit, open, c2b, b2c, heap, armed, backlog, closed>>

ConnEvent(f) ==
  \/ EventKept(f)
  \/ EventDisconnects(f)
  \/ EventUnrouted(f)
  \/ EventDangling(f)
  \/ EventKills(f)
  \/ EventSticks(f)

-----------------------------------------------------------------------------
(* The environment: SIGHUP of a reload, and clients.                       *)

\* reload_signal_handler; epoll_wait returns EINTR if it was blocked.
Sighup ==
  /\ Running
  /\ ~needExit
  /\ needExit' = TRUE
  /\ pc' = IF pc = "wait" THEN "check" ELSE pc
  /\ UNCHANGED <<pending, open, c2b, b2c, heap, armed, backlog, closed>>

ClientArrives ==
  /\ Running
  /\ pc # "start"
  /\ backlog < MaxBacklog
  /\ backlog' = backlog + 1
  /\ UNCHANGED <<pc, needExit, pending, open, c2b, b2c, heap, armed, closed>>

ClientGivesUp ==
  /\ backlog > 0
  /\ backlog' = backlog - 1
  /\ UNCHANGED <<pc, needExit, pending, open, c2b, b2c, heap, armed, closed>>

-----------------------------------------------------------------------------
Loop == Startup \/ LoopContinues \/ LoopEnds \/ EnterWait \/ BatchDone

AcceptEvent ==
  \/ Accept
  \/ AcceptHandshakeFails
  \/ AcceptFindsNobody
  \/ AcceptAtLimit
  \/ AcceptKills
  \/ AcceptSticks

Next ==
  \/ Loop
  \/ WaitReturns
  \/ AcceptEvent
  \/ \E f \in Fd : ConnEvent(f)
  \/ Sighup
  \/ ClientArrives
  \/ ClientGivesUp

Spec == Init /\ [][Next]_vars

\* The thread is scheduled (a handler returns, kills the process or sticks:
\* nothing here assumes that it returns); a descriptor that stays ready is
\* reported by some epoll_wait (the kernel rotates its ready list); every peer
\* hangs up in the end, and the handler that hears of it returns.
Fairness ==
  /\ WF_vars(Loop)
  /\ WF_vars(AcceptEvent \/ \E f \in Fd : ConnEvent(f))
  /\ \A f \in Fd \cup {LFD} : SF_vars(WaitReturns /\ f \in pending')
  /\ \A f \in Fd : SF_vars(EventDisconnects(f))

FairSpec == Spec /\ Fairness

-----------------------------------------------------------------------------
(* Safety.                                                                 *)

\* The tables and the objects agree: a client descriptor owns exactly the
\* live object that names it, and the raw pointer kept for the backend of a
\* live object is that object, whatever stale pointers are around it and
\* however often descriptors and addresses were reused.
TablesAgree ==
  /\ \A f \in Fd : c2b[f] # None => /\ c2b[f] \in Live
                                   /\ heap[c2b[f]].client = f
  /\ \A h \in Live : /\ c2b[heap[h].client] = h
                     /\ heap[h].backend # None => /\ b2c[heap[h].backend] = h
                                                  /\ c2b[heap[h].backend] = None

\* No descriptor leaks and none is shared: the open ones are those of the
\* live objects, and two objects (or two ends of one) never hold the same.
NoFdLeak ==
  /\ open = UNION {FdsOf(heap[h]) : h \in Live}
  /\ \A g, h \in Live : g # h => FdsOf(heap[g]) \cap FdsOf(heap[h]) = {}
  /\ \A h \in Live : heap[h].client # heap[h].backend

\* An event whose descriptor was not closed since epoll_wait returned it is
\* handled by the live object that holds the descriptor.  So a freed object
\* is dereferenced, and a newer one at its address mistaken for it, only for
\* a descriptor closed earlier in the same batch.
FreshEventsReachOwner ==
  \A f \in (pending \cap Fd) \ closed :
    /\ Route(f) \in Live
    /\ f \in FdsOf(heap[Route(f)])

\* A worker that leaves its loop was told to, and leaves no connection open.
ExitIsClean ==
  pc = "exited" => /\ needExit
                   /\ open = {}
                   /\ Live = {}

\* A session is torn down only by an event on one of its own sockets, or by
\* a stale event on a descriptor closed earlier in the same batch.
TeardownByOwnEvent ==
  [][\A h \in Live :
       heap'[h] = None /\ pc' # "killed" =>
         \E f \in pending \ pending' : f \in FdsOf(heap[h]) \cup closed]_vars

\* The live objects are the sessions of the abstract specification.
Process == IF Running THEN "up" ELSE IF pc = "killed" THEN "killed" ELSE "exited"

S == INSTANCE Sessions WITH sessions <- {heap[h] : h \in Live}, process <- Process

\* The worker opens and tears down sessions one at a time and with both ends,
\* and all at once only when it is killed.
ImplementsSessions == S!Spec

-----------------------------------------------------------------------------
(* Liveness, under FairSpec.                                               *)

\* A worker told to exit while it has connections ends once its peers have
\* hung up, unless another client is waiting for it or a handler never
\* returns.
ExitsAfterDrain ==
  (needExit /\ open # {}) ~> (~Running \/ pc = "stuck" \/ backlog > 0)

\* A waiting client waits for ever only if the descriptors ran out once and
\* epoll stopped watching listen_fd, if the worker is stuck in a handler of
\* another connection, or if it is gone.
WaitingClientServed ==
  (backlog > 0 /\ armed) ~> (backlog = 0 \/ ~armed \/ pc = "stuck" \/ ~Running)

\* main.cpp:15 has needExit make the child exit: an idle worker does.
IdleWorkerExits ==
  (needExit /\ open = {}) ~> (~Running \/ pc = "stuck" \/ backlog > 0)
=============================================================================
