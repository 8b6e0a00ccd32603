# Verification of pkuyo-proxy

TLA+ specifications of pkuyo-proxy, a multi-process HTTP reverse proxy in C++
(`src/`), the TLC configurations that check them, and TLAPS proofs. The code
under `src/src` and `src/include` is the reference; every definition that models
code names its lines in `PROJECT.json` ("map").

## The system

`main.cpp` starts a daemon that loads a configuration and forks one process per
listener. That process lays out a shared-memory region for the load balancer,
forks `process_count` workers, and becomes the master that checks the health of
the backends. Each worker is single-threaded: it accepts clients on its own
listening socket, connects each to a backend the balancer chooses, and relays
HTTP messages between the two over edge-triggered epoll.

| Component | State | Operations | Interacts by |
|---|---|---|---|
| Worker (`worker.cpp`) | `needExit`, `client_to_backend` (owns), `backend_to_client` (raw pointers), descriptors, epoll set | `worker_loop`, `process_events`, `accept_new_conn`, `disconnect` | epoll events; SIGHUP |
| Relay (`proxy_handler.cpp`) | per side: `raw_buffer`, parser state, `tmp_context`, `queue`, `is_sending` | `handle_read_event`, `parse_http_context`, `recv_content`, `handle_write_event` | calls into the other side's `recv_content`; sockets |
| Load balancing (`worker.cpp`, `def.h`) | `current_index`, per backend `connections`, `failed_connections`, `current_weight`, `is_healthy`, all shared | `get_next_backend`, `new_backend_fd` | atomics in shared memory, no lock |
| Master (`master.cpp`) | none of its own | `check_health`, `master_loop` | writes `is_healthy`; sleep and pause, ended by signals |
| Sockets, TLS (`conn_handler.cpp`, `listen_handler.cpp`) | descriptors, event masks, SSL objects | accept, connect, read, write, handshake, destructor | called by Worker and Relay |
| HTTP parsing (`proxy_handler.cpp`) | parser state, chunk counters | `process_http_headers`, `parse_chunked_content` | called by Relay |
| Process lifecycle (`main.cpp`, `init_listener.cpp`) | `need_reload`, PID file, shared region, process tree | `init`, `reload_config`, `fork_listeners`, `start_listener`, signal handlers | signals, fork |
| Configuration (`config_loader.cpp`) | `ProxyConfig` | `load_config` | read once per reload |
| Logging (`logger.cpp`) | none that others read | | |

### What is hard

- *Ordering inside a batch.* `epoll_wait` returns up to `MAX_EVENTS` events; an
  early one may close descriptors and free the objects that later ones name, and
  an accept in between may reuse both the descriptor and the address.
- *Signals.* A flag set by a handler is only looked at between two blocking calls.
- *Shared memory without locks.* A pick is a long sequence of atomic accesses.
- *Edge-triggered epoll.* An edge that is consumed and not acted on does not
  come again; the stream is cut anywhere and writes are partial.
- *Failure.* Peers close or reset at any time, `SIGPIPE` is not ignored,
  exceptions are not caught, dead workers are not replaced.

The properties that make a component right: a worker never loses, leaks or mixes
up a session; the relay neither loses, doubles nor reorders bytes, and never
sleeps on work; the balancer's statistics mean what the algorithms take them to
mean and every backend gets its share; every message is parsed whatever its
segmentation; a reload or a signal is never forgotten. `PROJECT.json` lists the
hazards line by line with the properties that cover them.

## Modules

| Module | Models | Checked by | Proved in |
|---|---|---|---|
| `Sessions` | abstract: what a worker promises about its sessions | | |
| `Worker` | event loop, tables, descriptors, objects; refines `Sessions` | `MCWorker` | `WorkerProofs` |
| `LoadBalancer` | `get_next_backend`, `new_backend_fd`, `check_health` | `MCLoadBalancer` | `LoadBalancerProofs` |
| `Exchange` | abstract: what a session promises its client | | |
| `Relay` | the two handlers of one session, epoll, the peers; refines `Exchange` | `MCRelay` | `RelayProofs`, `RelayDataProofs` |
| `Framing` | abstract: what the parser of one direction promises | | |
| `HttpParser` | `read_raw_buff`, `parse_http_context`, `parse_chunked_content`; refines `Framing` | `MCHttpParser` | `HttpParserProofs` |
| `Lifecycle` | main process, masters and workers; reload, stop, signals; the shared region | `MCLifecycle` | `LifecycleProofs` |
| `ConfigLoader` | `load_config` | `MCConfigLoader` | `ConfigLoaderProofs` |
| `FoldLemmas` | induction, and the sums and concatenations of the library that the models use | | itself |

The modules meet where the code does. `Worker` leaves to `Relay` what a handler
does with an event, `Relay` leaves to `HttpParser` how chunked content is parsed,
`Worker` and `LoadBalancer` share `accept_new_conn` (the backend that is picked and
the statistics it counts in), `LoadBalancer` takes the configuration that
`ConfigLoader` loads, and `Lifecycle` has the start, the signals and the end of the
processes that the others are about.

### Worker

One thread; `pc` is its place in `worker_loop`. `c2b` is `client_to_backend`, `b2c`
is `backend_to_client`, and `heap` maps addresses to `ProxyHandler`s, so that
ownership (`c2b`) and the raw pointer (`b2c`) are told apart and an address can
be reused. `open` is the set of open descriptors; new ones get the lowest free.
`pending` is what is left of the batch, handled in any order; an event is any mix
of EPOLLIN and EPOLLOUT. What the handler does with the bytes is left to Relay:
here it answers "keep" (`EventKept`), "disconnect" (`EventDisconnects`), the
process dies in it (`EventKills`: SIGPIPE, an uncaught exception), or it does not
return (`EventSticks`: the parsing loops of finding 3). A *stuck* worker takes no
more steps and handles nothing of its batch.

`disconnect` of a client leaves its entry in `backend_to_client`. A later event of
the same batch for that backend then follows a dangling pointer: undefined
behaviour, modelled in `EventDangling` by its possible outcomes (nothing happens,
the stale handler is disconnected and takes along whatever session now has its
client's descriptor, which may have been closed batches ago), `EventKills` and
`EventSticks`. If the address was reused, the event
reaches the newer session (`EventKept`, `EventDisconnects`).

`accept_new_conn` is `Accept` (with or without a backend), `AcceptHandshakeFails`,
`AcceptFindsNobody`, `AcceptAtLimit` (EMFILE), `AcceptKills` (the division by
`backend_count`, or an exception of `helper.h`) and `AcceptSticks` (a `connect` that does
not return, `listen_handler.cpp:81`). Between `LoopContinues` and
`EnterWait` lies the window in which SIGHUP sets `needExit` unseen.

`Sessions` says that sessions are opened on descriptors no other session has, and
closed one at a time with both ends; that the process exits when none is left;
and that only being killed ends several at once. Worker implements it with
`sessions <- {heap[h] : h \in Live}` and `process <- Process`.

### LoadBalancer

Each access of a shared atomic by `get_next_backend` is one step, so the picks of
several workers and the master's stores interleave as they can in shared memory
(all accesses are sequentially consistent atomics). `config` and `stat` are the
two pointers a pick returns: round robin loads `current_index` once for each, and
they may disagree. `Wrap` is the two's complement that `+=` and `fetch_add` leave
in an `atomic<int>`.

`load_config` never assigns `backend_count`, so 0 is what every loaded configuration
has; 2 (the number of backends) shows `get_next_backend` for a configuration that is
filled in. The run has both, and the properties are stated for any. Whether there are
health checks (`check_health_time` is not -1) and how many workers there are
(`process_count`) is part of the configuration and chosen in `Init`. `init_mmap`
constructs `process_count` statistics, not one per backend: a backend beyond them starts
unhealthy. A worker may die between any two steps (`Dies`, and `RRDies` of the division
by 0); `killed` keeps where it was.

What the properties say of a scan depends on the backends it can reach:

- `Eligible`: backend 0, which both scanning loops start with, and those below
  `backend_count`, as far as they have statistics. With `backend_count` as loaded that
  is backend 0 alone.
- `Steady`: no backend changes its health under a scan, because there are no checks or
  the scan looks at backend 0 only (`backend_count` at most 1, hence as loaded).
- `WeightAccounted` gives the sum of `current_weight` in every `Steady` configuration:
  what unfinished picks have added (`Owed`) less `Overpaid` for every pick that was
  `Paid`. With a scan that reaches all backends `Overpaid` is 0 and weight is conserved;
  as loaded a pick adds backend 0's weight and subtracts the total, and the sum drifts
  with every connection.
- `SpreadBounded` bounds how far the counts of eligible backends come apart, and says
  that the others get nothing. As loaded, as in the shipped configuration, every
  connection goes to backend 0, and the first half says nothing.
- `due` counts, for a backend found down, the workers that had judged it healthy, less
  the connects to it since; `LateConnectsBounded` says that it never falls below 0. The
  connect goes to `config`, the judgement is of `stat`: in round robin they may be two
  backends, nothing bounds its connects to one that is down, and the property is about
  the other two algorithms.

The master sleeps, probes and stores each backend, and pauses until a signal.
Here only SIGCHLD wakes it; SIGHUP ends it and belongs to the lifecycle.

### Relay

Both `NormalConnHandler`s of one session, the epoll instance as far as it concerns
their sockets, and the client and the backend beyond. Data is a sequence of units
`<<kind, n, k>>` (part k of message n), so any cut of the stream and any length
of a partial write is a cut between units. One step is one system call with the
code that follows it up to the next, so the peers move in between.

`ready` is epoll's ready list, `noSpace` the kernel's memory that a writer found
the buffer full and is owed an edge, `watchOut` the EPOLLOUT bit of the mask.
`epoll_wait` polls the sockets on the list, and EPOLL_CTL_MOD puts a socket that
is ready back on it, as the kernel does. The order of the code is kept: the
`else if` of `process_events`, the drain before the parse, `recv_content` writing
at once when nothing is being sent, its result ignored.

A `HttpContext` keeps what is left of its header; content is copied from the
context anew before every write, as `handle_write_event` does, so that a short
write of content starts over. `resent` and `missed` are history variables for the
two places where the code departs from what the properties say: a short write of
content, and an EPOLLOUT that is discarded because it came with an EPOLLIN.

`handler` is the backend's handler, chosen by `Worker::accept_new_conn`. `Here` is the set
of requests that the session answers itself: those without method and path (`Invalid`)
before a backend, all of them when the handler is a `FailedBackendHandler` or
`StaticFileHandler`. `ParseKills` is the exception of `url_decode` (`proxy_handler.cpp:502`)
for a URL with an escape that is no number (`BadUrl`), which ends the worker.

`Destroy` is the end of the session, by `Worker::disconnect` or with the process: both
handlers go, with all that was received, parsed in part or queued. So data that is read
in the same drain as the end of file, which `handle_read_event` does not parse
(`proxy_handler.cpp:240`), is lost. `ReadConserves` and `WriteConserves` speak of sessions
that last; of one that has ended, `ReadConserves` says that what was parsed is how the
stream began.

`Exchange` is what a session promises the client, in terms of requests and answers
and not of units: an answer is to a request that was sent whole before, and to one
that has not been answered yet; and, where the session keeps the order, to the next
one. `ImplementsExchange` substitutes `asked <- Asked` (requests whose last unit the
client has written), `answers <- Numbers(got["client"], LastPart)` (messages whose last
unit it has read) and `InOrder <- KeepsOrder`. `KeepsOrder` says which sessions can
keep it: those that forward every request, those that answer every one, and those
of a client that waits for each answer. In any other an answer that the proxy gives
itself (`proxy_handler.cpp:453`) is queued before the answers that are still to come
from the backend, and the code has nothing that would hold it back. No order is
promised there, but the rest of `Exchange` is.

### Framing and HttpParser

A stream is a sequence of tokens: CR, LF, a header without its line ends, the
digits of a chunk size, a unit of content. Content may hold CR and LF, and a read
may end after any token. One step is one pass through the body of a loop, so that
the two loops that call each other (`parse_http_context` and
`parse_chunked_content`) show whether they come to an end. `killed` is an exception
that nobody catches.

`ParseHeader` knows of a message what its header announces. *length* and *chunked* are
the usual kinds. *max* is a `Content-Length` of 2^64-1 or -1, which the code takes for an
error and drops the header; *unread* is one that `stoul` refuses and that counts as 0
(`proxy_handler.cpp:137-140`); the content of either is then taken for the next header
(`Leftover`). *huge* is one that `reserve` throws for. `BadSizes` are the chunk sizes whose
line `stoul` refuses, malformed or out of range (`:419`), which nothing catches.

`Cuts` says for every place of the stream what a cut there does: *line* (inside the
line of a chunk size or of a chunk's end: the loops spin), *seam* (between a chunk's
data and its CRLF: `stoul` throws on the empty line), *safe*. `CompleteAt` says after
which token a message can be handed over. Both are read off the format of the
stream, not off the parser, and are what the properties compare it with.
`Framing` is the promise: every message whole, once, in order, and not before it
has arrived. A cut makes the parser die or spin, never misread. The parser dies for
one of three causes (`KilledOnlyForCause`): a seam, a length no string can hold, the line
of a chunk that `stoul` refuses.

### Lifecycle

`main` is the place of the main process in `init` and `reload_config`, `listener` that
of every child in `fork_listeners`, `start_listener` and `master_loop`, by generation
and entry (a generation may have any number of entries), `worker` that of their
children. `reload` and `stop` signal the process group: one atomic step that sets flags,
wakes who sleeps and ends who has no handler. A listener is *born* with the handlers of
the main process, loses them (*default*) and sets its own (*map*).

The region of shared memory is found by the server's name (`init_listener.cpp:34`), so all
listeners of one name have the same one: those of every generation, and two of one
file that name the same server on two ports, which nothing forbids. `region` is the
listener whose address `stats` is; a process that follows another's address may crash
or not (`MayCrash`, `MaySurvive`: it may or may not be mapped there), one that follows
null crashes. Only listeners with backends follow it. `MapFails` is a mapping that
fails, of which no result is looked at. `WorkerDies` is the end of a worker by one of
its connections (Worker). *stuck* is a main process whose handler of SIGTERM logs while
the log's lock is held, in `reload_config` or `load_config`.

`asked`, `missed` and `laid` are history: the generation at the last request, the
listeners that got a SIGHUP while they were *born*, the listeners that constructed
each region.

### ConfigLoader

A file is a sequence of entries, records of which strings are there and of what
`backends` and `load_balancing` hold; `Absent` is what `json_object_get` finds of a
missing key. One step is one listener or one backend. A string that is missing ends the
process at the `strcpy`; one longer than the array of 256 bytes is undefined behaviour,
after which nothing is promised (`StringOverflows`). `BackendItem` is read at `i`
although the loop counts in `j`, as the code does; `Garbage` is an `algorithm` that
nothing was stored in. Weights are natural numbers: that a file gives negative ones
is left out.

## Runs

| Run | Shows | Bounds |
|---|---|---|
| `worker_lb` | safety of the worker, refinement of `Sessions` | 4 descriptors, 4 addresses, batches of 3, 1 waiting client, TLS on |
| `worker_live` | a draining worker ends, a waiting client is accepted, unless the thread is stuck in a call | 2 descriptors, 2 addresses, batches of 2 |
| `worker_idle_exit` | **violated**: an idle worker told to exit does | 2 descriptors |
| `lb` | connects to backends found down, statistics cover connections, what the weights sum to, spread of least connections | 1 or 2 workers, 2 backends, weights 1 and 2, 4-bit int (`IntLimit` 8); all algorithms, `backend_count` 0 and 2; 2 picks with health checks, 6 without |
| `lb_rr_loaded` | **violated**: round robin chooses every backend | `backend_count` 0, as loaded, 4 picks |
| `relay` | while the session lasts nothing lost, doubled or reordered; no edge lost; refinement of `Exchange` | 2 pipelined requests, content up to 2 units, buffers of 2, 6 units on a wire; a backend with an early answer and a bad status, a failed one, or static files with a bad URL; both peers may close or reset |
| `relay_live` | every request is answered that no bad URL precedes | 3 requests in turn to a backend or static files, one invalid, one bad status, the last with a bad URL; content that fits |
| `parser` | refinement of `Framing`, headers as sent, nothing left behind, when it dies, when it ends | 6 streams of 3 or 4 messages, every cut |
| `parser_cut` | **violated**: parsing ends wherever the cut is | the same |
| `lifecycle` | who is told to exit, what a second generation breaks, a master is woken by its last worker | 2 entries of one name, then 1; 1 reload; the first entry with a worker and health checks, the second static; `stop` at any time |
| `lifecycle_reload` | **violated**: every reload that main noted is served | 1 entry, 1 worker, 1 reload |
| `config` | which backends a listener gets, `total_weight`, where the process ends | all files of up to 2 listeners out of 32 kinds of entry with up to 3 backends |

Why the bounds are enough. Four descriptors give two complete sessions, or up to
four whose backend failed; a batch of three has room for a close, an accept that
reuses the descriptor, and a stale event after them, the shortest history in
which tables and objects can come apart. Two workers are enough for every
interleaving between one pick and another; 6 picks with weights 1 and 2 in 4-bit
integers drive `current_weight` past its minimum, so wrap-around happens. Two picks are
enough for a late connect of each worker, and for one that no worker was due for. With two
backends the two bounds of `SpreadBounded` are the same; that they differ from three
on, where a worker's best so far can be overtaken while it looks at the others, is
left to the proof. Buffers
of two units under headers and content of two units make every write short at
every place; `MaxWire` bounds what is written to a socket, because content that
is larger than the space left is written again and again. The streams of the
parser put every kind of message before and behind a chunked one, with contents
that look like line ends. One reload gives two generations, and two entries of one
name the two ways in which a region is shared; only the first listener has a worker,
since what a worker does with the region depends only on which listeners have laid it.
Two listeners let the loader's `i` and `j` differ. Where a
property is proved as well, it does not depend on the bounds. Symmetry is used for
heap addresses and for workers, in runs without liveness only.

`CHECK_DEADLOCK FALSE` is set because the systems do stop: a worker exits, picks,
requests, streams and reloads are bounded.

### Fairness

- `Worker!FairSpec`: the thread is scheduled (WF of the loop and of handling an
  event, where handling may also be to die or to stick: that a handler returns is not
  assumed, and the properties name a stuck worker as the other outcome); a descriptor
  that stays ready is reported in the end (SF per descriptor: the kernel rotates its
  ready list); every peer hangs up in the end (SF of
  `EventDisconnects`), without which draining is not meant to end. This last part does
  presume that the handler which hears of a peer's end returns: a worker for which it
  does not is outside what `ExitsAfterDrain` says, or stuck. Fairness of
  SIGHUP or of clients is not assumed.
- `LoadBalancer!FairSpec`: every process is scheduled and clients keep coming.
  It is used only to show that a backend is never chosen although they do.
- `Relay!FairSpec`: the thread is scheduled, the client and the backend send what
  they have begun and read what they are sent.
- `HttpParser!FairSpec`: the thread is scheduled (WF of `Parse`); the peer need not
  send anything more.
- `Lifecycle!FairSpec`: every process is scheduled (WF per process; of a worker, the
  steps that wait for nobody), and a worker's clients finish in the end (SF of
  `WorkerServes(w, FALSE)`). Signals and new clients are not assumed.

### Findings

Each violated run is a disagreement between the code and what it says of itself:

1. `worker.cpp:221`: `needExit` set between its test and `epoll_wait` is not seen
   until another event comes; an idle worker waits for ever.
2. `worker.cpp:31`: round robin divides by `backend_count`, which is 0.
3. `proxy_handler.cpp:415`: an incomplete line of a chunk size makes the two parsing
   loops call each other for ever.
4. `main.cpp:147`: `need_reload` is cleared after `reload_config`, so a SIGHUP that
   arrives meanwhile is lost, and nobody is left who means to stay.

Other places where the code departs from what one expects are part of the models;
the properties name them as their exceptions, or state exactly what they lead to:

- accepting that was paused at the descriptor limit is not resumed
  (`worker.cpp:127`, marked TODO there): `WaitingClientServed` excludes it;
- weighted round robin picks the smallest weight (`worker.cpp:43`), and
  `connections` is never decremented (`worker.cpp:114`): `WeightAccounted`,
  `SpreadBounded` and `OpenAreCounted` hold of the counters as they are kept, and none of
  them says that the load is spread;
- with `backend_count` as loaded the scanning algorithms know backend 0 only
  (`worker.cpp:59-61`), which the same properties state (`Eligible`);
- an event for a session closed earlier in its batch follows a dangling pointer
  (`worker.cpp:193`): `FreshEventsReachOwner` is about the other events;
- an EPOLLOUT that comes with an EPOLLIN is discarded (`worker.cpp:172`), and content
  after a short write starts over (`proxy_handler.cpp:264`): `missed` in `NoEdgeLost`,
  `resent` in `WriteConserves`;
- data read in the same drain as the end of file is never parsed (`proxy_handler.cpp:240`):
  `ReadConserves` promises it only while the session lasts;
- an answer of the proxy's own overtakes those to come from the backend
  (`proxy_handler.cpp:453`): `KeepsOrder`;
- the CRLF behind a last chunk begins the next header (`proxy_handler.cpp:424`):
  `HeadersAsSent` says so; a cut at a seam (`:441`) and a line that
  `stoul` refuses (`:419`) end the worker: `KilledOnlyForCause`;
- a listener that gets SIGHUP before it has replaced main's handlers keeps running
  (`init_listener.cpp:98`): `missed` in `OldGenerationsTold`;
- a reload constructs the region again under the draining generation, and so does a
  second listener of the same name (`init_listener.cpp:39`): `CrashNeedsTwoListeners` says
  when that is fatal;
- every backend of a listener is read from the element at the listener's own
  position (`config_loader.cpp:61`): `BackendsReadByListener` says exactly when the
  result is what the file says.

## Proofs

`WorkerProofs` proves, for every number of descriptors and addresses, any batch
size and backlog, both backend types, with and without TLS, from
`WorkerAssumption` alone (`None` is none of the other values, the numbers are
natural):

| Theorem | States |
|---|---|
| `TypeCorrect` | `Spec => []TypeOK` |
| `TablesAlwaysAgree` | `Spec => []TablesAgree` |
| `NoFdEverLeaks` | `Spec => []NoFdLeak` |
| `FreshEventsAlwaysReachOwner` | `Spec => []FreshEventsReachOwner` |
| `ExitAlwaysClean` | `Spec => []ExitIsClean` |
| `TeardownOnlyByOwnEvent` | `Spec => TeardownByOwnEvent` |
| `WorkerImplementsSessions` | `Spec => ImplementsSessions` |

The inductive invariant is `IInv == TypeOK /\ TablesAgree /\ NoFdLeak /\
PendingKnown /\ ExitedEmpty /\ StartedEmpty`. `TablesAgree` and `NoFdLeak` need
each other: that the entry of a new session overwrites no live one follows from its descriptors
not being open, and that an erased entry frees exactly its own descriptors
follows from the tables. `PendingKnown` (an unhandled event is on a descriptor
that is open or was closed in this batch) is what makes the routing of fresh
events follow from the tables; `ExitedEmpty` remembers the loop's condition, and
`StartedEmpty` that a startup that fails leaves nothing behind.

The argument has three lemmas on the tables: `DestroyKeeps` (an object goes and
with it its client's entry, and perhaps a pointer that is no live object's),
`DropPointerKeeps` (only such a pointer goes), `AddSessionKeeps` (a new session).
Every action is one of these or leaves the tables alone. `StepOnObjects` sums up
what a step does to the objects; the action property and the refinement follow
from it.

`LoadBalancerProofs` proves, for every number of workers and backends, every
algorithm, weights, `backend_count` up to the number of backends and width of int:

| Theorem | States |
|---|---|
| `TypeCorrect` | `Spec => []TypeOK`: every index used is one of a backend |
| `LateConnectsAlwaysBounded` | `Spec => []LateConnectsBounded` |
| `WeightAlwaysAccounted` | `Spec => []WeightAccounted` |
| `OpenAlwaysCounted` | `Spec => [](picks < IntLimit => OpenAreCounted)` |
| `SpreadAlwaysBounded` | `Spec => [](picks < IntLimit => SpreadBounded)` |

It assumes `LoadBalancerAssumption` alone (the workers are finitely many, there is a
backend, weights are positive, the counters can hold an index). The first part of
the inductive invariant, `IInv`, adds to `TypeOK` that a worker in the body of a loop
has an index below `backend_count` (`InLoop`), that what round robin is about to store
is an index (`IndexLoaded`), and, for the late connects, `LateLeft`: while a backend is
down, every worker in flight to it (one that has judged it healthy and not yet
connected) is still due. The bound itself is not inductive: a connect takes one from
`due`, and only `LateLeft` shows that there was one left. A worker can join those in
flight only while the backend is healthy. `OneBackend` (a scanning worker judges, and
counts for, the backend it connects to) is what `LateLeft` rests on and round robin lacks.

The second part, `CountsInv`, is about the statistics.

- `WeightAccounted` is almost inductive. It needs `Calm` (in a `Steady` configuration only
  the backends without statistics look down) and `Ahead`: the backend a scanning worker
  prefers is one it has passed, and it has passed all eligible ones when it pays, so
  that it pays what it has added and `Overpaid`. A payment stays on the books when it is
  counted (`DebtCounted`). The sums are taken modulo 2^w, which `WrapOfSum` carries through
  a step: the theorem holds however often `current_weight` and the counts wrap.
- `Covered` is what makes `OpenAreCounted` inductive: a failed connect is counted in
  `failed_connections` before it is in `connections`, so in between the difference is one
  too small, and the workers there (`Uncounted`) make up for it.
- For least connections, workers choose on stale counts. `AheadOfLater`: when a worker
  preferred `a` to a later `c`, `a` had no more; the workers that did so since and have
  not counted yet are the slack, and there are at most as many of them as workers
  (`MaxWorkers`). The other way round there is no such direct comparison: a worker
  compares the best so far with the next backend only, and the best of a moment ago may
  have got more connections since. `AheadOfEarlier` bounds the count of a backend by any
  number that bounds all those before it, and induction over the backends
  (`SpreadFromInv`) gives as many again for every one in between.

The counts are `atomic<int>`s that only grow. The last two theorems are about the time
until INT_MAX picks have started (`picks < IntLimit`; `CountsLag` says that no count
is ahead of the picks): when a count has wrapped to INT_MIN, neither property means
anything. The runs stay below that bound.

The proof found an error in `SpreadBounded` as it was first stated: the same bound, the
number of workers, both ways. That is right for two backends; with four backends three
workers bring the counts 4 apart, as an exhaustive search then confirmed.

`RelayProofs` proves, for any number and length of messages, any size of the
buffers, with or without pipelining and whoever closes:

| Theorem | States |
|---|---|
| `NoEdgeEverLost` | `Spec => []NoEdgeLost` |
| `ResponsesAlwaysInOrder` | `Spec => []ResponsesInOrder`, if `KeepsOrder` |
| `RelayImplementsExchange` | `Spec => ImplementsExchange` |

`NoEdgeLost` speaks only of the moments when the thread waits. The inductive
invariant says where an edge is in between. `ReadsComing`: unread data is known of to
epoll (`ready`), to the batch, or to the reader. `WritesComing`: a queued context is
being written, or EPOLLOUT is watched for and is in the batch, on the ready list or
owed by the kernel. `SendingWatched` ties `is_sending` to the event mask and to a
context that is queued, without which `recv_content` would queue behind a write
that never comes. `BatchHandled` is needed because `epoll_wait` overwrites the batch.
None of it depends on what the messages are; of the queue only that it is a
sequence is used.

The other two follow from one inductive invariant, `OrderInv`, on top of `DataInv` of
`RelayDataProofs`. A response passes through the whole session, so that its place has to be
followed from one connection to the other:

- `MarkInv`, for each side: the messages completed in what a peer has got and what
  its socket holds are the first of those queued for it. Content that a short write
  starts over is why this is not a matter of comparing streams: units may come
  twice, but the last unit of a message comes once, and only then the next
  message. A message counts from its header for a backend that answers early, from
  its last unit otherwise.
- `RouteInv`: how the four lists of the session go together (`Routed`): requests parsed,
  requests queued for the backend, responses parsed, answers queued for the client.
  The requests are parsed in order; the responses are those of the first requests
  queued for the backend; no answer is queued twice; and as many answers and requests
  have been queued as messages have been parsed. The order of the answers is one
  conjunct of it, under `KeepsOrder`, and is not inductive without the others.
- `InTurn`: without pipelining the client starts a request only when the one before
  is answered whole.

`StepEffect` sums up what each action does to the streams and queues, so that the
invariant is shown for five kinds of steps and not for each action. What `Routed` says
about lists is shown once and without the model (`AnsweredHere`, `RequestForwarded`,
`ResponsePassed`). `ResponsesAlwaysInOrder` needs its hypothesis: with two requests of which
the second is answered by the proxy, TLC finds the answers out of order as soon as
requests are pipelined. `RelayImplementsExchange` has no hypothesis beyond
`RelayAssumption`.

`RelayDataProofs` proves, under `RelayAssumption` (the lengths are natural, a header and
the send buffer not empty), for any number and length of messages, any cut of the
streams, any size of the buffers and whoever closes:

| Theorem | States |
|---|---|
| `TypeCorrect` | `Spec => []TypeOK` |
| `ReadsAlwaysConserve` | `Spec => []ReadConserves` |
| `WritesAlwaysConserve` | `Spec => []WriteConserves` |

The inductive invariant is `DataInv`. For reading it says more than that everything
sent is somewhere: `Stream` says that what was sent is a prefix of the messages the peer
will send, and what the handler holds, the socket holds and is still to come are
together the messages not yet parsed. Only then is what `parse_http_context` cuts off
the front of `raw_buffer` the header or the content of the very next message: a unit
tells which message it belongs to, but the parser goes by lengths. What a backend will
send is known as far as requests have reached it (`Nums`, from `DueAt`). For writing,
`Outgoing` says of the first context in the queue that only its unsent part is still
to go, and of the others that they are whole.

`LifecycleProofs` proves, for any number of reloads, entries and workers, any
configuration of each generation and any names, from `LifecycleAssumption`:

| Theorem | States |
|---|---|
| `TypeCorrect` | `Spec => []TypeOK` |
| `WorkersAlwaysFollow` | `Spec => []WorkersFollowMaster` |
| `OldGenerationsAlwaysTold` | `Spec => []OldGenerationsTold` |
| `CrashAlwaysNeedsTwo` | `Spec => []CrashNeedsTwoListeners` |

The inductive invariant has four parts. `TypeInv`: the types, that a generation is
loaded only for a request of its own (`GenerationsAsked`), and that no listener comes
before its generation or its turn. `ForkInv`: a worker's master has laid its region,
and if it is gone it was told. `ToldInv`: while a request waits for the main process,
everyone who lives has been told (`RequestTellsAll`); this is what becomes
`OldGenerationsTold` when the request is served. `RegionInv`: a process finds its own
address in the region, or another listener of its name has constructed it, so that a
crash has a second listener behind it.

`ConfigLoaderProofs` proves, for every set of files, from `FilesAssumption` (what an
entry is a record of):

| Theorem | States |
|---|---|
| `TypeCorrect` | `Spec => []TypeOK` |
| `BackendsAlwaysReadByListener` | `Spec => []BackendsReadByListener` |
| `TotalAlwaysSum` | `Spec => []TotalIsSum` |
| `AlwaysEndsOnlyAtFault` | `Spec => []EndsOnlyAtFault` |

The inductive invariant says of the listeners so far that their entries are complete
(`AllComplete`) and that each of their backends is the entry's element at the listener's
position (`BackendsAsRead`), of the one being read the same up to `j` (`InBackends`),
and that the entry where the process ended was to blame (`CrashedHere`).
`EndsOnlyAtFault` names what an entry lacks (`Lacking`) without looking at how the code
copies it; `CompleteLacksNothing` and `MissingIsLacking` connect the two. `TotalIsSum`
is inductive as it stands, given that the sum over one more backend is the sum and its
weight (`WeightSumOfMore`).

`HttpParserProofs` proves, for every set of streams, of any number of messages, any chunks
and any contents, for requests and responses, and for every cut, from
`StreamsAssumption` alone (a stream is a sequence of messages, no chunk but the last is
empty, what the parser leaves of a message is no header of its own, `is_request` is a
truth value), whichever lines `stoul` refuses:

| Theorem | States |
|---|---|
| `TypeCorrect` | `Spec => []TypeOK` |
| `HeadersAlwaysAsSent` | `Spec => []HeadersAsSent` |
| `NothingEverLeftBehind` | `Spec => []NothingLeftBehind` |
| `AlwaysKilledOnlyForCause` | `Spec => []KilledOnlyForCause` |
| `ParserImplementsFraming` | `Spec => ImplementsFraming` |

The parser knows nothing of the stream but the tokens in `raw_buffer`; the invariant
says where in the stream they are. `Window`: `raw_buffer` is the piece of the wire
behind the tokens consumed. `At(n)`: the good messages before the n-th have been handed
over (`HandedBefore`), and the parser is before the n-th's header (`AtHeader`), k tokens
into its body (`InBody`), before its chunk c (`AtSize`), or k tokens into that chunk
(`InChunk`), with a `tmp_context` that holds exactly what lies before. Two places are
not where the format has them: before a header there may be what was left of the message
before (`Left`), and before a chunk the CRLF of the one before, when a read ended at the
seam (`AtSize`). There `CutsKnown` gives the reason: the cut is in `cuts`, or the next
token has not come and the parser goes to wait. `Waiting` says that a parser that waits
has used up `raw_buffer` or has no complete header.

From there the proof has three layers. What is where in the stream: `HeadInWire`,
`BodyInWire`, `BaseIs` (the chunks), `CutsAre`. What `find` finds, wherever the buffer
ends (`HeaderFound`, `SizeFound`, `SeamFound`): the first CRLF CRLF is the header's own even
if contents hold line ends, because contents are taken by length. And one lemma for each
action, which also says what the step shows outside (`Seen`): more has arrived, or the
next message is handed over. The refinement follows from `Seen`: a good message's place in
what is handed over is the number of good ones before it (`Rank`; `RankTells`,
`RankTaken`).

`FoldLemmas` is what the proofs about sums and sequences rest on. The library's induction
theorems take an operator as a parameter, which the provers cannot instantiate;
`NatInductionOnSet` states induction for a set of numbers instead, and follows from
the well-foundedness of Nat. With it, that the function a recursion of the library
chooses exists and is unique (`SumsExist`, `SumsUnique`, `FlattensExist`, `FlattensAgree`), and
so what `SumFunctionOnSet` and `FlattenSeq` do with one element more or less.

Only model-checked: liveness, which needs ENABLED and fairness. Every safety property
and every refinement that the passing runs check is proved as well.

## Not modelled

- HTTP header rewriting beyond the lines that are added, the splitting of the first
  line (`get_request_head`, `get_response_head`), MIME types, error pages, file
  contents: data.
- TLS beyond a handshake that fails in accept: the state of OpenSSL is not in
  the repository; its WANT_READ and WANT_WRITE masks are left for later.
- The store through a reference to a context that was just popped
  (`proxy_handler.cpp:286`): undefined behaviour that writes one field of a
  destroyed object; it is taken to change nothing else.
- The daemon's own forking and its PID file, before and beside `init`, with the
  PID file that a crash leaves behind and that keeps the next daemon from starting
  (`main.cpp:162`).
- Negative weights in a configuration file, and everything of it that is copied as
  it is (ports, paths, `process_count`, `check_health_time`).
- Time: `connect` blocks the loop and no timeout exists; a blocked worker is one
  that takes no step.
- Logging, except for its lock in the handler of SIGTERM, and the build. With it goes
  `log_access`, which puts a request's URL into an array of 512 bytes by `sprintf`
  (`process.h:19`, `proxy_handler.cpp:364`): a longer URL overflows it, and nothing here
  holds for what follows.
- Trailers behind a last chunk, and contents that the parser leaves in `raw_buffer` and
  that hold an empty line or header fields (`Headless` in `HttpParser`): they would be
  taken for headers of their own.

## Plan

1. The TLS handshake: `HttpsConnHandler` and `HttpsListenHandler` between epoll and
   the handlers of Relay, with the masks that WANT_READ and WANT_WRITE ask for.
2. The composition of Relay with HttpParser for pipelined chunked messages.
3. Larger instances of Lifecycle: workers in every generation and two reloads.
