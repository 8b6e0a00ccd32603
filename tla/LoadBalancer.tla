---------------------------- MODULE LoadBalancer ----------------------------
(***************************************************************************)
(* The load balancer of one listener: get_next_backend and new_backend_fd  *)
(* (src/src/worker.cpp) run by its worker processes, and the master's      *)
(* health check (src/src/master.cpp), on the atomics of a ShmLoadBalancer  *)
(* in shared memory.  No lock protects a pick: every load, store, += and   *)
(* fetch_add of an atomic is a step of its own.                            *)
(*                                                                         *)
(* load_config never assigns LoadBalancerConfig::backend_count, so in a     *)
(* loaded configuration it is 0 however many backends there are; with any  *)
(* other value the module is about get_next_backend for a configuration    *)
(* that is filled in.                                                      *)
(***************************************************************************)
EXTENDS Integers, FiniteSets, Functions

CONSTANTS
  Workers,       \* worker processes, the most a listener has
  ProcessCounts, \* the values of config.process_count
  NumBackends,   \* config.backends.size()
  BackendCounts, \* the values of config.backend_count
  Algorithms,    \* the values of config.algorithm
  Weight,        \* weight of a backend, a function on 0 .. NumBackends - 1
  CheckHealths,  \* the values of config.check_health_time # -1
  IntLimit,      \* INT_MAX + 1
  MaxPicks       \* bound: picks started, by whether health is checked

Backends == 0 .. NumBackends - 1
MaxWorkers == Cardinality(Workers)

ASSUME LoadBalancerAssumption ==
  /\ IsFiniteSet(Workers)
  /\ ProcessCounts \subseteq 1 .. MaxWorkers
  /\ NumBackends \in Nat \ {0}
  /\ BackendCounts \subseteq 0 .. NumBackends
  /\ Algorithms \subseteq {"RoundRobin", "WeightedRoundRobin", "LeastConnections"}
  /\ Weight \in [Backends -> Nat \ {0}]
  /\ CheckHealths \subseteq BOOLEAN
  /\ IntLimit \in Nat \ {0}
  /\ NumBackends <= IntLimit
  /\ MaxPicks \in [BOOLEAN -> Nat]

\* config.total_weight, which load_config adds up.
TotalWeight == SumFunctionOnSet(Weight, Backends)

VARIABLES
  \* the ListenerConfig: of its LoadBalancerConfig, whether health is checked
  algorithm, backend_count, check_health, process_count,
  \* shared memory
  current_index, connections, failed_connections, current_weight, is_healthy,
  \* each worker: where it is, and the locals of get_next_backend
  pc,       \* "idle" between accepts
  config,   \* index of the BackendServerConfig
  stat,     \* index of the BackendStat
  i,        \* loop variable
  value,    \* the value loaded last
  open,     \* open backend connections of a worker, by backend
  killed,   \* the workers that have ended, each where its pc is, and those
            \* that process_count has none of
  \* the master
  mpc, mi, mvalue,
  chld,     \* a SIGCHLD is pending for it
  \* history
  picks,    \* picks started
  due       \* workers that had judged a backend healthy when it was found
            \* down, less the connects to it while it is down

loaded == <<algorithm, backend_count, check_health, process_count>>
shared == <<current_index, connections, failed_connections, current_weight, is_healthy>>
locals == <<config, stat, i, value>>
master == <<mpc, mi, mvalue, chld>>
vars == <<loaded, shared, pc, locals, open, killed, master, picks, due>>

\* Two's complement: what += and fetch_add of an atomic<int> leave.
Wrap(n) == ((n + IntLimit) % (2 * IntLimit)) - IntLimit

CInt == -IntLimit .. IntLimit - 1

TypeOK ==
  /\ algorithm \in Algorithms
  /\ backend_count \in BackendCounts
  /\ check_health \in CheckHealths
  /\ process_count \in ProcessCounts
  /\ current_index \in Backends
  /\ connections \in [Backends -> CInt]
  /\ failed_connections \in [Backends -> CInt]
  /\ current_weight \in [Backends -> CInt]
  /\ is_healthy \in [Backends -> BOOLEAN]
  /\ pc \in [Workers -> {"idle", "stat", "load_index", "store_index", "scan",
                         "weigh", "load", "compare", "judge", "take", "refund",
                         "connect", "failed", "count", "sigfpe"}]
  /\ config \in [Workers -> Backends]
  /\ stat \in [Workers -> Backends]
  /\ i \in [Workers -> 0 .. NumBackends]
  /\ value \in [Workers -> CInt]
  /\ open \in [Workers -> [Backends -> Nat]]
  /\ killed \subseteq Workers
  /\ mpc \in {"sleep", "probe", "store", "pause"}
  /\ mi \in Backends
  /\ mvalue \in BOOLEAN
  /\ chld \in BOOLEAN
  /\ picks \in 0 .. MaxPicks[check_health]
  /\ due \in [Backends -> Int]

\* init_mmap constructs process_count BackendStats, healthy and zero.  The
\* stats of further backends are the zero bytes of a fresh region.
Init ==
  /\ algorithm \in Algorithms
  /\ backend_count \in BackendCounts
  /\ check_health \in CheckHealths
  /\ process_count \in ProcessCounts
  /\ current_index = 0
  /\ connections = [b \in Backends |-> 0]
  /\ failed_connections = [b \in Backends |-> 0]
  /\ current_weight = [b \in Backends |-> 0]
  /\ is_healthy = [b \in Backends |-> b < process_count]
  /\ pc = [w \in Workers |-> "idle"]
  /\ config = [w \in Workers |-> 0]
  /\ stat = [w \in Workers |-> 0]
  /\ i = [w \in Workers |-> 0]
  /\ value = [w \in Workers |-> 0]
  /\ open = [w \in Workers |-> [b \in Backends |-> 0]]
  /\ killed \in SUBSET Workers
  /\ Cardinality(Workers \ killed) = process_count
  /\ mpc = IF check_health THEN "sleep" ELSE "pause"
  /\ mi = 0
  /\ mvalue = FALSE
  /\ chld = FALSE
  /\ picks = 0
  /\ due = [b \in Backends |-> 0]

-----------------------------------------------------------------------------
(* get_next_backend, for the pick of worker w.                             *)

At(w, label) == pc[w] = label /\ w \notin killed
Goto(w, label) == pc' = [pc EXCEPT ![w] = label]

\* The process ends: its sockets are closed, its parent gets SIGCHLD.
End(w) ==
  /\ open' = [open EXCEPT ![w] = [b \in Backends |-> 0]]
  /\ chld' = TRUE
  /\ UNCHANGED <<loaded, shared, locals, mpc, mi, mvalue, picks, due>>

\* accept_new_conn calls new_backend_fd.  Round robin's first load of
\* current_index picks the configuration.
RRConfig(w) ==
  /\ At(w, "idle")
  /\ algorithm = "RoundRobin"
  /\ picks < MaxPicks[check_health]
  /\ picks' = picks + 1
  /\ config' = [config EXCEPT ![w] = current_index]
  /\ Goto(w, "stat")
  /\ UNCHANGED <<loaded, shared, stat, i, value, open, killed, master, due>>

\* Its second load picks the statistics.
RRStat(w) ==
  /\ At(w, "stat")
  /\ stat' = [stat EXCEPT ![w] = current_index]
  /\ Goto(w, "load_index")
  /\ UNCHANGED <<loaded, shared, config, i, value, open, killed, master, picks, due>>

\* Mutant: the index is not taken modulo backend_count.
RRLoadNoModulo(w) ==
  /\ At(w, "load_index")
  /\ backend_count # 0
  /\ value' = [value EXCEPT ![w] = current_index + 1]
  /\ Goto(w, "store_index")
  /\ UNCHANGED <<loaded, shared, config, stat, i, open, killed, master, picks, due>>

\* Its third load computes the successor.  Modulo zero is SIGFPE.
RRLoad(w) ==
  /\ At(w, "load_index")
  /\ backend_count # 0
  /\ value' = [value EXCEPT ![w] = (current_index + 1) % backend_count]
  /\ Goto(w, "store_index")
  /\ UNCHANGED <<loaded, shared, config, stat, i, open, killed, master, picks, due>>

RRDies(w) ==
  /\ At(w, "load_index")
  /\ backend_count = 0
  /\ Goto(w, "sigfpe")
  /\ UNCHANGED killed
  /\ End(w)

RRStore(w) ==
  /\ At(w, "store_index")
  /\ current_index' = value[w]
  /\ Goto(w, "judge")
  /\ UNCHANGED <<loaded, connections, failed_connections, current_weight, is_healthy,
                 locals, open, killed, master, picks, due>>

\* The two scanning algorithms start from backend 0, healthy or not.
ScanFrom0(w) ==
  /\ At(w, "idle")
  /\ picks < MaxPicks[check_health]
  /\ picks' = picks + 1
  /\ config' = [config EXCEPT ![w] = 0]
  /\ stat' = [stat EXCEPT ![w] = 0]
  /\ i' = [i EXCEPT ![w] = 1]
  /\ Goto(w, "scan")
  /\ UNCHANGED <<loaded, current_index, connections, failed_connections, is_healthy,
                 value, open, killed, master, due>>

AddWeight(b, n) == current_weight' = [current_weight EXCEPT ![b] = Wrap(@ + n)]

WRRStart(w) ==
  /\ algorithm = "WeightedRoundRobin"
  /\ AddWeight(0, Weight[0])
  /\ ScanFrom0(w)

LCStart(w) ==
  /\ algorithm = "LeastConnections"
  /\ UNCHANGED current_weight
  /\ ScanFrom0(w)

\* The loop's test, and the load of is_healthy when it goes on.
Scan(w) ==
  /\ At(w, "scan")
  /\ i[w] < backend_count
  /\ IF is_healthy[i[w]]
       THEN /\ Goto(w, IF algorithm = "WeightedRoundRobin" THEN "weigh" ELSE "load")
            /\ UNCHANGED i
       ELSE /\ i' = [i EXCEPT ![w] = @ + 1]
            /\ UNCHANGED pc
  /\ UNCHANGED <<loaded, shared, config, stat, value, open, killed, master, picks, due>>

WRRWeigh(w) ==
  /\ At(w, "weigh")
  /\ AddWeight(i[w], Weight[i[w]])
  /\ Goto(w, "load")
  /\ UNCHANGED <<loaded, current_index, connections, failed_connections, is_healthy,
                 locals, open, killed, master, picks, due>>

\* What the algorithm compares.
Load(b) == IF algorithm = "WeightedRoundRobin" THEN current_weight[b] ELSE connections[b]

\* The comparison loads the candidate's value, then the value of the best.
LoadCandidate(w) ==
  /\ At(w, "load")
  /\ value' = [value EXCEPT ![w] = Load(i[w])]
  /\ Goto(w, "compare")
  /\ UNCHANGED <<loaded, shared, config, stat, i, open, killed, master, picks, due>>

\* Mutant: the best is not replaced.
CompareReversed(w) ==
  /\ At(w, "compare")
  /\ LET best == IF value[w] > Load(stat[w]) THEN i[w] ELSE stat[w]
     IN  /\ config' = [config EXCEPT ![w] = best]
         /\ stat' = [stat EXCEPT ![w] = best]
  /\ i' = [i EXCEPT ![w] = @ + 1]
  /\ Goto(w, "scan")
  /\ UNCHANGED <<loaded, shared, value, open, killed, master, picks, due>>

Compare(w) ==
  /\ At(w, "compare")
  /\ LET best == IF value[w] < Load(stat[w]) THEN i[w] ELSE stat[w]
     IN  /\ config' = [config EXCEPT ![w] = best]
         /\ stat' = [stat EXCEPT ![w] = best]
  /\ i' = [i EXCEPT ![w] = @ + 1]
  /\ Goto(w, "scan")
  /\ UNCHANGED <<loaded, shared, value, open, killed, master, picks, due>>

\* Mutant: the chosen backend is connected to whatever its health.
JudgeBlindly(w) ==
  /\ \/ At(w, "judge")
     \/ At(w, "scan") /\ i[w] >= backend_count
  /\ Goto(w, IF algorithm = "WeightedRoundRobin" THEN "take" ELSE "connect")
  /\ UNCHANGED <<loaded, shared, locals, open, killed, master, picks, due>>

\* The load of is_healthy that decides: after round robin's store, after the
\* loop of the others.
Judge(w) ==
  /\ \/ At(w, "judge")
     \/ At(w, "scan") /\ i[w] >= backend_count
  /\ Goto(w, IF algorithm = "WeightedRoundRobin"
               THEN IF is_healthy[stat[w]] THEN "take" ELSE "refund"
               ELSE IF is_healthy[stat[w]] THEN "connect" ELSE "idle")
  /\ UNCHANGED <<loaded, shared, locals, open, killed, master, picks, due>>

\* Mutant: a chosen backend pays its own weight, not the total.
WRRTakeOwn(w) ==
  /\ At(w, "take")
  /\ AddWeight(stat[w], -Weight[config[w]])
  /\ Goto(w, "connect")
  /\ UNCHANGED <<loaded, current_index, connections, failed_connections, is_healthy,
                 locals, open, killed, master, picks, due>>

WRRTake(w) ==
  /\ At(w, "take")
  /\ AddWeight(stat[w], -TotalWeight)
  /\ Goto(w, "connect")
  /\ UNCHANGED <<loaded, current_index, connections, failed_connections, is_healthy,
                 locals, open, killed, master, picks, due>>

WRRRefund(w) ==
  /\ At(w, "refund")
  /\ AddWeight(stat[w], -Weight[config[w]])
  /\ Goto(w, "idle")
  /\ UNCHANGED <<loaded, current_index, connections, failed_connections, is_healthy,
                 locals, open, killed, master, picks, due>>

-----------------------------------------------------------------------------
(* The rest of new_backend_fd, and the end of a connection.                *)

\* The workers that have judged b healthy and not yet connected.
InFlight(b) == {w \in Workers \ killed : pc[w] \in {"take", "connect"} /\ stat[w] = b}

\* A connect that is not to happen any more, had the backend it goes to been
\* judged now.
CountLate(w) ==
  due' = IF is_healthy[config[w]] THEN due ELSE [due EXCEPT ![config[w]] = @ - 1]

Connects(w) ==
  /\ At(w, "connect")
  /\ open' = [open EXCEPT ![w][config[w]] = @ + 1]
  /\ CountLate(w)
  /\ Goto(w, "count")
  /\ UNCHANGED <<loaded, shared, locals, killed, master, picks>>

ConnectFails(w) ==
  /\ At(w, "connect")
  /\ CountLate(w)
  /\ Goto(w, "failed")
  /\ UNCHANGED <<loaded, shared, locals, open, killed, master, picks>>

\* Mutant: a failed connect returns at once.
CountFailedReturns(w) ==
  /\ At(w, "failed")
  /\ failed_connections' = [failed_connections EXCEPT ![stat[w]] = Wrap(@ + 1)]
  /\ Goto(w, "idle")
  /\ UNCHANGED <<loaded, current_index, connections, current_weight, is_healthy,
                 locals, open, killed, master, picks, due>>

CountFailed(w) ==
  /\ At(w, "failed")
  /\ failed_connections' = [failed_connections EXCEPT ![stat[w]] = Wrap(@ + 1)]
  /\ Goto(w, "count")
  /\ UNCHANGED <<loaded, current_index, connections, current_weight, is_healthy,
                 locals, open, killed, master, picks, due>>

Count(w) ==
  /\ At(w, "count")
  /\ connections' = [connections EXCEPT ![stat[w]] = Wrap(@ + 1)]
  /\ Goto(w, "idle")
  /\ UNCHANGED <<loaded, current_index, failed_connections, current_weight, is_healthy,
                 locals, open, killed, master, picks, due>>

\* Worker::disconnect.  It touches no statistics.
Disconnect(w) ==
  /\ At(w, "idle")
  /\ \E b \in Backends :
       /\ open[w][b] > 0
       /\ open' = [open EXCEPT ![w][b] = @ - 1]
  /\ UNCHANGED <<loaded, shared, pc, locals, killed, master, picks, due>>

\* The worker ends between two steps, of a pick or not: a handler kills it
\* (Worker!EventKills), connect throws (Worker!AcceptKills), or somebody
\* sends SIGKILL.  Nobody starts another, and what its pick has done to the
\* statistics stays.
Dies(w) ==
  /\ w \notin killed
  /\ pc[w] # "sigfpe"
  /\ killed' = killed \cup {w}
  /\ UNCHANGED pc
  /\ End(w)

-----------------------------------------------------------------------------
(* The master: sleep, check_health, then pause until a signal.             *)

MasterWakes ==
  /\ check_health
  /\ mpc = "sleep"
  /\ mi' = 0
  /\ mpc' = "probe"
  /\ UNCHANGED <<loaded, shared, pc, locals, open, killed, mvalue, chld, picks, due>>

\* is_server_healthy: the backend takes the connection, or does not.
MasterProbes ==
  /\ mpc = "probe"
  /\ mvalue' \in BOOLEAN
  /\ mpc' = "store"
  /\ UNCHANGED <<loaded, shared, pc, locals, open, killed, mi, chld, picks, due>>

MasterStores ==
  /\ mpc = "store"
  /\ is_healthy' = [is_healthy EXCEPT ![mi] = mvalue]
  /\ due' = IF mvalue \/ ~is_healthy[mi]
              THEN due
              ELSE [due EXCEPT ![mi] = Cardinality(InFlight(mi))]
  /\ IF mi + 1 < NumBackends
       THEN mi' = mi + 1 /\ mpc' = "probe"
       ELSE mpc' = "pause" /\ UNCHANGED mi
  /\ UNCHANGED <<loaded, current_index, connections, failed_connections, current_weight,
                 pc, locals, open, killed, mvalue, chld, picks>>

\* SIGCHLD cuts sleep short and ends pause; at any other time its handler
\* only reaps.
MasterSignalled ==
  /\ chld
  /\ chld' = FALSE
  /\ mpc' = CASE mpc = "sleep" -> "probe"
             [] mpc = "pause" /\ check_health -> "sleep"
             [] OTHER -> mpc
  /\ mi' = IF mpc = "sleep" THEN 0 ELSE mi
  /\ UNCHANGED <<loaded, shared, pc, locals, open, killed, mvalue, picks, due>>

-----------------------------------------------------------------------------
RoundRobin(w) ==
  RRConfig(w) \/ RRStat(w) \/ RRLoad(w) \/ RRDies(w) \/ RRStore(w)

Scanning(w) ==
  \/ WRRStart(w) \/ LCStart(w) \/ Scan(w) \/ WRRWeigh(w)
  \/ LoadCandidate(w) \/ Compare(w) \/ WRRTake(w) \/ WRRRefund(w)

Pick(w) ==
  \/ RoundRobin(w) \/ Scanning(w) \/ Judge(w)
  \/ Connects(w) \/ ConnectFails(w) \/ CountFailed(w) \/ Count(w)

Master == MasterWakes \/ MasterProbes \/ MasterStores \/ MasterSignalled

Next ==
  \/ \E w \in Workers : Pick(w) \/ Disconnect(w) \/ Dies(w)
  \/ Master

Spec == Init /\ [][Next]_vars

\* Clients keep coming to every worker, and every process is scheduled.
FairSpec ==
  /\ Spec
  /\ WF_vars(Master)
  /\ \A w \in Workers : WF_vars(Pick(w))

-----------------------------------------------------------------------------
(* Properties.                                                             *)

\* The backends a scan can choose while none changes its health: backend 0,
\* and those in the loop whose statistics init_mmap constructed.
Eligible ==
  {b \in Backends : (b = 0 \/ b < backend_count) /\ b < process_count}

\* No backend that a scan looks at is found down: health is not checked, or
\* the scan looks at backend 0 only, as it does with backend_count as loaded.
Steady == ~check_health \/ backend_count <= 1

\* The weights a worker has added in a pick that it has not yet paid for.
Owed(w) ==
  IF pc[w] \in {"scan", "weigh", "load", "compare", "take", "refund"}
    THEN LET last == IF pc[w] \in {"load", "compare"} THEN i[w] ELSE i[w] - 1
         IN  SumFunctionOnSet(Weight, {b \in Eligible : b <= last})
    ELSE 0

\* The picks that were paid for: counted, or about to be.
Paid ==
  SumFunctionOnSet(connections, Backends)
    + Cardinality({w \in Workers : pc[w] \in {"connect", "failed", "count"}})

\* A pick adds the weights of the eligible backends and pays the total.
Overpaid == TotalWeight - SumFunctionOnSet(Weight, Eligible)

\* The books of weighted round robin: however the picks of the workers
\* interleave, wherever workers die and however often current_weight and the
\* counts wrap, the weights sum to what unfinished picks have added less what
\* every paid one paid too much.  That is nothing, and weight is conserved,
\* when the scan reaches all backends; with backend_count as loaded it is all
\* weight but backend 0's, and the sum drifts by that with every connection.
WeightAccounted ==
  algorithm = "WeightedRoundRobin" /\ Steady =>
    Wrap(SumFunctionOnSet(current_weight, Backends)) =
      Wrap(SumFunctionOnSet([w \in Workers |-> Owed(w)], Workers) - Overpaid * Paid)

\* Least connections spreads over the eligible backends and leaves out all
\* others: the workers choose on stale counts, but a count gets no further
\* ahead of that of a later backend than there are workers, and of an earlier
\* one than that for every backend in between.  (A worker compares the best of
\* those before with the next one only: the backend it prefers last may have
\* passed, since, one that lost before.)  With backend_count as loaded only
\* backend 0 is eligible: every connection goes to it, and none is spread.
SpreadBounded ==
  algorithm = "LeastConnections" /\ Steady =>
    /\ \A a, b \in Eligible :
         connections[a] - connections[b] <=
           (IF a < b THEN 1 ELSE NumBackends - 1) * MaxWorkers
    /\ \A b \in Backends \ Eligible : connections[b] = 0

\* The scanning algorithms: once the master has found a backend down, only
\* the workers that had judged it healthy before still connect to it, each
\* once.  (Round robin judges the health of the index it loads second and
\* connects to the one it loaded first: nothing bounds its connects to a
\* backend that is down.)
LateConnectsBounded ==
  algorithm # "RoundRobin" => \A b \in Backends : due[b] >= 0

\* The statistics cover the connections: a backend's open ones are counted,
\* and not counted as failed, except by workers that have not yet done so.
\* (Round robin loads current_index once for the backend it connects to and
\* once for the statistics, and may count for another backend.)
OpenAreCounted ==
  algorithm # "RoundRobin" =>
    \A b \in Backends :
      SumFunctionOnSet([w \in Workers |-> open[w][b]], Workers)
        <= connections[b] - failed_connections[b]
           + Cardinality({w \in Workers : pc[w] \in {"failed", "count"} /\ stat[w] = b})

\* def.h:18-20 name the three ways of spreading connections over the
\* backends: while nobody kills the workers, no backend is left out for ever.
EveryBackendChosen ==
  [](killed = {}) => \A b \in Backends : <>(connections[b] # 0)
=============================================================================
