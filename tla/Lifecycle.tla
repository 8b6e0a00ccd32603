----------------------------- MODULE Lifecycle ------------------------------
(***************************************************************************)
(* The daemon's processes and their signals: the main process              *)
(* (src/src/main.cpp), the listener it forks for every entry of the        *)
(* configuration and every reload, which becomes a master                  *)
(* (init_listener.cpp, master.cpp), and the workers that it forks.         *)
(*                                                                         *)
(* `reload` and `stop` signal the whole process group; the kernel posts    *)
(* the signal to all processes and restarts a fork() that it interrupts,   *)
(* and a process handles it before its next step: kill is one step.  What  *)
(* a worker does with its connections is Worker.tla; here it has some or   *)
(* none.  A listener's region of shared memory is found by the name of the *)
(* server, so all listeners with that name, of any generation or of one    *)
(* configuration, have the same one.                                       *)
(***************************************************************************)
EXTENDS Naturals, FiniteSets

CONSTANTS
  MaxReloads,       \* bound: SIGHUPs sent
  listener_count,   \* by generation: each loads the configuration anew
  server_name,      \* of each listener; nothing makes them differ
  process_count,    \* its workers
  balanced,         \* its backend_type is LOAD_BALANCER; a STATIC one has no backends
  check_health      \* its check_health_time is not -1

Generations == 1 .. MaxReloads + 1
Listeners == UNION {{g} \X (1 .. listener_count[g]) : g \in Generations}
Names == {server_name[l] : l \in Listeners}
Workers == UNION {{l} \X (1 .. process_count[l]) : l \in Listeners}

ASSUME LifecycleAssumption ==
  /\ MaxReloads \in Nat
  /\ listener_count \in [Generations -> Nat]
  /\ DOMAIN server_name = Listeners
  /\ process_count \in [Listeners -> Nat]
  /\ balanced \in [Listeners -> BOOLEAN]
  /\ check_health \in [Listeners -> BOOLEAN]

VARIABLES
  main,         \* where the main process is
  need_reload,  \* its flag
  generation,   \* the number of times reload_config was called
  forked,       \* entries that fork_listeners is done with
  listener,     \* where each listener is
  worker,       \* where each worker is
  needExit,     \* the flag of each listener
  workerExit,   \* the flag of each worker
  busy,         \* the worker has connections
  region,       \* stats in the shared region of each name: whose address, or Null
  reloads,      \* SIGHUPs sent
  asked,        \* history: the generation there was at the last SIGHUP that
                \* main handled
  missed,       \* history: listeners that were sent a SIGHUP while they had
                \* the handlers of the main process
  laid          \* history: the listeners that constructed each region

vars == <<main, need_reload, generation, forked, listener, worker, needExit, workerExit,
          busy, region, reloads, asked, missed, laid>>

Null == <<0, 0>>
Gen(l) == l[1]
ListenerOf(w) == w[1]
WorkersOf(l) == {w \in Workers : ListenerOf(w) = l}

\* "stuck": in the handler of SIGTERM, which logs, while the log is locked.
MainPlace ==
  {"init", "test", "log", "load", "fork", "about", "pause", "exited", "stuck"}
\* "born": with the handlers of the main process, "default": with none.
ListenerPlace ==
  {"none", "born", "default", "map", "null", "fork", "test", "sleep", "probe",
   "about", "pause", "gone", "crashed"}
WorkerPlace ==
  {"none", "start", "check", "enter", "wait", "gone", "crashed"}

Ended == {"none", "gone", "crashed"}
LiveListeners == {l \in Listeners : listener[l] \notin Ended}
LiveWorkers == {w \in Workers : worker[w] \notin Ended}
MainLives == main \notin {"exited", "stuck"}

\* main() with "init", when create_daemon has written the PID file.
Init ==
  /\ main = "init"
  /\ need_reload = TRUE
  /\ generation = 0
  /\ forked = 0
  /\ listener = [l \in Listeners |-> "none"]
  /\ worker = [w \in Workers |-> "none"]
  /\ needExit = [l \in Listeners |-> FALSE]
  /\ workerExit = [w \in Workers |-> FALSE]
  /\ busy = [w \in Workers |-> FALSE]
  /\ region = [n \in Names |-> Null]
  /\ reloads = 0
  /\ asked = 0
  /\ missed = {}
  /\ laid = [n \in Names |-> {}]

\* What a signal with a handler does to a process that sleeps in a call.
MainWoken == IF main = "pause" THEN "test" ELSE main

\* Mutant: no handler, so nothing ends the master's pause().
ListenerWokenFromSleep(l) ==
  IF listener[l] = "sleep" THEN "probe" ELSE listener[l]

ListenerWoken(l) ==
  CASE listener[l] = "sleep" -> "probe"
    [] listener[l] = "pause" -> "test"
    [] OTHER -> listener[l]

(***************************************************************************)
(* The main process: init and reload_config.                               *)
(***************************************************************************)
MainOnly == UNCHANGED <<listener, worker, needExit, workerExit, busy, region, reloads,
                        asked, missed, laid>>

\* setup_logger may fail.
MainStarts ==
  /\ main = "init"
  /\ main' \in {"test", "exited"}
  /\ MainOnly /\ UNCHANGED <<need_reload, generation, forked>>

MainTests ==
  /\ main = "test"
  /\ IF need_reload
     THEN main' = "log" /\ generation' = generation + 1
     ELSE main' = "about" /\ UNCHANGED generation
  /\ forked' = 0
  /\ MainOnly /\ UNCHANGED need_reload

MainLogged ==
  /\ main = "log"
  /\ main' = "load"
  /\ MainOnly /\ UNCHANGED <<need_reload, generation, forked>>

\* load_config may fail or crash; the generations before live on.
MainLoads ==
  /\ main = "load"
  /\ main' \in {"fork", "exited"}
  /\ MainOnly /\ UNCHANGED <<need_reload, generation, forked>>

\* Mutant: i <= listener_count.
MainForksOneMore ==
  /\ main = "fork"
  /\ forked <= listener_count[generation]
  /\ forked' = forked + 1
  /\ MainOnly /\ UNCHANGED <<main, need_reload, generation>>

\* fork_listeners, one listener.
MainForks ==
  LET l == <<generation, forked + 1>>
  IN /\ main = "fork"
     /\ forked < listener_count[generation]
     /\ \/ /\ listener' = [listener EXCEPT ![l] = "born"]
           /\ forked' = forked + 1
           /\ UNCHANGED main
        \/ /\ main' = "exited"
           /\ UNCHANGED <<listener, forked>>
     /\ UNCHANGED <<need_reload, generation, worker, needExit, workerExit, busy, region,
                    reloads, asked, missed, laid>>

MainReloaded ==
  /\ main = "fork"
  /\ forked = listener_count[generation]
  /\ need_reload' = FALSE
  /\ main' = "about"
  /\ MainOnly /\ UNCHANGED <<generation, forked>>

MainPauses ==
  /\ main = "about"
  /\ main' = "pause"
  /\ MainOnly /\ UNCHANGED <<need_reload, generation, forked>>

MainSteps ==
  \/ MainStarts \/ MainTests \/ MainLogged \/ MainLoads \/ MainForks
  \/ MainReloaded \/ MainPauses

(***************************************************************************)
(* A listener: the child in fork_listeners, start_listener, master_loop.   *)
(***************************************************************************)
ListenerOnly == UNCHANGED <<need_reload, generation, forked, worker, needExit, workerExit,
                            busy, reloads, asked, missed>>

\* Its end is a SIGCHLD for the main process.
ListenerEnds(l, how) ==
  /\ listener' = [listener EXCEPT ![l] = how]
  /\ main' = MainWoken

ListenerMoves(l, from, to) ==
  /\ listener[l] = from
  /\ listener' = [listener EXCEPT ![l] = to]
  /\ UNCHANGED main

SetsDefaults(l) ==
  ListenerMoves(l, "born", "default") /\ ListenerOnly /\ UNCHANGED <<region, laid>>

SetsHandler(l) ==
  ListenerMoves(l, "default", "map") /\ ListenerOnly /\ UNCHANGED <<region, laid>>

\* init_mmap: shm_open, ftruncate or mmap fails, and no result is looked at: the
\* constructor writes where nothing is mapped.
MapFails(l) ==
  /\ listener[l] = "map"
  /\ ListenerEnds(l, "gone")
  /\ ListenerOnly /\ UNCHANGED <<region, laid>>

\* ... or the constructor of ShmLoadBalancer, then stats.
Constructs(l) ==
  /\ ListenerMoves(l, "map", "null")
  /\ region' = [region EXCEPT ![server_name[l]] = Null]
  /\ laid' = [laid EXCEPT ![server_name[l]] = @ \cup {l}]
  /\ ListenerOnly

\* Mutant: line 47 is missing.
SetsNoStats(l) ==
  ListenerMoves(l, "null", "fork") /\ ListenerOnly /\ UNCHANGED <<region, laid>>

SetsStats(l) ==
  /\ ListenerMoves(l, "null", "fork")
  /\ region' = [region EXCEPT ![server_name[l]] = l]
  /\ ListenerOnly /\ UNCHANGED laid

Unforked(l) == {k \in 1 .. process_count[l] : worker[<<l, k>>] = "none"}

\* Mutant: the child begins with needExit = false.
ForksFreshWorker(l) ==
  \E k \in Unforked(l) :
    /\ listener[l] = "fork"
    /\ worker' = [worker EXCEPT ![<<l, k>>] = "start"]
    /\ UNCHANGED <<main, need_reload, generation, forked, listener, needExit, workerExit,
                   busy, region, reloads, asked, missed, laid>>

\* A fork that fails is not noticed.
ForksWorker(l) ==
  \E k \in Unforked(l) :
    /\ listener[l] = "fork"
    /\ \A j \in Unforked(l) : k <= j
    /\ worker' \in {[worker EXCEPT ![<<l, k>>] = place] : place \in {"start", "gone"}}
    /\ workerExit' = [workerExit EXCEPT ![<<l, k>>] = needExit[l]]
    /\ UNCHANGED <<main, need_reload, generation, forked, listener, needExit, busy,
                   region, reloads, asked, missed, laid>>

HasForked(l) ==
  /\ Unforked(l) = {}
  /\ ListenerMoves(l, "fork", "test")
  /\ ListenerOnly /\ UNCHANGED <<region, laid>>

MasterTests(l) ==
  /\ listener[l] = "test"
  /\ IF needExit[l]
     THEN ListenerEnds(l, "gone")
     ELSE ListenerMoves(l, "test", IF check_health[l] THEN "sleep" ELSE "about")
  /\ ListenerOnly /\ UNCHANGED <<region, laid>>

MasterSlept(l) ==
  ListenerMoves(l, "sleep", "probe") /\ ListenerOnly /\ UNCHANGED <<region, laid>>

\* What may come of following stats, as one with backends does: the address that
\* another listener put there may or may not be mapped in this process.
MaySurvive(l) == balanced[l] => region[server_name[l]] # Null
MayCrash(l) == balanced[l] /\ region[server_name[l]] # l

MasterProbes(l) ==
  /\ listener[l] = "probe"
  /\ \/ /\ MaySurvive(l)
        /\ ListenerMoves(l, "probe", "about")
     \/ /\ MayCrash(l)
        /\ ListenerEnds(l, "crashed")
  /\ ListenerOnly /\ UNCHANGED <<region, laid>>

MasterPauses(l) ==
  ListenerMoves(l, "about", "pause") /\ ListenerOnly /\ UNCHANGED <<region, laid>>

ListenerSteps(l) ==
  \/ SetsDefaults(l) \/ SetsHandler(l) \/ MapFails(l) \/ Constructs(l) \/ SetsStats(l)
  \/ ForksWorker(l) \/ HasForked(l)
  \/ MasterTests(l) \/ MasterSlept(l) \/ MasterProbes(l) \/ MasterPauses(l)

(***************************************************************************)
(* A worker: startup, and worker_loop with SIGHUP's view of it.            *)
(***************************************************************************)
WorkerOnly == UNCHANGED <<main, need_reload, generation, forked, needExit, workerExit,
                          region, reloads, asked, missed, laid>>

\* Its end is a SIGCHLD for its master, once that has a handler.
WorkerEnds(w, how) ==
  LET l == ListenerOf(w)
  IN /\ worker' = [worker EXCEPT ![w] = how]
     /\ listener' = [listener EXCEPT ![l] = ListenerWoken(l)]
     /\ busy' = [busy EXCEPT ![w] = FALSE]

WorkerStarts(w) ==
  /\ worker[w] = "start"
  /\ \/ /\ worker' = [worker EXCEPT ![w] = "check"]
        /\ UNCHANGED <<listener, busy>>
     \/ WorkerEnds(w, "gone")
  /\ WorkerOnly

WorkerTests(w) ==
  /\ worker[w] = "check"
  /\ IF workerExit[w] /\ ~ busy[w]
     THEN WorkerEnds(w, "gone")
     ELSE /\ worker' = [worker EXCEPT ![w] = "enter"]
          /\ UNCHANGED <<listener, busy>>
  /\ WorkerOnly

WorkerWaits(w) ==
  /\ worker[w] = "enter"
  /\ worker' = [worker EXCEPT ![w] = "wait"]
  /\ UNCHANGED <<listener, busy>> /\ WorkerOnly

\* Events of its connections, the last of which may be closed by them.
WorkerServes(w, after) ==
  /\ worker[w] = "wait"
  /\ busy[w]
  /\ busy' = [busy EXCEPT ![w] = after]
  /\ worker' = [worker EXCEPT ![w] = "check"]
  /\ UNCHANGED listener /\ WorkerOnly

\* One of its connections is the end of it (Worker.tla).
WorkerDies(w) ==
  /\ worker[w] = "wait"
  /\ WorkerEnds(w, "gone")
  /\ WorkerOnly

\* A client, for which a balanced listener picks a backend.
WorkerAccepts(w) ==
  /\ worker[w] = "wait"
  /\ \/ /\ MaySurvive(ListenerOf(w))
        /\ busy' = [busy EXCEPT ![w] = TRUE]
        /\ worker' = [worker EXCEPT ![w] = "check"]
        /\ UNCHANGED listener
     \/ /\ MayCrash(ListenerOf(w))
        /\ WorkerEnds(w, "crashed")
  /\ WorkerOnly

WorkerSteps(w) ==
  \/ WorkerStarts(w) \/ WorkerTests(w) \/ WorkerWaits(w)
  \/ (\E after \in BOOLEAN : WorkerServes(w, after))
  \/ WorkerDies(w) \/ WorkerAccepts(w)

(***************************************************************************)
(* send_signal_to_daemon: "reload" and "stop".  Both work as long as the   *)
(* PID file is there, whoever is left of the group.                        *)
(***************************************************************************)
\* Mutant: SIGHUP is noted only once the workers have been forked.
HandlerAfterForks(l) ==
  listener[l] \in {"test", "sleep", "probe", "about", "pause"}

HasHandler(l) == listener[l] \notin {"born", "default"}

Reload ==
  /\ reloads < MaxReloads
  /\ main # "stuck"
  /\ reloads' = reloads + 1
  /\ main' = IF main = "init" THEN "exited" ELSE MainWoken
  /\ IF MainLives /\ main # "init"
     THEN need_reload' = TRUE /\ asked' = generation
     ELSE UNCHANGED <<need_reload, asked>>
  /\ missed' = missed \cup {l \in Listeners : listener[l] = "born"}
  /\ listener' = [l \in Listeners |->
       IF listener[l] = "default" THEN "gone" ELSE ListenerWoken(l)]
  /\ worker' = [w \in Workers |->
       IF worker[w] = "wait" THEN "check" ELSE worker[w]]
  /\ needExit' = [l \in Listeners |->
       needExit[l] \/ (l \in LiveListeners /\ HasHandler(l))]
  /\ workerExit' = [w \in Workers |-> workerExit[w] \/ w \in LiveWorkers]
  /\ UNCHANGED <<generation, forked, busy, region, laid>>

\* main's handler removes the PID file and logs, as reload_config and load_config
\* do; a listener that still has that handler exits as well, and the others have
\* none.
Stop ==
  /\ MainLives \/ LiveListeners # {} \/ LiveWorkers # {}
  /\ main # "stuck"
  /\ main' \in IF main \in {"log", "load"} THEN {"stuck", "exited"} ELSE {"exited"}
  /\ listener' = [l \in Listeners |->
       IF l \in LiveListeners THEN "gone" ELSE listener[l]]
  /\ worker' = [w \in Workers |->
       IF w \in LiveWorkers THEN "gone" ELSE worker[w]]
  /\ busy' = [w \in Workers |-> FALSE]
  /\ UNCHANGED <<need_reload, generation, forked, needExit, workerExit, region, reloads,
                 asked, missed, laid>>

Next ==
  \/ MainSteps
  \/ \E l \in Listeners : ListenerSteps(l)
  \/ \E w \in Workers : WorkerSteps(w)
  \/ Reload
  \/ Stop

Spec == Init /\ [][Next]_vars

\* Every process is scheduled; a worker's clients finish in the end.
FairSpec ==
  /\ Spec
  /\ WF_vars(MainSteps)
  /\ \A l \in Listeners : WF_vars(ListenerSteps(l))
  /\ \A w \in Workers :
       /\ WF_vars(WorkerStarts(w) \/ WorkerTests(w) \/ WorkerWaits(w))
       /\ SF_vars(WorkerServes(w, FALSE))
-----------------------------------------------------------------------------
\* Every variable has its type; no generation without a request for it.
TypeOK ==
  /\ main \in MainPlace
  /\ need_reload \in BOOLEAN
  /\ reloads \in 0 .. MaxReloads
  /\ generation \in 0 .. reloads + 1
  /\ forked \in 0 .. (IF generation = 0 THEN 0 ELSE listener_count[generation])
  /\ listener \in [Listeners -> ListenerPlace]
  /\ worker \in [Workers -> WorkerPlace]
  /\ needExit \in [Listeners -> BOOLEAN]
  /\ workerExit \in [Workers -> BOOLEAN]
  /\ busy \in [Workers -> BOOLEAN]
  /\ region \in [Names -> Listeners \cup {Null}]
  /\ asked \in 0 .. generation
  /\ missed \subseteq Listeners
  /\ laid \in [Names -> SUBSET Listeners]

\* A worker is told to exit exactly when its master is, also one that is forked
\* by a master already told, and one whose master has exited: no worker outlives
\* a reload untold, and none is told by itself.  A master that crashed is not
\* told what its workers are.
WorkersFollowMaster ==
  \A w \in LiveWorkers :
    \/ workerExit[w] = needExit[ListenerOf(w)]
    \/ listener[ListenerOf(w)] = "crashed"

\* Once reload_config is called again, every listener and worker of an earlier
\* generation drains: two generations never both mean to stay.  The exception
\* is a listener that got SIGHUP before it replaced main's handlers.
OldGenerationsTold ==
  /\ \A l \in LiveListeners :
       Gen(l) < generation => needExit[l] \/ l \in missed
  /\ \A w \in LiveWorkers :
       Gen(ListenerOf(w)) < generation => workerExit[w] \/ ListenerOf(w) \in missed

\* Following stats is fatal only if another listener has constructed the region of
\* the same name, one of another generation or one that the same configuration
\* names alike.
Shared(l) == laid[server_name[l]] \ {l} # {}
CrashNeedsTwoListeners ==
  /\ \A l \in Listeners : listener[l] = "crashed" => Shared(l)
  /\ \A w \in Workers : worker[w] = "crashed" => Shared(ListenerOf(w))

\* A worker idle in epoll_wait although told (see Worker.tla).
Idle(w) == worker[w] = "wait" /\ workerExit[w] /\ ~ busy[w]

\* A master that was told between its loop's test and pause() is woken by the
\* end of a worker that lived then, and exits; it stays only with a worker
\* that is idle for ever itself.
LastWorkerWakesMaster ==
  \A l \in Listeners :
    (/\ listener[l] = "pause"
     /\ needExit[l]
     /\ WorkersOf(l) \cap LiveWorkers # {})
      ~> (listener[l] \in Ended \/ \E w \in WorkersOf(l) : Idle(w))

\* main.cpp:18 calls need_reload "set reload": every request that main has
\* handled leads to a generation that is newer than the request, or main ends.
ReloadServed ==
  \A g \in Generations :
    (MainLives /\ asked = g) ~> (generation > g \/ ~ MainLives)
=============================================================================
