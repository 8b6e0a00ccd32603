--------------------------- MODULE LifecycleProofs ---------------------------
(***************************************************************************)
(* Proofs about Lifecycle: for any number of reloads, listeners and        *)
(* workers, and any configuration of each generation, a worker is told     *)
(* with its master, an old generation drains, and only a second listener   *)
(* of the same name makes the shared region fatal.                         *)
(***************************************************************************)
EXTENDS Lifecycle, TLAPS

Resting == {"init", "test", "about", "pause"}
Loading == {"log", "load", "fork"}
Mapped == {"fork", "test", "sleep", "probe", "about", "pause"}

\* A generation is loaded for a request that no other was loaded for.
GenerationsAsked ==
  /\ main \in Resting /\ need_reload => generation <= reloads
  /\ main \in Loading => generation > 0
  /\ main = "init" => generation = 0

\* No listener comes before its generation.
ListenersLoaded == \A l \in Listeners : listener[l] # "none" => Gen(l) <= generation

\* The listeners that the loop of fork_listeners has yet to fork do not exist.
Unborn ==
  main \in Loading =>
    \A e \in 1 .. listener_count[generation] :
      e > forked => listener[<<generation, e>>] = "none"

\* A master has laid its region before it forks.
WorkersForked ==
  \A w \in Workers :
    worker[w] # "none" => listener[ListenerOf(w)] \in Mapped \cup {"gone", "crashed"}

\* A master whose workers live exits only when told.
GoneWasTold ==
  \A w \in LiveWorkers :
    listener[ListenerOf(w)] = "gone" => needExit[ListenerOf(w)]

Told(l) == needExit[l] \/ l \in missed
WorkerTold(w) == workerExit[w] \/ ListenerOf(w) \in missed

\* While a request waits for the main process, everyone has been told.
RequestTellsAll ==
  main \in Resting /\ need_reload =>
    /\ \A l \in LiveListeners : Told(l)
    /\ \A w \in LiveWorkers : WorkerTold(w)

\* A listener that has laid its region finds its own address, unless it is
\* shared with another one.
Own(l) == region[server_name[l]] = l \/ Shared(l)
RegionOwn ==
  \A l \in Listeners :
    /\ listener[l] \in Mapped => Own(l)
    /\ listener[l] = "crashed" => Shared(l)

\* The same of the workers, also of those that have outlived their master.
RegionOfWorkers ==
  \A w \in Workers :
    /\ worker[w] # "none" => Own(ListenerOf(w))
    /\ worker[w] = "crashed" => Shared(ListenerOf(w))

\* Who has laid a region is known.
RegionLaid ==
  \A l \in Listeners :
    listener[l] \in Mapped \cup {"null", "crashed"} => l \in laid[server_name[l]]
LaidOfWorkers ==
  \A w \in Workers : worker[w] # "none" => ListenerOf(w) \in laid[server_name[ListenerOf(w)]]

TypeInv == TypeOK /\ GenerationsAsked /\ ListenersLoaded /\ Unborn
ForkInv == WorkersForked /\ GoneWasTold /\ WorkersFollowMaster
ToldInv == RequestTellsAll /\ OldGenerationsTold
RegionInv == RegionOwn /\ RegionOfWorkers /\ RegionLaid /\ LaidOfWorkers

IInv == TypeInv /\ ForkInv /\ ToldInv /\ RegionInv

-----------------------------------------------------------------------------
(* Facts about the constants.                                              *)

LEMMA ListenersAre ==
  /\ \A l \in Listeners :
       /\ Gen(l) \in Generations /\ Gen(l) \in Nat /\ Gen(l) > 0
       /\ server_name[l] \in Names /\ process_count[l] \in Nat
       /\ balanced[l] \in BOOLEAN /\ check_health[l] \in BOOLEAN
       /\ l # Null
  /\ \A g \in Generations : \A e \in 1 .. listener_count[g] :
       <<g, e>> \in Listeners /\ Gen(<<g, e>>) = g
<1>1. \A l \in Listeners : \E g \in Generations : \E e \in 1 .. listener_count[g] : l = <<g, e>>
  BY DEF Listeners
<1>2. \A g \in Generations : g \in Nat /\ g > 0
  BY LifecycleAssumption DEF Generations
<1>3. \A l \in Listeners : Gen(l) \in Generations /\ Gen(l) \in Nat /\ Gen(l) > 0 /\ l # Null
  BY <1>1, <1>2 DEF Gen, Null
<1>4. \A l \in Listeners :
        /\ server_name[l] \in Names /\ process_count[l] \in Nat
        /\ balanced[l] \in BOOLEAN /\ check_health[l] \in BOOLEAN
  BY LifecycleAssumption DEF Names
<1>5. \A g \in Generations : \A e \in 1 .. listener_count[g] :
        <<g, e>> \in Listeners /\ Gen(<<g, e>>) = g
  BY DEF Listeners, Gen
<1> QED BY <1>3, <1>4, <1>5

LEMMA WorkersAre ==
  /\ \A w \in Workers : ListenerOf(w) \in Listeners
  /\ \A l \in Listeners : \A k \in 1 .. process_count[l] :
       <<l, k>> \in Workers /\ ListenerOf(<<l, k>>) = l
BY DEF Workers, ListenerOf

LEMMA BoundsAre ==
  /\ MaxReloads \in Nat
  /\ \A g \in Generations : g \in Nat /\ g > 0 /\ g <= MaxReloads + 1 /\ listener_count[g] \in Nat
  /\ \A g \in Nat : g > 0 /\ g <= MaxReloads + 1 => g \in Generations
BY LifecycleAssumption DEF Generations

\* A signal moves a master only within its loop.
LEMMA Woken ==
  \A l \in Listeners :
    /\ listener[l] \notin {"sleep", "pause"} => ListenerWoken(l) = listener[l]
    /\ listener[l] \in {"sleep", "pause"} => ListenerWoken(l) \in {"probe", "test"}
BY DEF ListenerWoken

\* The worker that a master forks, and what it begins with.
LEMMA Forked ==
  ASSUME TypeOK, NEW l \in Listeners, ForksWorker(l)
  PROVE  \E w \in Workers, place \in {"start", "gone"} :
           /\ ListenerOf(w) = l
           /\ listener[l] = "fork"
           /\ worker' = [worker EXCEPT ![w] = place]
           /\ workerExit' = [workerExit EXCEPT ![w] = needExit[l]]
           /\ UNCHANGED <<main, need_reload, generation, forked, listener, needExit, busy,
                          region, reloads, asked, missed, laid>>
<1>1. PICK k \in Unforked(l) :
        /\ listener[l] = "fork"
        /\ worker' \in {[worker EXCEPT ![<<l, k>>] = place] : place \in {"start", "gone"}}
        /\ workerExit' = [workerExit EXCEPT ![<<l, k>>] = needExit[l]]
        /\ UNCHANGED <<main, need_reload, generation, forked, listener, needExit, busy,
                       region, reloads, asked, missed, laid>>
  BY DEF ForksWorker
<1>2. <<l, k>> \in Workers /\ ListenerOf(<<l, k>>) = l
  BY WorkersAre DEF Unforked
<1>3. PICK place \in {"start", "gone"} : worker' = [worker EXCEPT ![<<l, k>>] = place]
  BY <1>1
<1> QED BY <1>1, <1>2, <1>3

\* What a step of a worker does, seen from outside: it moves, and when it ends
\* its master may wake.
LEMMA WorkerMoves ==
  ASSUME TypeOK, NEW w \in Workers, WorkerSteps(w)
  PROVE  \E to \in {"check", "enter", "wait", "gone", "crashed"} :
           /\ worker[w] \in {"start", "check", "enter", "wait"}
           /\ worker' = [worker EXCEPT ![w] = to]
           /\ \/ listener' = listener
              \/ listener' = [listener EXCEPT ![ListenerOf(w)] = ListenerWoken(ListenerOf(w))]
           /\ to = "crashed" => MayCrash(ListenerOf(w))
           /\ busy' \in [Workers -> BOOLEAN]
           /\ WorkerOnly
<1>1. CASE WorkerStarts(w)
  BY <1>1 DEF TypeOK, WorkerStarts, WorkerEnds
<1>2. CASE WorkerTests(w)
  BY <1>2 DEF TypeOK, WorkerTests, WorkerEnds
<1>3. CASE WorkerWaits(w)
  BY <1>3 DEF TypeOK, WorkerWaits
<1>4. ASSUME NEW after \in BOOLEAN, WorkerServes(w, after)
      PROVE  /\ worker[w] = "wait" /\ worker' = [worker EXCEPT ![w] = "check"]
             /\ listener' = listener
             /\ busy' \in [Workers -> BOOLEAN]
             /\ WorkerOnly
  BY <1>4 DEF TypeOK, WorkerServes
<1>5. CASE WorkerAccepts(w)
  BY <1>5 DEF TypeOK, WorkerAccepts, WorkerEnds
<1>6. CASE WorkerDies(w)
  BY <1>6 DEF TypeOK, WorkerDies, WorkerEnds
<1> QED BY <1>1, <1>2, <1>3, <1>4, <1>5, <1>6 DEF WorkerSteps

\* A step of a listener that forks no worker: it moves; once it has workers it is
\* gone only when told, and crashes only on an address that is not its own.
LEMMA ListenerMovesOn ==
  ASSUME TypeOK, NEW l \in Listeners, ListenerSteps(l), ~ ForksWorker(l)
  PROVE  \E to \in ListenerPlace :
           /\ listener' = [listener EXCEPT ![l] = to]
           /\ \/ listener[l] = "born" /\ to = "default"
              \/ listener[l] = "default" /\ to = "map"
              \/ listener[l] = "map" /\ to = "gone"
              \/ listener[l] = "map" /\ to = "null" /\ Constructs(l)
              \/ listener[l] = "null" /\ to = "fork" /\ SetsStats(l)
              \/ listener[l] \in Mapped /\ to \in Mapped
              \/ listener[l] \in Mapped /\ to = "gone" /\ needExit[l]
              \/ listener[l] \in Mapped /\ to = "crashed" /\ MayCrash(l)
           /\ main' \in {main, MainWoken}
           /\ ListenerOnly
           /\ UNCHANGED <<region, laid>> \/ Constructs(l) \/ SetsStats(l)
<1> USE DEF Mapped, ListenerPlace, ListenerMoves
<1>1. CASE SetsDefaults(l)
  BY <1>1 DEF SetsDefaults
<1>2. CASE SetsHandler(l)
  BY <1>2 DEF SetsHandler
<1>3. CASE Constructs(l)
  BY <1>3 DEF Constructs
<1>4. CASE SetsStats(l)
  BY <1>4 DEF SetsStats
<1>5. CASE HasForked(l) \/ MasterSlept(l) \/ MasterPauses(l)
  BY <1>5 DEF HasForked, MasterSlept, MasterPauses
<1>6. CASE MasterTests(l)
  BY <1>6 DEF MasterTests, ListenerEnds
<1>7. CASE MasterProbes(l)
  BY <1>7 DEF MasterProbes, ListenerEnds
<1>8. CASE MapFails(l)
  BY <1>8 DEF MapFails, ListenerEnds
<1> QED BY <1>1, <1>2, <1>3, <1>4, <1>5, <1>6, <1>7, <1>8 DEF ListenerSteps

-----------------------------------------------------------------------------
(* The types, and the number of generations.                               *)

LEMMA InitInv == Init => IInv
<1> SUFFICES ASSUME Init PROVE IInv
  OBVIOUS
<1>1. TypeInv
  BY BoundsAre DEF Init, TypeInv, TypeOK, GenerationsAsked, ListenersLoaded, Unborn, MainPlace,
    ListenerPlace, WorkerPlace, Resting, Loading
<1>2. LiveListeners = {} /\ LiveWorkers = {}
  BY DEF Init, LiveListeners, LiveWorkers, Ended
<1>3. ForkInv /\ ToldInv
  BY <1>2, WorkersAre DEF Init, ForkInv, ToldInv, WorkersForked, GoneWasTold, WorkersFollowMaster,
    RequestTellsAll, OldGenerationsTold
<1>4. RegionInv
  BY WorkersAre DEF Init, RegionInv, RegionOwn, RegionOfWorkers, RegionLaid, LaidOfWorkers, Mapped
<1> QED BY <1>1, <1>3, <1>4 DEF IInv

LEMMA TypeStep == TypeInv /\ [Next]_vars => TypeInv'
<1> SUFFICES ASSUME TypeInv, [Next]_vars PROVE TypeInv'
  OBVIOUS
<1> USE DEF TypeInv, TypeOK, GenerationsAsked, ListenersLoaded, Unborn, Resting, Loading
<1>0. main \in Loading =>
        /\ generation \in Generations /\ generation # 0 /\ listener_count[generation] \in Nat
        /\ \A e \in 1 .. listener_count[generation] : <<generation, e>> \in Listeners
  BY BoundsAre, ListenersAre
<1>1. CASE MainStarts
  BY <1>1, BoundsAre DEF MainStarts, MainOnly, MainPlace
<1>2. CASE MainTests
  <2>1. generation \in Nat
    OBVIOUS
  <2>2. /\ generation' \in {generation, generation + 1} /\ forked' = 0
        /\ generation' = generation \/ need_reload
    BY <1>2, <2>1 DEF MainTests, MainOnly
  <2>3. need_reload => generation <= reloads
    BY <1>2 DEF MainTests
  <2>4. generation' \in 0 .. reloads + 1
    BY <2>1, <2>2, <2>3
  <2>5. generation' = 0 \/ listener_count[generation'] \in Nat
    BY <2>4, BoundsAre
  <2>6. forked' \in 0 .. (IF generation' = 0 THEN 0 ELSE listener_count[generation'])
    BY <2>2, <2>5
  <2> QED BY <1>2, <2>1, <2>2, <2>4, <2>6, BoundsAre, ListenersAre DEF MainTests, MainOnly, MainPlace
<1>3. CASE MainLogged \/ MainLoads \/ MainPauses
  BY <1>3 DEF MainLogged, MainLoads, MainPauses, MainOnly, MainPlace
<1>4. CASE MainForks
  <2> DEFINE l == <<generation, forked + 1>>
  <2>1. main = "fork" /\ forked < listener_count[generation]
    BY <1>4 DEF MainForks
  <2>2. l \in Listeners /\ Gen(l) = generation
    BY <1>0, <2>1, ListenersAre
  <2>3. listener' = [listener EXCEPT ![l] = "born"] \/ listener' = listener
    BY <1>4 DEF MainForks
  <2>4. /\ main' \in {main, "exited"} /\ forked' \in 0 .. listener_count[generation]
        /\ UNCHANGED <<need_reload, generation, worker, needExit, workerExit, busy, region,
                       reloads, asked, missed, laid>>
    BY <1>0, <1>4, <2>1 DEF MainForks
  <2>5. \A e \in 1 .. listener_count[generation] : e > forked + 1 => <<generation, e>> # l
    BY <1>0, <2>1
  <2>6. Unborn'
    BY <1>0, <1>4, <2>1, <2>2, <2>3, <2>5 DEF MainForks
  <2> QED BY <1>0, <2>1, <2>2, <2>3, <2>4, <2>6 DEF MainPlace, ListenerPlace
<1>5. CASE MainReloaded
  BY <1>5 DEF MainReloaded, MainOnly, MainPlace
<1>6. ASSUME NEW l \in Listeners, ListenerSteps(l) PROVE TypeInv'
  <2>1. CASE ForksWorker(l)
    BY <2>1, Forked DEF WorkerPlace
  <2>2. CASE ~ ForksWorker(l)
    <3>1. /\ listener' \in [Listeners -> ListenerPlace]
          /\ \A k \in Listeners : listener'[k] # "none" => listener[k] # "none"
      BY <1>6, <2>2, ListenerMovesOn DEF Mapped
    <3>2. main' \in {main, MainWoken} /\ ListenerOnly
      BY <1>6, <2>2, ListenerMovesOn
    <3>3. server_name[l] \in Names
      BY ListenersAre
    <3>4. /\ region' \in [Names -> Listeners \cup {Null}]
          /\ laid' \in [Names -> SUBSET Listeners]
      BY <1>6, <2>2, <3>3, ListenerMovesOn DEF Constructs, SetsStats
    <3> QED BY <1>0, <3>1, <3>2, <3>4 DEF MainWoken, MainPlace, ListenerOnly
  <2> QED BY <2>1, <2>2
<1>7. ASSUME NEW w \in Workers, WorkerSteps(w) PROVE TypeInv'
  <2>1. ListenerOf(w) \in Listeners
    BY WorkersAre
  <2>2. /\ listener' \in [Listeners -> ListenerPlace]
        /\ \A l \in Listeners : listener'[l] # "none" => listener[l] # "none"
    BY <1>7, <2>1, Woken, WorkerMoves DEF ListenerPlace
  <2>3. worker' \in [Workers -> WorkerPlace] /\ busy' \in [Workers -> BOOLEAN] /\ WorkerOnly
    BY <1>7, WorkerMoves DEF WorkerPlace
  <2> QED BY <1>0, <2>2, <2>3 DEF WorkerOnly
<1>8. CASE Reload
  <2>1. listener' \in [Listeners -> ListenerPlace]
    BY <1>8, Woken DEF Reload, ListenerPlace
  <2>2. \A l \in Listeners : listener'[l] # "none" => listener[l] # "none"
    BY <1>8, Woken DEF Reload, ListenerPlace
  <2>3. /\ worker' \in [Workers -> WorkerPlace]
        /\ needExit' \in [Listeners -> BOOLEAN]
        /\ workerExit' \in [Workers -> BOOLEAN]
    BY <1>8 DEF Reload, WorkerPlace
  <2>4. /\ main' \in {"exited", "test", main}
        /\ main = "init" => main' = "exited"
        /\ main' = "test" => main \in {"test", "pause"}
    BY <1>8 DEF Reload, MainWoken
  <2>5. missed' \subseteq Listeners /\ asked' \in {asked, generation} /\ need_reload' \in BOOLEAN
    BY <1>8 DEF Reload
  <2>6. /\ reloads < MaxReloads /\ reloads' = reloads + 1
        /\ UNCHANGED <<generation, forked, busy, region, laid>>
    BY <1>8 DEF Reload
  <2> QED BY <1>0, <2>1, <2>2, <2>3, <2>4, <2>5, <2>6, BoundsAre, ListenersAre DEF MainPlace
<1>9. CASE Stop
  BY <1>9 DEF Stop, MainPlace, ListenerPlace, WorkerPlace, LiveListeners, LiveWorkers, Ended
<1>10. CASE UNCHANGED vars
  BY <1>10 DEF vars
<1> QED BY <1>1, <1>2, <1>3, <1>4, <1>5, <1>6, <1>7, <1>8, <1>9, <1>10 DEF Next, MainSteps

-----------------------------------------------------------------------------
(* Masters and their workers.                                              *)

\* A reload: who lives has been told, or has missed it.
LEMMA ReloadTells ==
  ASSUME TypeOK, Reload
  PROVE  /\ \A l \in Listeners :
              \/ listener[l] \in {"none", "gone", "crashed", "born", "map", "null"}
                   /\ listener'[l] = listener[l]
              \/ listener[l] = "default" /\ listener'[l] = "gone"
              \/ listener[l] \in Mapped /\ listener'[l] \in Mapped
         /\ \A l \in Listeners :
              needExit'[l] = (needExit[l] \/ (l \in LiveListeners /\ HasHandler(l)))
         /\ \A w \in Workers : workerExit'[w] = (workerExit[w] \/ w \in LiveWorkers)
         /\ \A w \in Workers :
              worker'[w] = worker[w] \/ (worker[w] = "wait" /\ worker'[w] = "check")
         /\ missed' = missed \cup {l \in Listeners : listener[l] = "born"}
<1>1. \A l \in Listeners :
        listener'[l] = IF listener[l] = "default" THEN "gone" ELSE ListenerWoken(l)
  BY DEF Reload
<1>2. \A l \in Listeners : listener[l] \in ListenerPlace
  BY DEF TypeOK
<1> QED BY <1>1, <1>2, Woken DEF Reload, Mapped, ListenerPlace

LEMMA ForkStep == TypeInv /\ ForkInv /\ [Next]_vars => ForkInv'
<1> SUFFICES ASSUME TypeInv, ForkInv, [Next]_vars PROVE ForkInv'
  OBVIOUS
<1> USE DEF ForkInv, WorkersForked, GoneWasTold, WorkersFollowMaster, LiveWorkers, Ended
<1>a. TypeOK
  BY DEF TypeInv
<1>b. /\ listener \in [Listeners -> ListenerPlace] /\ worker \in [Workers -> WorkerPlace]
      /\ needExit \in [Listeners -> BOOLEAN] /\ workerExit \in [Workers -> BOOLEAN]
  BY <1>a DEF TypeOK
<1>1. CASE UNCHANGED <<listener, worker, needExit, workerExit>>
  BY <1>1
<1>2. CASE MainForks
  <2> DEFINE l == <<generation, forked + 1>>
  <2>1. l \in Listeners /\ listener[l] = "none"
    <3>1. main \in Loading /\ forked < listener_count[generation]
      BY <1>2 DEF MainForks, Loading
    <3>2. generation \in Generations /\ listener_count[generation] \in Nat /\ generation # 0
      BY <3>1, BoundsAre DEF TypeInv, TypeOK, GenerationsAsked
    <3>3. forked \in Nat /\ forked + 1 \in 1 .. listener_count[generation] /\ forked + 1 > forked
      BY <3>1, <3>2 DEF TypeInv, TypeOK
    <3> QED BY <3>1, <3>2, <3>3, ListenersAre DEF TypeInv, Unborn
  <2>2. /\ listener' = [listener EXCEPT ![l] = "born"] \/ listener' = listener
        /\ UNCHANGED <<worker, needExit, workerExit>>
    BY <1>2 DEF MainForks
  <2> QED BY <1>b, <2>1, <2>2, WorkersAre DEF Mapped
<1>3. ASSUME NEW l \in Listeners, ListenerSteps(l) PROVE ForkInv'
  <2>1. CASE ForksWorker(l)
    BY <1>a, <1>b, <2>1, WorkersAre, Forked DEF Mapped
  <2>2. CASE ~ ForksWorker(l)
    BY <1>a, <1>b, <1>3, <2>2, WorkersAre, ListenerMovesOn DEF Mapped, ListenerOnly
  <2> QED BY <2>1, <2>2
<1>4. ASSUME NEW w \in Workers, WorkerSteps(w) PROVE ForkInv'
  BY <1>a, <1>b, <1>4, WorkersAre, WorkerMoves, Woken DEF Mapped, WorkerOnly
<1>5. CASE Reload
  BY <1>a, <1>b, <1>5, WorkersAre, ReloadTells DEF Mapped, LiveListeners, HasHandler
<1>6. CASE Stop
  BY <1>b, <1>6, WorkersAre DEF Stop, LiveListeners, Mapped
<1>7. CASE MainStarts \/ MainTests \/ MainLogged \/ MainLoads \/ MainReloaded \/ MainPauses
  BY <1>1, <1>7 DEF MainStarts, MainTests, MainLogged, MainLoads, MainReloaded, MainPauses, MainOnly
<1> QED BY <1>1, <1>2, <1>3, <1>4, <1>5, <1>6, <1>7 DEF Next, MainSteps, vars

-----------------------------------------------------------------------------
(* Requests to reload.                                                     *)

LEMMA ToldStep == TypeInv /\ ForkInv /\ ToldInv /\ [Next]_vars => ToldInv'
<1> SUFFICES ASSUME TypeInv, ForkInv, ToldInv, [Next]_vars PROVE ToldInv'
  OBVIOUS
<1> USE DEF ToldInv, RequestTellsAll, OldGenerationsTold, Told, WorkerTold, LiveListeners,
            LiveWorkers, Ended
<1>a. TypeOK
  BY DEF TypeInv
<1>b. /\ listener \in [Listeners -> ListenerPlace] /\ worker \in [Workers -> WorkerPlace]
      /\ needExit \in [Listeners -> BOOLEAN] /\ workerExit \in [Workers -> BOOLEAN]
      /\ need_reload \in BOOLEAN
  BY <1>a DEF TypeOK
<1>1. CASE MainStarts \/ MainLogged \/ MainLoads \/ MainReloaded \/ MainPauses
  BY <1>1 DEF MainStarts, MainLogged, MainLoads, MainReloaded, MainPauses, MainOnly, Resting
<1>2. CASE MainTests
  BY <1>2 DEF MainTests, MainOnly, Resting
<1>3. CASE MainForks
  <2> DEFINE l == <<generation, forked + 1>>
  <2>1. l \in Listeners /\ Gen(l) = generation
    <3>1. main \in Loading /\ forked < listener_count[generation]
      BY <1>3 DEF MainForks, Loading
    <3>2. generation \in Generations /\ listener_count[generation] \in Nat /\ generation # 0
      BY <3>1, BoundsAre DEF TypeInv, TypeOK, GenerationsAsked
    <3>3. forked \in Nat /\ forked + 1 \in 1 .. listener_count[generation]
      BY <3>1, <3>2 DEF TypeInv, TypeOK
    <3> QED BY <3>2, <3>3, ListenersAre
  <2>2. /\ listener' = [listener EXCEPT ![l] = "born"] \/ listener' = listener
        /\ main' \in {"fork", "exited"}
        /\ UNCHANGED <<generation, worker, needExit, workerExit, missed>>
    BY <1>3 DEF MainForks
  <2>3. generation \in Nat
    BY <1>a, BoundsAre DEF TypeOK
  <2> QED BY <1>b, <2>1, <2>2, <2>3 DEF Resting
<1>4. ASSUME NEW l \in Listeners, ListenerSteps(l) PROVE ToldInv'
  <2>1. CASE ForksWorker(l)
    BY <1>a, <1>b, <2>1, WorkersAre, Forked DEF Mapped
  <2>2. CASE ~ ForksWorker(l)
    <3>1. /\ listener' \in [Listeners -> ListenerPlace]
          /\ \A k \in Listeners : listener'[k] \notin Ended => listener[k] \notin Ended
      BY <1>a, <1>b, <1>4, <2>2, ListenerMovesOn DEF Mapped
    <3>2. main' \in {main, MainWoken} /\ ListenerOnly
      BY <1>a, <1>4, <2>2, ListenerMovesOn
    <3> QED BY <3>1, <3>2 DEF MainWoken, Resting, ListenerOnly
  <2> QED BY <2>1, <2>2
<1>5. ASSUME NEW w \in Workers, WorkerSteps(w) PROVE ToldInv'
  BY <1>a, <1>b, <1>5, WorkersAre, WorkerMoves, Woken DEF WorkerOnly
<1>6. CASE Reload
  <2>1. \A l \in Listeners : listener'[l] \notin Ended => needExit'[l] \/ l \in missed'
    BY <1>a, <1>b, <1>6, ReloadTells DEF HasHandler, Mapped
  <2>2. \A w \in Workers : worker'[w] \notin Ended => workerExit'[w]
    BY <1>a, <1>b, <1>6, ReloadTells
  <2> QED BY <2>1, <2>2, WorkersAre
<1>7. CASE Stop
  BY <1>b, <1>7 DEF Stop
<1>8. CASE UNCHANGED vars
  BY <1>8 DEF vars
<1> QED BY <1>1, <1>2, <1>3, <1>4, <1>5, <1>6, <1>7, <1>8 DEF Next, MainSteps

-----------------------------------------------------------------------------
(* The shared region.                                                      *)

LEMMA RegionStep == TypeInv /\ ForkInv /\ RegionInv /\ [Next]_vars => RegionInv'
<1> SUFFICES ASSUME TypeInv, ForkInv, RegionInv, [Next]_vars PROVE RegionInv'
  OBVIOUS
<1> USE DEF RegionInv, RegionOwn, RegionOfWorkers, RegionLaid, LaidOfWorkers, Own, Shared
<1>a. TypeOK
  BY DEF TypeInv
<1>b. /\ listener \in [Listeners -> ListenerPlace] /\ worker \in [Workers -> WorkerPlace]
      /\ laid \in [Names -> SUBSET Listeners] /\ DOMAIN region = Names
      /\ \A l \in Listeners : server_name[l] \in Names
  BY <1>a, ListenersAre DEF TypeOK
<1>c. \A w \in Workers :
        worker[w] # "none" => listener[ListenerOf(w)] \in Mapped \cup {"gone", "crashed"}
  BY DEF ForkInv, WorkersForked
<1>1. CASE UNCHANGED <<listener, worker, region, laid>>
  BY <1>1
<1>2. CASE MainForks
  <2> DEFINE l == <<generation, forked + 1>>
  <2>1. l \in Listeners
    BY <1>2, BoundsAre, ListenersAre DEF MainForks, TypeInv, TypeOK, GenerationsAsked, Loading
  <2>2. /\ listener' = [listener EXCEPT ![l] = "born"] \/ listener' = listener
        /\ UNCHANGED <<worker, region, laid>>
    BY <1>2 DEF MainForks
  <2> QED BY <1>b, <2>1, <2>2 DEF Mapped
<1>3. ASSUME NEW l \in Listeners, ListenerSteps(l) PROVE RegionInv'
  <2>1. CASE ForksWorker(l)
    BY <1>a, <1>b, <2>1, Forked DEF Mapped
  <2>2. CASE Constructs(l)
    <3>1. /\ listener[l] = "map" /\ listener' = [listener EXCEPT ![l] = "null"]
          /\ region' = [region EXCEPT ![server_name[l]] = Null]
          /\ laid' = [laid EXCEPT ![server_name[l]] = @ \cup {l}]
          /\ worker' = worker
      BY <2>2 DEF Constructs, ListenerMoves, ListenerOnly
    <3>2. \A k \in Listeners :
            /\ k \in laid[server_name[k]] => k \in laid'[server_name[k]]
            /\ k # l /\ Own(k) => Own(k)'
            /\ Shared(k) => Shared(k)'
      BY <1>b, <3>1
    <3>3. l \in laid'[server_name[l]]
      BY <1>b, <3>1
    <3>4. \A w \in Workers : worker[w] # "none" => ListenerOf(w) # l
      BY <1>c, <3>1 DEF Mapped
    <3> HIDE DEF Shared, Own
    <3>5. RegionOwn' /\ RegionLaid'
      BY <1>b, <3>1, <3>2, <3>3 DEF Mapped
    <3>6. RegionOfWorkers' /\ LaidOfWorkers'
      BY <1>b, <3>1, <3>2, <3>4, WorkersAre
    <3> QED BY <3>5, <3>6
  <2>3. CASE SetsStats(l)
    <3>1. /\ listener[l] = "null" /\ listener' = [listener EXCEPT ![l] = "fork"]
          /\ region' = [region EXCEPT ![server_name[l]] = l]
          /\ UNCHANGED <<laid, worker>>
      BY <2>3 DEF SetsStats, ListenerMoves, ListenerOnly
    <3>2. l \in laid[server_name[l]]
      BY <3>1
    <3>3. \A k \in Listeners : (Own(k) => Own(k)') /\ (Shared(k) => Shared(k)')
      BY <1>b, <3>1, <3>2
    <3>4. Own(l)'
      BY <1>b, <3>1
    <3> HIDE DEF Shared, Own
    <3>5. RegionOwn' /\ RegionLaid'
      BY <1>b, <3>1, <3>2, <3>3, <3>4 DEF Mapped
    <3>6. RegionOfWorkers' /\ LaidOfWorkers'
      BY <1>b, <3>1, <3>3, WorkersAre
    <3> QED BY <3>5, <3>6
  <2>4. CASE ~ ForksWorker(l) /\ ~ Constructs(l) /\ ~ SetsStats(l)
    <3>1. PICK to \in ListenerPlace :
            /\ listener' = [listener EXCEPT ![l] = to]
            /\ to \in Mapped => listener[l] \in Mapped
            /\ to # "null"
            /\ to = "crashed" => listener[l] \in Mapped /\ MayCrash(l)
            /\ ListenerOnly
            /\ UNCHANGED <<region, laid>>
      BY <1>a, <1>3, <2>4, ListenerMovesOn DEF Mapped
    <3> QED BY <1>b, <3>1 DEF Mapped, ListenerOnly, MayCrash
  <2> QED BY <2>1, <2>2, <2>3, <2>4
<1>4. ASSUME NEW w \in Workers, WorkerSteps(w) PROVE RegionInv'
  BY <1>a, <1>b, <1>4, WorkersAre, WorkerMoves, Woken DEF Mapped, WorkerOnly, MayCrash
<1>5. CASE Reload
  <2>1. UNCHANGED <<region, laid>>
    BY <1>5 DEF Reload
  <2> QED BY <1>a, <1>b, <1>5, <2>1, ReloadTells DEF Mapped
<1>6. CASE Stop
  BY <1>b, <1>6 DEF Stop, LiveListeners, LiveWorkers, Ended, Mapped
<1>7. CASE MainStarts \/ MainTests \/ MainLogged \/ MainLoads \/ MainReloaded \/ MainPauses
  BY <1>1, <1>7 DEF MainStarts, MainTests, MainLogged, MainLoads, MainReloaded, MainPauses, MainOnly
<1> QED BY <1>1, <1>2, <1>3, <1>4, <1>5, <1>6, <1>7 DEF Next, MainSteps, vars

-----------------------------------------------------------------------------
(* The theorems.                                                           *)

LEMMA InvariantHolds == Spec => []IInv
<1>1. IInv /\ [Next]_vars => IInv'
  BY TypeStep, ForkStep, ToldStep, RegionStep DEF IInv
<1> QED BY InitInv, <1>1, PTL DEF Spec

\* Every variable keeps its type, and no generation is loaded without a
\* request for it (init, reload_config).
THEOREM TypeCorrect == Spec => []TypeOK
<1>1. IInv => TypeOK
  BY DEF IInv, TypeInv
<1> QED BY InvariantHolds, <1>1, PTL

\* A worker is told to exit exactly when its master is (reload_signal_handler,
\* and needExit inherited through start_listener's forks).
THEOREM WorkersAlwaysFollow == Spec => []WorkersFollowMaster
<1>1. IInv => WorkersFollowMaster
  BY DEF IInv, ForkInv
<1> QED BY InvariantHolds, <1>1, PTL

\* Once reload_config is called again, everyone of an earlier generation has
\* been told, but for listeners signalled before they replaced the handlers
\* of the main process (fork_listeners).
THEOREM OldGenerationsAlwaysTold == Spec => []OldGenerationsTold
<1>1. IInv => OldGenerationsTold
  BY DEF IInv, ToldInv
<1> QED BY InvariantHolds, <1>1, PTL

\* Only a region that another listener has constructed as well (init_mmap) is fatal.
THEOREM CrashAlwaysNeedsTwo == Spec => []CrashNeedsTwoListeners
<1>1. IInv => CrashNeedsTwoListeners
  BY DEF IInv, RegionInv, RegionOwn, RegionOfWorkers, CrashNeedsTwoListeners
<1> QED BY InvariantHolds, <1>1, PTL
=============================================================================
