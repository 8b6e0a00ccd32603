------------------------- MODULE LoadBalancerProofs -------------------------
(***************************************************************************)
(* Proofs about LoadBalancer: for every number of workers and backends,    *)
(* every configuration and every interleaving of the picks, the deaths of  *)
(* workers and the health check, the indices stay in range, the connects   *)
(* to a backend that was found down are those that were on their way,      *)
(* every open connection is covered by the statistics, the weights sum to  *)
(* what the picks leave, and least connections keeps the counts of the     *)
(* eligible backends together.                                             *)
(***************************************************************************)
EXTENDS LoadBalancer, FoldLemmas

\* A worker in the body of a loop is within the loop's bound.
InLoop == \A w \in Workers : pc[w] \in {"weigh", "load", "compare"} => i[w] < backend_count

\* What round robin is about to store is an index.
IndexLoaded == \A w \in Workers : pc[w] = "store_index" => value[w] \in Backends

\* A scanning worker judges, and counts for, the backend it connects to.
OneBackend ==
  algorithm # "RoundRobin" => \A w \in Workers : config[w] = stat[w] /\ pc[w] # "stat"

\* While a backend is down, every worker in flight to it is due.
LateLeft(b) ==
  algorithm # "RoundRobin" =>
    due[b] >= 0 /\ (~is_healthy[b] => due[b] >= Cardinality(InFlight(b)))

IInv == TypeOK /\ InLoop /\ IndexLoaded /\ OneBackend /\ \A b \in Backends : LateLeft(b)

-----------------------------------------------------------------------------
(* Facts about the constants.                                              *)

LEMMA Constants ==
  /\ NumBackends \in Nat /\ NumBackends > 0
  /\ 0 \in Backends
  /\ Backends \subseteq CInt
  /\ Backends \subseteq 0 .. NumBackends
  /\ \A n \in BackendCounts : n \in Nat /\ n <= NumBackends
BY LoadBalancerAssumption DEF Backends, CInt

\* An atomic<int> keeps its range.
LEMMA WrapInRange == ASSUME NEW n \in Int PROVE Wrap(n) \in CInt
<1>1. (n + IntLimit) % (2 * IntLimit) \in 0 .. 2 * IntLimit - 1
  BY LoadBalancerAssumption
<1> QED BY <1>1, LoadBalancerAssumption DEF Wrap, CInt

\* Workers in flight are workers.
LEMMA InFlightBound ==
  ASSUME NEW b
  PROVE  /\ IsFiniteSet(InFlight(b))
         /\ Cardinality(InFlight(b)) \in Nat
         /\ Cardinality(InFlight(b)) <= MaxWorkers
         /\ MaxWorkers \in Nat
<1>1. IsFiniteSet(Workers) /\ InFlight(b) \in SUBSET Workers
  BY LoadBalancerAssumption DEF InFlight
<1> QED BY <1>1, FS_Subset, FS_CardinalityType DEF MaxWorkers

-----------------------------------------------------------------------------
(* The types.                                                              *)

\* What the statistics of one backend become.
LEMMA AddKeepsType ==
  ASSUME NEW f \in [Backends -> CInt], NEW b \in Backends, NEW n \in Int
  PROVE  [f EXCEPT ![b] = Wrap(@ + n)] \in [Backends -> CInt]
<1>1. f[b] + n \in Int
  BY LoadBalancerAssumption DEF CInt
<1> QED BY <1>1, WrapInRange

LEMMA BackendsFinite == IsFiniteSet(Backends)
BY LoadBalancerAssumption, FS_Interval DEF Backends

LEMMA TotalWeightType == TotalWeight \in Nat
<1>1. \A b \in Backends : Weight[b] \in Nat
  BY LoadBalancerAssumption
<1> QED BY <1>1, BackendsFinite, SumOfNats DEF TotalWeight

LEMMA WeightType ==
  /\ \A b \in Backends : Weight[b] \in Int /\ -Weight[b] \in Int
  /\ -TotalWeight \in Int
BY LoadBalancerAssumption, TotalWeightType

LEMMA InitIInv == Init => IInv
<1> SUFFICES ASSUME Init PROVE IInv
  OBVIOUS
<1>1. /\ 0 \in CInt /\ 0 \in 0 .. NumBackends
      /\ \A h \in CheckHealths : 0 \in 0 .. MaxPicks[h]
  BY Constants, LoadBalancerAssumption
<1>2. \A b \in Backends, n \in ProcessCounts : (b < n) \in BOOLEAN
  OBVIOUS
<1>3. TypeOK
  <2>1. process_count \in ProcessCounts /\ is_healthy \in [Backends -> BOOLEAN]
    BY <1>2 DEF Init
  <2>2. /\ open \in [Workers -> [Backends -> Nat]]
        /\ due \in [Backends -> Int] /\ killed \subseteq Workers
    BY DEF Init
  <2> QED BY <1>1, <2>1, <2>2, Constants DEF Init, TypeOK
<1>4. ASSUME NEW b \in Backends PROVE LateLeft(b)
  <2>1. InFlight(b) = {}
    BY DEF Init, InFlight
  <2>2. Cardinality(InFlight(b)) = 0
    BY <2>1, FS_EmptySet
  <2> QED BY <2>2 DEF Init, LateLeft
<1> QED BY <1>3, <1>4 DEF Init, IInv, InLoop, IndexLoaded, OneBackend

\* A step on which nobody is judged, and neither due nor is_healthy changes,
\* leaves no more late connects to come.
LEMMA FlightShrinks ==
  ASSUME IInv, UNCHANGED <<due, is_healthy, algorithm>>, NEW b \in Backends,
         InFlight(b)' \subseteq InFlight(b)
  PROVE  LateLeft(b)'
<1>1. /\ IsFiniteSet(InFlight(b)) /\ InFlight(b)' \in SUBSET InFlight(b)
      /\ Cardinality(InFlight(b)) \in Nat
  BY InFlightBound
<1>2. /\ Cardinality(InFlight(b)') <= Cardinality(InFlight(b))
      /\ Cardinality(InFlight(b)') \in Nat
  BY <1>1, FS_Subset, FS_CardinalityType
<1>3. due[b] \in Int /\ LateLeft(b)
  BY DEF IInv, TypeOK
<1> QED BY <1>1, <1>2, <1>3 DEF LateLeft

-----------------------------------------------------------------------------
(* The steps of a pick.                                                    *)

LEMMA RoundRobinKeeps ==
  ASSUME IInv, NEW w \in Workers, RRConfig(w) \/ RRStat(w) \/ RRLoad(w) \/ RRStore(w)
  PROVE  IInv'
<1> USE DEF IInv, At, Goto, loaded, shared, locals, master
<1>1. CASE RRConfig(w)
  <2>1. TypeOK' /\ InLoop' /\ IndexLoaded' /\ OneBackend'
    BY <1>1, LoadBalancerAssumption DEF RRConfig, TypeOK, InLoop, IndexLoaded, OneBackend
  <2>2. \A b \in Backends : InFlight(b)' \subseteq InFlight(b)
    BY <1>1 DEF RRConfig, InFlight, TypeOK
  <2> QED BY <1>1, <2>1, <2>2, FlightShrinks DEF RRConfig
<1>2. CASE RRStat(w)
  <2>1. TypeOK' /\ InLoop' /\ IndexLoaded' /\ OneBackend'
    BY <1>2 DEF RRStat, TypeOK, InLoop, IndexLoaded, OneBackend
  <2>2. \A b \in Backends : InFlight(b)' \subseteq InFlight(b)
    BY <1>2 DEF RRStat, InFlight, TypeOK
  <2> QED BY <1>2, <2>1, <2>2, FlightShrinks DEF RRStat
<1>3. CASE RRLoad(w)
  <2>1. (current_index + 1) % backend_count \in Backends
    <3>1. /\ backend_count \in Nat /\ backend_count # 0 /\ backend_count <= NumBackends
          /\ current_index + 1 \in Int
      BY <1>3, Constants DEF RRLoad, TypeOK, Backends
    <3>2. (current_index + 1) % backend_count \in 0 .. backend_count - 1
      BY <3>1
    <3> QED BY <3>1, <3>2, Constants DEF Backends
  <2>2. TypeOK' /\ InLoop' /\ IndexLoaded' /\ OneBackend'
    BY <1>3, <2>1, Constants DEF RRLoad, TypeOK, InLoop, IndexLoaded, OneBackend
  <2>3. \A b \in Backends : InFlight(b)' \subseteq InFlight(b)
    BY <1>3 DEF RRLoad, InFlight, TypeOK
  <2> QED BY <1>3, <2>2, <2>3, FlightShrinks DEF RRLoad
<1>4. CASE RRStore(w)
  <2>1. TypeOK' /\ InLoop' /\ IndexLoaded' /\ OneBackend'
    BY <1>4 DEF RRStore, TypeOK, InLoop, IndexLoaded, OneBackend
  <2>2. \A b \in Backends : InFlight(b)' \subseteq InFlight(b)
    BY <1>4 DEF RRStore, InFlight, TypeOK
  <2> QED BY <1>4, <2>1, <2>2, FlightShrinks DEF RRStore
<1> QED BY <1>1, <1>2, <1>3, <1>4

LEMMA ScanningKeeps ==
  ASSUME IInv, NEW w \in Workers, Scanning(w)
  PROVE  IInv'
<1> USE DEF IInv, At, Goto, loaded, shared, locals, master
<1>1. CASE WRRStart(w) \/ LCStart(w)
  <2>1. ScanFrom0(w)
    BY <1>1 DEF WRRStart, LCStart
  <2>2. current_weight' \in [Backends -> CInt]
    <3>1. current_weight \in [Backends -> CInt] /\ 0 \in Backends /\ Weight[0] \in Int
      BY Constants, WeightType DEF TypeOK
    <3>2. CASE WRRStart(w)
      BY <3>1, <3>2, AddKeepsType DEF WRRStart, AddWeight
    <3>3. CASE LCStart(w)
      BY <3>1, <3>3 DEF LCStart
    <3> QED BY <1>1, <3>2, <3>3
  <2>3. TypeOK' /\ InLoop' /\ IndexLoaded' /\ OneBackend'
    <3>1. 1 \in 0 .. NumBackends /\ 0 \in Backends
      BY Constants
    <3>2. picks' \in 0 .. MaxPicks[check_health]
      BY <2>1, LoadBalancerAssumption DEF ScanFrom0, TypeOK
    <3>3. /\ pc' = [pc EXCEPT ![w] = "scan"]
          /\ config' = [config EXCEPT ![w] = 0]
          /\ stat' = [stat EXCEPT ![w] = 0]
          /\ i' = [i EXCEPT ![w] = 1]
          /\ UNCHANGED <<algorithm, backend_count, check_health, process_count,
                         current_index, connections, failed_connections, is_healthy,
                         value, open, killed, mpc, mi, mvalue, chld, due>>
      BY <2>1 DEF ScanFrom0
    <3>4. TypeOK'
      BY <2>2, <3>1, <3>2, <3>3 DEF TypeOK
    <3>5. InLoop' /\ IndexLoaded' /\ OneBackend'
      BY <3>3 DEF TypeOK, InLoop, IndexLoaded, OneBackend
    <3> QED BY <3>4, <3>5
  <2>4. \A b \in Backends : InFlight(b)' \subseteq InFlight(b)
    BY <2>1 DEF ScanFrom0, InFlight, TypeOK
  <2> QED BY <2>1, <2>3, <2>4, FlightShrinks DEF ScanFrom0
<1>2. CASE Scan(w)
  <2>1. /\ i[w] \in Nat /\ i[w] < NumBackends
        /\ i[w] + 1 \in 0 .. NumBackends
    BY <1>2, Constants DEF Scan, TypeOK
  <2>2. TypeOK' /\ InLoop' /\ IndexLoaded' /\ OneBackend'
    <3>1. CASE is_healthy[i[w]]
      <4>1. PICK l \in {"weigh", "load"} : pc' = [pc EXCEPT ![w] = l]
        BY <1>2, <3>1 DEF Scan
      <4>2. TypeOK'
        BY <1>2, <3>1, <4>1 DEF Scan, TypeOK
      <4>3. InLoop' /\ IndexLoaded' /\ OneBackend'
        BY <1>2, <2>1, <3>1, <4>1, Constants DEF Scan, TypeOK, InLoop, IndexLoaded, OneBackend
      <4> QED BY <4>2, <4>3
    <3>2. CASE ~is_healthy[i[w]]
      <4>1. pc' = pc /\ i' = [i EXCEPT ![w] = @ + 1]
        BY <1>2, <3>2 DEF Scan
      <4>2. i' \in [Workers -> 0 .. NumBackends]
        BY <4>1, <2>1 DEF TypeOK
      <4>3. TypeOK'
        BY <1>2, <4>1, <4>2 DEF Scan, TypeOK
      <4>4. InLoop' /\ IndexLoaded' /\ OneBackend'
        BY <1>2, <4>1 DEF Scan, TypeOK, InLoop, IndexLoaded, OneBackend
      <4> QED BY <4>3, <4>4
    <3> QED BY <3>1, <3>2
  <2>3. \A b \in Backends : InFlight(b)' \subseteq InFlight(b)
    BY <1>2 DEF Scan, InFlight, TypeOK
  <2> QED BY <1>2, <2>2, <2>3, FlightShrinks DEF Scan
<1>3. CASE WRRWeigh(w)
  <2>1. i[w] \in Backends
    BY <1>3, Constants DEF WRRWeigh, TypeOK, InLoop, Backends
  <2>2. current_weight' \in [Backends -> CInt]
    BY <1>3, <2>1, WeightType, AddKeepsType DEF WRRWeigh, AddWeight, TypeOK
  <2>3. TypeOK' /\ InLoop' /\ IndexLoaded' /\ OneBackend'
    BY <1>3, <2>2 DEF WRRWeigh, TypeOK, InLoop, IndexLoaded, OneBackend
  <2>4. \A b \in Backends : InFlight(b)' \subseteq InFlight(b)
    BY <1>3 DEF WRRWeigh, InFlight, TypeOK
  <2> QED BY <1>3, <2>3, <2>4, FlightShrinks DEF WRRWeigh
<1>4. CASE LoadCandidate(w)
  <2>1. i[w] \in Backends
    BY <1>4, Constants DEF LoadCandidate, TypeOK, InLoop, Backends
  <2>2. Load(i[w]) \in CInt
    BY <2>1 DEF Load, TypeOK
  <2>3. TypeOK' /\ InLoop' /\ IndexLoaded' /\ OneBackend'
    <3>1. TypeOK'
      BY <1>4, <2>2 DEF LoadCandidate, TypeOK
    <3>2. InLoop'
      BY <1>4 DEF LoadCandidate, TypeOK, InLoop
    <3>3. IndexLoaded'
      BY <1>4 DEF LoadCandidate, TypeOK, IndexLoaded
    <3>4. OneBackend'
      BY <1>4 DEF LoadCandidate, TypeOK, OneBackend
    <3> QED BY <3>1, <3>2, <3>3, <3>4
  <2>4. \A b \in Backends : InFlight(b)' \subseteq InFlight(b)
    BY <1>4 DEF LoadCandidate, InFlight, TypeOK
  <2> QED BY <1>4, <2>3, <2>4, FlightShrinks DEF LoadCandidate
<1>5. CASE Compare(w)
  <2>1. i[w] \in Backends /\ i[w] + 1 \in 0 .. NumBackends
    <3>1. i[w] < backend_count
      BY <1>5 DEF Compare, InLoop
    <3>2. i[w] \in 0 .. NumBackends /\ backend_count \in 0 .. NumBackends
      BY Constants DEF TypeOK
    <3> QED BY <3>1, <3>2, Constants DEF Backends
  <2>2. PICK best \in Backends : /\ config' = [config EXCEPT ![w] = best]
                                /\ stat' = [stat EXCEPT ![w] = best]
    BY <1>5, <2>1 DEF Compare, TypeOK
  <2>3. TypeOK' /\ InLoop' /\ IndexLoaded' /\ OneBackend'
    BY <1>5, <2>1, <2>2 DEF Compare, TypeOK, InLoop, IndexLoaded, OneBackend
  <2>4. \A b \in Backends : InFlight(b)' \subseteq InFlight(b)
    BY <1>5, <2>2 DEF Compare, InFlight, TypeOK
  <2> QED BY <1>5, <2>3, <2>4, FlightShrinks DEF Compare
<1>6. CASE WRRTake(w)
  <2>1. current_weight' \in [Backends -> CInt]
    BY <1>6, WeightType, AddKeepsType DEF WRRTake, AddWeight, TypeOK
  <2>2. TypeOK' /\ InLoop' /\ IndexLoaded' /\ OneBackend'
    BY <1>6, <2>1 DEF WRRTake, TypeOK, InLoop, IndexLoaded, OneBackend
  <2>3. \A b \in Backends : InFlight(b)' \subseteq InFlight(b)
    BY <1>6 DEF WRRTake, InFlight, TypeOK
  <2> QED BY <1>6, <2>2, <2>3, FlightShrinks DEF WRRTake
<1>7. CASE WRRRefund(w)
  <2>1. current_weight' \in [Backends -> CInt]
    BY <1>7, WeightType, AddKeepsType DEF WRRRefund, AddWeight, TypeOK
  <2>2. TypeOK' /\ InLoop' /\ IndexLoaded' /\ OneBackend'
    BY <1>7, <2>1 DEF WRRRefund, TypeOK, InLoop, IndexLoaded, OneBackend
  <2>3. \A b \in Backends : InFlight(b)' \subseteq InFlight(b)
    BY <1>7 DEF WRRRefund, InFlight, TypeOK
  <2> QED BY <1>7, <2>2, <2>3, FlightShrinks DEF WRRRefund
<1> QED BY <1>1, <1>2, <1>3, <1>4, <1>5, <1>6, <1>7 DEF Scanning

\* A worker that judges a backend healthy joins those in flight to it, and
\* the backend is not down.
LEMMA JudgeKeeps == ASSUME IInv, NEW w \in Workers, Judge(w) PROVE IInv'
<1> USE DEF IInv, At, Goto, loaded, shared, locals, master
<1>1. TypeOK' /\ InLoop' /\ IndexLoaded' /\ OneBackend'
  BY DEF Judge, TypeOK, InLoop, IndexLoaded, OneBackend
<1>2. ASSUME NEW b \in Backends PROVE LateLeft(b)'
  <2>1. CASE is_healthy[b]
    BY <2>1 DEF Judge, LateLeft
  <2>2. CASE ~is_healthy[b]
    <3>1. InFlight(b)' \subseteq InFlight(b)
      BY <2>2 DEF Judge, InFlight, TypeOK
    <3> QED BY <3>1, FlightShrinks DEF Judge
  <2> QED BY <2>1, <2>2
<1> QED BY <1>1, <1>2

-----------------------------------------------------------------------------
(* The connect, the end of a connection and of a worker.                   *)

\* A connect takes its worker out of those in flight.
LEMMA ConnectKeeps ==
  ASSUME IInv, NEW w \in Workers, Connects(w) \/ ConnectFails(w)
  PROVE  IInv'
<1> USE DEF IInv, At, Goto, loaded, shared, locals, master
<1>1. /\ pc[w] = "connect" /\ w \notin killed /\ stat[w] \in Backends /\ config[w] \in Backends
      /\ pc' \in {[pc EXCEPT ![w] = "count"], [pc EXCEPT ![w] = "failed"]}
      /\ UNCHANGED <<algorithm, backend_count, check_health, process_count, shared, locals,
                     killed, mpc, mi, mvalue, chld, picks>>
      /\ CountLate(w)
  BY DEF Connects, ConnectFails, TypeOK
<1>2. due' \in [Backends -> Int]
  BY <1>1 DEF CountLate, TypeOK
<1>3. open' \in [Workers -> [Backends -> Nat]]
  <2>1. CASE ConnectFails(w)
    BY <2>1 DEF ConnectFails, TypeOK
  <2>2. CASE Connects(w)
    <3>1. open[w] \in [Backends -> Nat] /\ config[w] \in Backends
      BY DEF TypeOK
    <3>2. [open[w] EXCEPT ![config[w]] = @ + 1] \in [Backends -> Nat]
      BY <3>1
    <3>3. open' = [open EXCEPT ![w] = [open[w] EXCEPT ![config[w]] = @ + 1]]
      BY <2>2 DEF Connects, TypeOK
    <3> QED BY <3>2, <3>3 DEF TypeOK
  <2> QED BY <2>1, <2>2
<1>4. TypeOK'
  BY <1>1, <1>2, <1>3 DEF TypeOK
<1>5. InLoop' /\ IndexLoaded' /\ OneBackend'
  BY <1>1 DEF TypeOK, InLoop, IndexLoaded, OneBackend
<1>6. ASSUME NEW b \in Backends, algorithm # "RoundRobin" PROVE LateLeft(b)'
  <2>1. /\ due[b] \in Int /\ LateLeft(b) /\ config[w] = stat[w] /\ IsFiniteSet(InFlight(b))
        /\ InFlight(b)' \subseteq InFlight(b)
    BY <1>1, <1>6, InFlightBound DEF TypeOK, OneBackend, InFlight
  <2>2. /\ Cardinality(InFlight(b)') <= Cardinality(InFlight(b))
        /\ Cardinality(InFlight(b)) \in Nat /\ Cardinality(InFlight(b)') \in Nat
    BY <2>1, FS_Subset, FS_CardinalityType
  <2>3. CASE b # stat[w] \/ is_healthy[b]
    <3>1. due'[b] = due[b]
      BY <1>1, <2>1, <2>3 DEF CountLate, TypeOK
    <3> QED BY <1>1, <2>1, <2>2, <3>1 DEF LateLeft
  <2>4. CASE b = stat[w] /\ ~is_healthy[b]
    <3>1. due'[b] = due[b] - 1
      BY <1>1, <2>1, <2>4 DEF CountLate, TypeOK
    <3>2. w \in InFlight(b) /\ InFlight(b)' = InFlight(b) \ {w}
      BY <1>1, <2>4 DEF InFlight, TypeOK
    <3>3. Cardinality(InFlight(b)') = Cardinality(InFlight(b)) - 1
      BY <2>1, <3>2, FS_RemoveElement
    <3> QED BY <1>1, <1>6, <2>1, <2>2, <2>4, <3>1, <3>3 DEF LateLeft
  <2> QED BY <2>3, <2>4
<1>7. ASSUME NEW b \in Backends PROVE LateLeft(b)'
  BY <1>1, <1>6 DEF LateLeft
<1> QED BY <1>4, <1>5, <1>7

LEMMA CountKeeps ==
  ASSUME IInv, NEW w \in Workers, Count(w) \/ CountFailed(w)
  PROVE  IInv'
<1> USE DEF IInv, At, Goto, loaded, shared, locals, master
<1>1. connections' \in [Backends -> CInt] /\ failed_connections' \in [Backends -> CInt]
  <2>1. stat[w] \in Backends /\ 1 \in Int
    BY DEF TypeOK
  <2>2. CASE Count(w)
    <3>1. /\ connections' = [connections EXCEPT ![stat[w]] = Wrap(@ + 1)]
          /\ failed_connections' = failed_connections
      BY <2>2 DEF Count
    <3> QED BY <2>1, <3>1, AddKeepsType DEF TypeOK
  <2>3. CASE CountFailed(w)
    <3>1. /\ failed_connections' = [failed_connections EXCEPT ![stat[w]] = Wrap(@ + 1)]
          /\ connections' = connections
      BY <2>3 DEF CountFailed
    <3> QED BY <2>1, <3>1, AddKeepsType DEF TypeOK
  <2> QED BY <2>2, <2>3
<1>2. TypeOK' /\ InLoop' /\ IndexLoaded' /\ OneBackend'
  <2>1. CASE Count(w)
    <3>1. TypeOK'
      BY <1>1, <2>1 DEF Count, TypeOK
    <3>2. InLoop' /\ IndexLoaded' /\ OneBackend'
      BY <2>1 DEF Count, TypeOK, InLoop, IndexLoaded, OneBackend
    <3> QED BY <3>1, <3>2
  <2>2. CASE CountFailed(w)
    <3>1. TypeOK'
      BY <1>1, <2>2 DEF CountFailed, TypeOK
    <3>2. InLoop' /\ IndexLoaded' /\ OneBackend'
      BY <2>2 DEF CountFailed, TypeOK, InLoop, IndexLoaded, OneBackend
    <3> QED BY <3>1, <3>2
  <2> QED BY <2>1, <2>2
<1>3. \A b \in Backends : InFlight(b)' \subseteq InFlight(b)
  BY DEF Count, CountFailed, InFlight, TypeOK
<1> QED BY <1>2, <1>3, FlightShrinks DEF Count, CountFailed

LEMMA EndKeeps ==
  ASSUME IInv, NEW w \in Workers, Disconnect(w) \/ Dies(w) \/ RRDies(w)
  PROVE  IInv'
<1> USE DEF IInv, At, Goto, loaded, shared, locals, master
<1>1. open' \in [Workers -> [Backends -> Nat]]
  <2>1. CASE Disconnect(w)
    <3>1. PICK b \in Backends : open[w][b] > 0 /\ open' = [open EXCEPT ![w][b] = @ - 1]
      BY <2>1 DEF Disconnect
    <3>2. open[w] \in [Backends -> Nat]
      BY DEF TypeOK
    <3>3. [open[w] EXCEPT ![b] = @ - 1] \in [Backends -> Nat]
      BY <3>1, <3>2
    <3>4. open' = [open EXCEPT ![w] = [open[w] EXCEPT ![b] = @ - 1]]
      BY <3>1 DEF TypeOK
    <3> QED BY <3>3, <3>4 DEF TypeOK
  <2>2. CASE Dies(w) \/ RRDies(w)
    <3>1. open' = [open EXCEPT ![w] = [b \in Backends |-> 0]]
      BY <2>2 DEF Dies, RRDies, End
    <3>2. [b \in Backends |-> 0] \in [Backends -> Nat]
      OBVIOUS
    <3> QED BY <3>1, <3>2 DEF TypeOK
  <2> QED BY <2>1, <2>2
<1>2. TypeOK' /\ InLoop' /\ IndexLoaded' /\ OneBackend'
  <2>1. CASE Disconnect(w)
    BY <1>1, <2>1 DEF Disconnect, TypeOK, InLoop, IndexLoaded, OneBackend
  <2>2. CASE Dies(w) \/ RRDies(w)
    <3>1. TypeOK'
      BY <1>1, <2>2 DEF Dies, RRDies, End, TypeOK
    <3>2. InLoop' /\ IndexLoaded' /\ OneBackend'
      BY <2>2 DEF Dies, RRDies, End, TypeOK, InLoop, IndexLoaded, OneBackend
    <3> QED BY <3>1, <3>2
  <2> QED BY <2>1, <2>2
<1>3. \A b \in Backends : InFlight(b)' \subseteq InFlight(b)
  BY DEF Disconnect, Dies, RRDies, End, InFlight, TypeOK
<1> QED BY <1>2, <1>3, FlightShrinks DEF Disconnect, Dies, RRDies, End

-----------------------------------------------------------------------------
(* The master.                                                             *)

\* Finding a backend down makes those in flight to it due.
LEMMA MasterKeeps == ASSUME IInv, Master PROVE IInv'
<1> USE DEF IInv, loaded, shared, locals, master
<1>1. CASE MasterWakes \/ MasterProbes \/ MasterSignalled
  <2>1. TypeOK' /\ InLoop' /\ IndexLoaded' /\ OneBackend'
    BY <1>1, Constants
       DEF MasterWakes, MasterProbes, MasterSignalled, TypeOK, InLoop, IndexLoaded, OneBackend
  <2>2. \A b \in Backends : InFlight(b)' \subseteq InFlight(b)
    BY <1>1 DEF MasterWakes, MasterProbes, MasterSignalled, InFlight
  <2> QED BY <1>1, <2>1, <2>2, FlightShrinks
          DEF MasterWakes, MasterProbes, MasterSignalled
<1>2. CASE MasterStores
  <2>1. mi' \in Backends /\ mpc' \in {"probe", "pause"}
    BY <1>2, Constants DEF MasterStores, TypeOK, Backends
  <2>2. due' \in [Backends -> Int]
    BY <1>2, InFlightBound DEF MasterStores, TypeOK
  <2>3. TypeOK' /\ InLoop' /\ IndexLoaded' /\ OneBackend'
    BY <1>2, <2>1, <2>2 DEF MasterStores, TypeOK, InLoop, IndexLoaded, OneBackend
  <2>4. ASSUME NEW b \in Backends PROVE LateLeft(b)'
    <3>1. InFlight(b)' = InFlight(b)
      BY <1>2 DEF MasterStores, InFlight
    <3>2. CASE due'[b] = Cardinality(InFlight(b))
      BY <3>1, <3>2, InFlightBound DEF LateLeft
    <3>3. CASE due'[b] = due[b] /\ (~is_healthy'[b] => ~is_healthy[b])
      BY <1>2, <3>1, <3>3 DEF LateLeft, MasterStores
    <3> QED BY <1>2, <3>2, <3>3 DEF MasterStores, TypeOK
  <2> QED BY <2>3, <2>4
<1> QED BY <1>1, <1>2 DEF Master

-----------------------------------------------------------------------------
LEMMA NextIInv == IInv /\ [Next]_vars => IInv'
<1> SUFFICES ASSUME IInv, [Next]_vars PROVE IInv'
  OBVIOUS
<1>1. ASSUME NEW w \in Workers, Pick(w) PROVE IInv'
  BY <1>1, RoundRobinKeeps, ScanningKeeps, JudgeKeeps, ConnectKeeps, CountKeeps, EndKeeps
     DEF Pick, RoundRobin
<1>2. ASSUME NEW w \in Workers, Disconnect(w) \/ Dies(w) PROVE IInv'
  BY <1>2, EndKeeps
<1>3. CASE Master
  BY <1>3, MasterKeeps
<1>4. CASE UNCHANGED vars
  BY <1>4 DEF vars, loaded, shared, locals, master, IInv, TypeOK, InLoop, IndexLoaded, OneBackend,
              LateLeft, InFlight
<1> QED BY <1>1, <1>2, <1>3, <1>4 DEF Next

\* The conjunction of the parts below holds in every reachable state.
THEOREM InductiveInvariant == Spec => []IInv
BY InitIInv, NextIInv, PTL DEF Spec

\* Every index get_next_backend uses is one of a backend, and every counter
\* keeps the range of int.
THEOREM TypeCorrect == Spec => []TypeOK
<1>1. IInv => TypeOK
  BY DEF IInv
<1> QED BY <1>1, InductiveInvariant, PTL

\* With the scanning algorithms, no more connects go to a backend that
\* check_health has found down than workers had judged it healthy before,
\* however the stores of is_healthy, the picks and the deaths of workers meet.
THEOREM LateConnectsAlwaysBounded == Spec => []LateConnectsBounded
<1>1. IInv => LateConnectsBounded
  BY DEF IInv, LateLeft, LateConnectsBounded
<1> QED BY <1>1, InductiveInvariant, PTL

-----------------------------------------------------------------------------
(* Arithmetic modulo the range of int.                                     *)

\* Quotient and remainder are unique.
LEMMA Remainders ==
  ASSUME NEW m \in Nat \ {0}, NEW q \in Int, NEW r \in 0 .. m - 1,
         NEW p \in Int, NEW s \in 0 .. m - 1, m * q + r = m * p + s
  PROVE  q = p /\ r = s
<1>1. m * (q - p) = s - r
  OBVIOUS
<1>2. ~ (q - p >= 1)
  <2>1. SUFFICES ASSUME q - p >= 1 PROVE FALSE
    OBVIOUS
  <2>2. m * (q - p) >= m
    BY <2>1
  <2> QED BY <1>1, <2>2
<1>3. ~ (q - p <= -1)
  <2>1. SUFFICES ASSUME q - p <= -1 PROVE FALSE
    OBVIOUS
  <2>2. m * (q - p) <= -m
    BY <2>1
  <2> QED BY <1>1, <2>2
<1> QED BY <1>1, <1>2, <1>3

\* A remainder is what is left of the number.
LEMMA Division ==
  ASSUME NEW m \in Nat \ {0}, NEW a \in Int
  PROVE  a % m \in 0 .. m - 1 /\ \E q \in Int : a = m * q + (a % m)
<1>1. /\ a \div m \in Int /\ a % m \in 0 .. m - 1
      /\ a = m * (a \div m) + (a % m)
  OBVIOUS
<1> PICK q : q = a \div m
  OBVIOUS
<1>2. q \in Int /\ a = m * q + (a % m)
  BY <1>1, Zenon
<1> QED BY <1>1, <1>2, Zenon

\* Whole multiples of m do not change a remainder.
LEMMA RemainderOfMore ==
  ASSUME NEW m \in Nat \ {0}, NEW a \in Int, NEW k \in Int
  PROVE  (a + m * k) % m = a % m
<1> PICK b : b = a + m * k
  OBVIOUS
<1>1. b \in Int /\ m * k \in Int
  OBVIOUS
<1> PICK r : r = a % m
  OBVIOUS
<1> PICK s : s = b % m
  OBVIOUS
<1>2. r \in 0 .. m - 1 /\ \E q \in Int : a = m * q + r
  BY Division, Zenon
<1>3. s \in 0 .. m - 1 /\ \E p \in Int : b = m * p + s
  BY <1>1, Division, Zenon
<1>4. PICK q \in Int : a = m * q + r
  BY <1>2
<1>5. PICK p \in Int : b = m * p + s
  BY <1>3
<1>6. m * p + s = m * (q + k) + r /\ q + k \in Int
  BY ONLY <1>2, <1>3, <1>4, <1>5, b = a + m * k, k \in Int, m \in Nat
<1>7. s = r
  BY ONLY <1>2, <1>3, <1>6, m \in Nat \ {0}, Remainders
<1> QED BY <1>7

\* How far apart two numbers are that an int cannot tell from each other.
Turns(d) == \E k \in Int : d = (2 * IntLimit) * k

LEMMA TurnsAdd ==
  ASSUME NEW c \in Int, NEW d \in Int, Turns(c), Turns(d)
  PROVE  Turns(c - d)
<1>1. PICK j \in Int : c = (2 * IntLimit) * j
  BY DEF Turns
<1>2. PICK k \in Int : d = (2 * IntLimit) * k
  BY DEF Turns
<1> PICK m \in Int : m = 2 * IntLimit
  BY LoadBalancerAssumption
<1>3. c - d = m * (j - k)
  <2>1. m * (j - k) = m * j - m * k
    OBVIOUS
  <2> QED BY <1>1, <1>2, <2>1
<1>4. j - k \in Int
  OBVIOUS
<1> QED BY <1>3, <1>4, Zenon DEF Turns

LEMMA WrapTurns ==
  ASSUME NEW n \in Int
  PROVE  Wrap(n) \in Int /\ Turns(n - Wrap(n))
<1>1. (2 * IntLimit) \in Nat \ {0} /\ n + IntLimit \in Int
  BY LoadBalancerAssumption
<1> PICK m : m = 2 * IntLimit
  OBVIOUS
<1> PICK b : b = n + IntLimit
  OBVIOUS
<1> PICK r : r = b % m
  OBVIOUS
<1>2. r \in 0 .. m - 1 /\ \E q \in Int : b = m * q + r
  BY <1>1, Division, Zenon
<1>3. PICK q \in Int : b = m * q + r
  BY <1>2
<1>4. /\ n - (r - IntLimit) = m * q
      /\ r - IntLimit \in Int
  BY <1>1, <1>2, <1>3, LoadBalancerAssumption
<1> QED BY <1>4, Zenon DEF Wrap, Turns

LEMMA WrapOfTurned ==
  ASSUME NEW a \in Int, NEW b \in Int, Turns(a - b)
  PROVE  Wrap(a) = Wrap(b)
<1>1. PICK k \in Int : a - b = (2 * IntLimit) * k
  BY DEF Turns
<1> PICK m : m = 2 * IntLimit
  OBVIOUS
<1>2. m \in Nat \ {0} /\ b + IntLimit \in Int /\ m * k \in Int
  BY LoadBalancerAssumption
<1>3. ((b + IntLimit) + m * k) % m = (b + IntLimit) % m
  BY <1>2, RemainderOfMore
<1>4. a + IntLimit = (b + IntLimit) + m * k
  BY <1>1, <1>2, LoadBalancerAssumption
<1> QED BY <1>3, <1>4, Zenon DEF Wrap

\* A summand of a that is n more, modulo the range, makes a that much more.
LEMMA WrapOfSum ==
  ASSUME NEW a \in Int, NEW b \in Int, NEW n \in Int, NEW x \in Int, Wrap(a) = Wrap(b)
  PROVE  Wrap(a + (Wrap(x + n) - x)) = Wrap(b + n)
<1> PICK y : y = x + n
  OBVIOUS
<1> PICK v : v = Wrap(a)
  OBVIOUS
<1> PICK z : z = Wrap(y)
  OBVIOUS
<1>1. y \in Int
  OBVIOUS
<1>2. v \in Int /\ Turns(a - v) /\ Turns(b - v)
  BY WrapTurns
<1>3. z \in Int /\ Turns(y - z)
  BY <1>1, WrapTurns
<1> PICK c : c = a - v
  OBVIOUS
<1> PICK d : d = b - v
  OBVIOUS
<1> PICK e : e = y - z
  OBVIOUS
<1>4. /\ c \in Int /\ d \in Int /\ e \in Int /\ c - d \in Int
      /\ Turns(c) /\ Turns(d) /\ Turns(e)
  BY <1>1, <1>2, <1>3
<1>5. Turns((c - d) - e)
  BY <1>4, TurnsAdd
<1>6. /\ (a + (z - x)) - (b + n) = (c - d) - e
      /\ a + (z - x) \in Int /\ b + n \in Int
  BY <1>2, <1>3
<1> QED BY <1>5, <1>6, WrapOfTurned

\* A number in the range is itself.
LEMMA WrapKeeps == ASSUME NEW n \in CInt PROVE Wrap(n) = n
<1> PICK b : b = n + IntLimit
  OBVIOUS
<1> PICK m : m = 2 * IntLimit
  OBVIOUS
<1>1. b \in 0 .. m - 1 /\ m \in Nat \ {0}
  BY LoadBalancerAssumption DEF CInt
<1>2. b % m = b
  BY <1>1
<1> QED BY <1>1, <1>2, LoadBalancerAssumption DEF Wrap, CInt

-----------------------------------------------------------------------------
(* Where a pick is.                                                        *)

Choosing == {"scan", "weigh", "load", "compare"}
Chosen == {"take", "refund", "connect", "failed", "count"}
InPick == {"stat", "load_index", "store_index", "judge"} \cup Choosing \cup Chosen

\* Without health checks, only the backends without statistics look down.
Calm ==
  ~check_health => mpc = "pause" /\ \A b \in Backends : is_healthy[b] = (b < process_count)

\* A scanning worker prefers a backend it has passed, and when it has chosen
\* it has passed all in the loop.  Where no health changes under it, it
\* prefers and weighs only the eligible, and gives up only backend 0.
Passed(w) ==
  /\ pc[w] \in {"idle"} \cup Choosing \cup Chosen
  /\ pc[w] \in Choosing \cup Chosen => stat[w] < i[w]
  /\ pc[w] \in Chosen => i[w] >= backend_count
  /\ Steady /\ pc[w] \in Choosing \cup Chosen => stat[w] \in Eligible
  /\ Steady /\ pc[w] \in {"weigh", "load", "compare"} => i[w] \in Eligible
  /\ Steady /\ pc[w] = "refund" => backend_count <= 1

Ahead == algorithm # "RoundRobin" => \A w \in Workers : Passed(w)

\* The configuration does not change, and a pick is counted when it starts.
LEMMA Frames ==
  ASSUME [Next]_vars
  PROVE  UNCHANGED loaded /\ (picks' = picks \/ picks' = picks + 1)
<1>1. ASSUME NEW w \in Workers, Pick(w) \/ Disconnect(w) \/ Dies(w)
      PROVE  UNCHANGED loaded /\ (picks' = picks \/ picks' = picks + 1)
  BY <1>1 DEF Pick, RoundRobin, Scanning, RRConfig, RRStat, RRLoad, RRDies, End, RRStore,
       WRRStart, LCStart, ScanFrom0, Scan, WRRWeigh, LoadCandidate, Compare, WRRTake, WRRRefund,
       Judge, Connects, ConnectFails, CountFailed, Count, Disconnect, Dies
<1>2. CASE Master
  BY <1>2 DEF Master, MasterWakes, MasterProbes, MasterStores, MasterSignalled
<1>3. CASE UNCHANGED vars
  BY <1>3 DEF vars
<1> QED BY <1>1, <1>2, <1>3 DEF Next

\* What is eligible.
LEMMA EligibleSet ==
  ASSUME IInv
  PROVE  /\ Eligible \subseteq Backends /\ IsFiniteSet(Eligible) /\ 0 \in Eligible
         /\ \A b \in Eligible : b \in Nat /\ (b = 0 \/ b < backend_count)
         /\ backend_count <= 1 => Eligible = {0}
         /\ backend_count \in Nat
<1>1. process_count \in Int /\ process_count >= 1 /\ backend_count \in Nat
  BY LoadBalancerAssumption, Constants DEF IInv, TypeOK
<1>2. Eligible \subseteq Backends /\ Backends \subseteq Nat /\ 0 \in Backends
  BY Constants DEF Eligible, Backends
<1>3. IsFiniteSet(Eligible)
  BY <1>2, BackendsFinite, FS_Subset
<1>4. 0 \in Eligible
  BY <1>1, <1>2 DEF Eligible
<1>5. \A b \in Eligible : b \in Nat /\ (b = 0 \/ b < backend_count)
  BY <1>2 DEF Eligible
<1>6. ASSUME backend_count <= 1, NEW b \in Eligible PROVE b = 0
  BY <1>1, <1>5, <1>6
<1>7. backend_count <= 1 => Eligible = {0}
  BY <1>4, <1>6
<1> QED BY <1>1, <1>2, <1>3, <1>4, <1>5, <1>7

LEMMA StaysEligible == ASSUME UNCHANGED loaded PROVE Eligible' = Eligible /\ Steady' = Steady
BY DEF loaded, Eligible, Steady

LEMMA CalmStep == ASSUME Calm, [Next]_vars PROVE Calm'
<1>1. UNCHANGED loaded
  BY Frames
<1>2. ASSUME NEW w \in Workers, Pick(w) \/ Disconnect(w) \/ Dies(w)
      PROVE  UNCHANGED <<mpc, is_healthy>>
  BY <1>2 DEF Pick, RoundRobin, Scanning, RRConfig, RRStat, RRLoad, RRDies, End, RRStore,
       WRRStart, LCStart, ScanFrom0, Scan, WRRWeigh, LoadCandidate, Compare, WRRTake, WRRRefund,
       Judge, Connects, ConnectFails, CountFailed, Count, Disconnect, Dies, shared, master
<1>3. ASSUME ~check_health, Master PROVE UNCHANGED <<mpc, is_healthy>>
  BY <1>3 DEF Calm, Master, MasterWakes, MasterProbes, MasterStores, MasterSignalled,
       shared, master
<1>4. CASE UNCHANGED vars
  BY <1>1, <1>4 DEF vars, shared, master, Calm, loaded
<1> QED BY <1>1, <1>2, <1>3, <1>4 DEF Next, Calm, loaded

\* One worker moves.
LEMMA OthersStay ==
  ASSUME IInv, NEW w \in Workers, Pick(w) \/ Disconnect(w) \/ Dies(w)
  PROVE  \A v \in Workers \ {w} :
           /\ pc'[v] = pc[v] /\ config'[v] = config[v] /\ stat'[v] = stat[v]
           /\ i'[v] = i[v] /\ value'[v] = value[v] /\ open'[v] = open[v]
<1> USE DEF At, Goto, locals, IInv, TypeOK
<1>1. CASE RoundRobin(w)
  BY <1>1 DEF RoundRobin, RRConfig, RRStat, RRLoad, RRDies, RRStore, End
<1>2. CASE WRRStart(w) \/ LCStart(w)
  BY <1>2 DEF WRRStart, LCStart, ScanFrom0
<1>3. CASE Scan(w) \/ WRRWeigh(w) \/ LoadCandidate(w)
  BY <1>3 DEF Scan, WRRWeigh, LoadCandidate
<1>4. CASE Compare(w)
  BY <1>4 DEF Compare
<1>5. CASE WRRTake(w) \/ WRRRefund(w) \/ Judge(w)
  BY <1>5 DEF WRRTake, WRRRefund, Judge
<1>6. CASE Connects(w) \/ ConnectFails(w) \/ CountFailed(w) \/ Count(w)
  BY <1>6 DEF Connects, ConnectFails, CountFailed, Count
<1>7. CASE Disconnect(w) \/ Dies(w)
  BY <1>7 DEF Disconnect, Dies, End
<1> QED BY <1>1, <1>2, <1>3, <1>4, <1>5, <1>6, <1>7 DEF Pick, Scanning

LEMMA PassedMoves ==
  ASSUME IInv, Calm, NEW w \in Workers, Passed(w),
         Pick(w) \/ Disconnect(w) \/ Dies(w),
         algorithm # "RoundRobin", UNCHANGED loaded
  PROVE  Passed(w)'
<1> USE DEF At, Goto, locals, Passed, Choosing, Chosen
<1>1. /\ DOMAIN pc = Workers /\ pc = [v \in Workers |-> pc[v]]
      /\ config \in [Workers -> Backends]
      /\ stat \in [Workers -> Backends] /\ i \in [Workers -> 0 .. NumBackends]
      /\ Eligible' = Eligible /\ Steady' = Steady /\ backend_count' = backend_count
  <2>1. Eligible' = Eligible /\ Steady' = Steady /\ backend_count' = backend_count
    BY StaysEligible DEF loaded
  <2>2. DOMAIN pc = Workers /\ pc = [v \in Workers |-> pc[v]]
    BY DEF IInv, TypeOK
  <2> QED BY <2>1, <2>2 DEF IInv, TypeOK
<1>n. /\ stat[w] \in Int /\ stat[w] \in Backends /\ i[w] \in Int /\ i[w] <= NumBackends
      /\ NumBackends \in Int /\ backend_count \in Int /\ backend_count <= NumBackends
      /\ 0 \in Eligible /\ process_count \in Int /\ stat[w] >= 0
  <2>1. backend_count \in BackendCounts /\ process_count \in ProcessCounts
    BY DEF IInv, TypeOK
  <2> QED BY <1>1, <2>1, Constants, EligibleSet, LoadBalancerAssumption DEF Backends
<1>2. CASE RoundRobin(w)
  BY <1>2 DEF RoundRobin, RRConfig, RRStat, RRLoad, RRDies, RRStore
<1>3. CASE WRRStart(w) \/ LCStart(w)
  <2>1. pc'[w] = "scan" /\ stat'[w] = 0 /\ i'[w] = 1
    BY <1>1, <1>3 DEF WRRStart, LCStart, ScanFrom0
  <2> QED BY <1>1, <1>n, <2>1
<1>4. CASE Scan(w)
  <2>1. pc[w] = "scan" /\ i[w] < backend_count /\ i[w] >= 1 /\ UNCHANGED <<config, stat>>
    BY <1>n, <1>4 DEF Scan
  <2>2. CASE is_healthy[i[w]]
    <3>1. pc'[w] \in {"weigh", "load"} /\ UNCHANGED i
      BY <1>1, <1>4, <2>2 DEF Scan
    <3>2. Steady => i[w] \in Eligible
      <4>1. SUFFICES ASSUME ~check_health PROVE i[w] \in Eligible
        BY <1>n, <2>1 DEF Steady
      <4>2. i[w] \in Backends
        BY <1>n, <2>1 DEF Backends
      <4>3. i[w] < process_count
        BY <2>2, <4>1, <4>2 DEF Calm
      <4> QED BY <2>1, <4>2, <4>3 DEF Eligible
    <3> QED BY <1>1, <2>1, <3>1, <3>2
  <2>3. CASE ~is_healthy[i[w]]
    <3>1. pc' = pc /\ i'[w] = i[w] + 1
      BY <1>1, <1>4, <2>3 DEF Scan
    <3>2. i'[w] \in Int /\ stat[w] < i'[w]
      BY <1>n, <2>1, <3>1
    <3> QED BY <1>1, <2>1, <3>1, <3>2
  <2> QED BY <2>2, <2>3
<1>5. CASE WRRWeigh(w) \/ LoadCandidate(w)
  <2>1. /\ pc[w] \in {"weigh", "load"} /\ pc'[w] \in {"load", "compare"}
        /\ UNCHANGED <<config, stat, i>>
    BY <1>1, <1>5 DEF WRRWeigh, LoadCandidate
  <2> QED BY <1>1, <2>1
<1>6. CASE Compare(w)
  <2>1. /\ pc[w] = "compare" /\ pc'[w] = "scan" /\ i'[w] = i[w] + 1
        /\ config'[w] = stat'[w] /\ stat'[w] \in {stat[w], i[w]}
    BY <1>1, <1>6 DEF Compare
  <2>2. stat[w] < i[w]
    BY <2>1
  <2>3. stat'[w] < i'[w]
    BY <1>n, <2>1, <2>2
  <2> QED BY <1>1, <2>1, <2>3
<1>7. CASE WRRTake(w) \/ WRRRefund(w)
  <2>1. /\ pc[w] \in {"take", "refund"} /\ pc'[w] \in {"connect", "idle"}
        /\ UNCHANGED <<config, stat, i>>
    BY <1>1, <1>7 DEF WRRTake, WRRRefund
  <2> QED BY <1>1, <2>1
<1>8. CASE Judge(w)
  <2>1. /\ pc[w] = "scan" /\ i[w] >= backend_count
        /\ pc'[w] \in {"take", "refund", "connect", "idle"}
        /\ pc'[w] = "refund" => ~is_healthy[stat[w]]
        /\ UNCHANGED <<config, stat, i>>
    BY <1>1, <1>8 DEF Judge
  <2>2. Steady /\ pc'[w] = "refund" => backend_count <= 1
    <3>1. SUFFICES ASSUME ~check_health, stat[w] \in Eligible PROVE is_healthy[stat[w]]
      BY <2>1 DEF Steady
    <3> QED BY <1>n, <3>1 DEF Eligible, Calm
  <2>3. stat[w] < i[w]
    BY <2>1
  <2> QED BY <1>1, <2>1, <2>2, <2>3
<1>9. CASE Connects(w) \/ ConnectFails(w) \/ CountFailed(w) \/ Count(w)
  <2>1. /\ pc[w] \in Chosen \ {"refund"} /\ pc'[w] \in {"idle", "failed", "count"}
        /\ UNCHANGED <<config, stat, i>>
    BY <1>1, <1>9 DEF Connects, ConnectFails, CountFailed, Count
  <2> QED BY <1>1, <2>1
<1>10. CASE Disconnect(w) \/ Dies(w)
  BY <1>1, <1>10 DEF Disconnect, Dies, End
<1> QED BY <1>2, <1>3, <1>4, <1>5, <1>6, <1>7, <1>8, <1>9, <1>10 DEF Pick, Scanning

LEMMA AheadStep == ASSUME IInv, Calm, Ahead, [Next]_vars PROVE Ahead'
<1>1. UNCHANGED loaded
  BY Frames
<1>2. CASE algorithm = "RoundRobin"
  BY <1>1, <1>2 DEF Ahead, loaded
<1>3. CASE Master \/ UNCHANGED vars
  <2>1. UNCHANGED <<pc, stat, i, backend_count, algorithm>> /\ Eligible' = Eligible /\ Steady' = Steady
    BY <1>1, <1>3, StaysEligible
       DEF Master, MasterWakes, MasterProbes, MasterStores, MasterSignalled, vars, locals, loaded
  <2> QED BY <2>1 DEF Ahead, Passed
<1>4. ASSUME NEW w \in Workers, Pick(w) \/ Disconnect(w) \/ Dies(w),
             algorithm # "RoundRobin"
      PROVE  Ahead'
  <2>1. Passed(w)'
    BY <1>1, <1>4, PassedMoves DEF Ahead
  <2>2. ASSUME NEW v \in Workers \ {w} PROVE Passed(v)'
    <3>1. /\ Passed(v) /\ Eligible' = Eligible /\ Steady' = Steady
          /\ backend_count' = backend_count
      BY <1>1, <1>4, StaysEligible DEF Ahead, loaded
    <3>2. pc'[v] = pc[v] /\ stat'[v] = stat[v] /\ i'[v] = i[v]
      BY <1>4, OthersStay
    <3> QED BY <3>1, <3>2 DEF Passed
  <2> QED BY <2>1, <2>2 DEF Ahead
<1> QED BY <1>1, <1>2, <1>3, <1>4 DEF Next

-----------------------------------------------------------------------------
(* What is counted.                                                        *)

Busy == {w \in Workers : pc[w] \in InPick}
Unfailed == {w \in Workers : pc[w] \in InPick \ {"count"}}

\* A pick counts at most one connection, and before it at most one failure:
\* until INT_MAX picks have started no count has wrapped.
CountsLag ==
  picks < IntLimit =>
    \A b \in Backends :
      /\ connections[b] >= 0 /\ connections[b] + Cardinality(Busy) <= picks
      /\ failed_connections[b] >= 0
      /\ failed_connections[b] + Cardinality(Unfailed) <= picks

\* Sets of workers are finite.
LEMMA WorkerSets ==
  ASSUME NEW S, S \subseteq Workers
  PROVE  /\ IsFiniteSet(S) /\ Cardinality(S) \in Nat
         /\ Cardinality(S) <= MaxWorkers /\ MaxWorkers \in Nat
<1>1. IsFiniteSet(Workers)
  BY LoadBalancerAssumption
<1> QED BY <1>1, FS_Subset, FS_CardinalityType DEF MaxWorkers

\* A set of workers without one of them.
LEMMA OneLess ==
  ASSUME NEW S, S \subseteq Workers, NEW w
  PROVE  /\ w \in S => Cardinality(S \ {w}) = Cardinality(S) - 1
         /\ Cardinality(S) <= Cardinality(S \ {w}) + 1
         /\ Cardinality(S \ {w}) \in Nat
<1>1. IsFiniteSet(S) /\ Cardinality(S) \in Nat
  BY WorkerSets
<1>2. w \in S => Cardinality(S \ {w}) = Cardinality(S) - 1
  BY <1>1, FS_RemoveElement
<1>3. w \notin S => Cardinality(S \ {w}) = Cardinality(S)
  <2>1. w \notin S => S \ {w} = S
    OBVIOUS
  <2> QED BY <2>1, Zenon
<1>4. Cardinality(S \ {w}) \in Nat
  <2>1. S \ {w} \subseteq Workers
    OBVIOUS
  <2> QED BY <2>1, WorkerSets
<1> QED BY <1>1, <1>2, <1>3, <1>4

\* How the sizes of two sets of workers compare.
LEMMA SetChanges ==
  ASSUME NEW S, S \subseteq Workers, NEW T, T \subseteq Workers, NEW w
  PROVE  /\ S \subseteq T => Cardinality(S) <= Cardinality(T)
         /\ S \ {w} \subseteq T => Cardinality(S) <= Cardinality(T) + 1
         /\ w \in S /\ S \ {w} = T => Cardinality(S) = Cardinality(T) + 1
         /\ w \in T /\ w \notin S /\ S \subseteq T => Cardinality(S) + 1 <= Cardinality(T)
<1>1. /\ Cardinality(S) \in Nat /\ IsFiniteSet(T) /\ Cardinality(T) \in Nat
      /\ Cardinality(S \ {w}) \in Nat /\ Cardinality(T \ {w}) \in Nat
  BY WorkerSets, OneLess
<1>2. S \subseteq T => Cardinality(S) <= Cardinality(T)
  BY <1>1, FS_Subset
<1>3. S \ {w} \subseteq T => Cardinality(S \ {w}) <= Cardinality(T)
  BY <1>1, FS_Subset
<1>4. Cardinality(S) <= Cardinality(S \ {w}) + 1
  BY OneLess
<1>5. w \in S => Cardinality(S \ {w}) = Cardinality(S) - 1
  BY OneLess
<1>6. ASSUME w \in T, w \notin S, S \subseteq T PROVE Cardinality(S) + 1 <= Cardinality(T)
  <2>1. S \subseteq T \ {w} /\ IsFiniteSet(T \ {w})
    BY <1>1, <1>6, FS_Subset
  <2>2. Cardinality(S) <= Cardinality(T \ {w})
    BY <2>1, FS_Subset
  <2>3. Cardinality(T \ {w}) = Cardinality(T) - 1
    BY <1>6, OneLess
  <2> QED BY <1>1, <2>2, <2>3
<1>7. w \in S /\ S \ {w} = T => Cardinality(S) = Cardinality(T) + 1
  <2>1. w \in S /\ S \ {w} = T => Cardinality(T) = Cardinality(S) - 1
    BY <1>5, Zenon
  <2> QED BY <1>1, <2>1
<1>8. S \ {w} \subseteq T => Cardinality(S) <= Cardinality(T) + 1
  BY ONLY <1>1, <1>3, <1>4
<1> QED BY <1>2, <1>6, <1>7, <1>8, Zenon

\* The steps that count nothing.
LEMMA CountsNothing ==
  ASSUME IInv, [Next]_vars, \A w \in Workers : ~CountFailed(w) /\ ~Count(w)
  PROVE  /\ UNCHANGED <<connections, failed_connections>>
         /\ \/ picks' = picks /\ Busy' \subseteq Busy /\ Unfailed' \subseteq Unfailed
            \/ \E w \in Workers :
                 /\ picks' = picks + 1
                 /\ Busy' \ {w} \subseteq Busy /\ Unfailed' \ {w} \subseteq Unfailed
<1> USE DEF At, Goto, shared, IInv, TypeOK, Busy, Unfailed, InPick, Choosing, Chosen
<1>1. ASSUME NEW w \in Workers, RRConfig(w) \/ WRRStart(w) \/ LCStart(w)
      PROVE  /\ UNCHANGED <<connections, failed_connections>> /\ picks' = picks + 1
             /\ Busy' \ {w} \subseteq Busy /\ Unfailed' \ {w} \subseteq Unfailed
  BY <1>1 DEF RRConfig, WRRStart, LCStart, ScanFrom0
<1>2. ASSUME NEW w \in Workers,
             RRStat(w) \/ RRLoad(w) \/ RRDies(w) \/ RRStore(w) \/ Disconnect(w) \/ Dies(w)
      PROVE  /\ UNCHANGED <<connections, failed_connections>> /\ picks' = picks
             /\ Busy' \subseteq Busy /\ Unfailed' \subseteq Unfailed
  BY <1>2 DEF RRStat, RRLoad, RRDies, RRStore, Disconnect, Dies, End
<1>3. ASSUME NEW w \in Workers,
             Scan(w) \/ WRRWeigh(w) \/ LoadCandidate(w) \/ Compare(w) \/ WRRTake(w) \/ WRRRefund(w)
      PROVE  /\ UNCHANGED <<connections, failed_connections>> /\ picks' = picks
             /\ Busy' \subseteq Busy /\ Unfailed' \subseteq Unfailed
  BY <1>3 DEF Scan, WRRWeigh, LoadCandidate, Compare, WRRTake, WRRRefund
<1>4. ASSUME NEW w \in Workers, Judge(w) \/ Connects(w) \/ ConnectFails(w)
      PROVE  /\ UNCHANGED <<connections, failed_connections>> /\ picks' = picks
             /\ Busy' \subseteq Busy /\ Unfailed' \subseteq Unfailed
  BY <1>4 DEF Judge, Connects, ConnectFails
<1>5. CASE Master \/ UNCHANGED vars
  BY <1>5 DEF Master, MasterWakes, MasterProbes, MasterStores, MasterSignalled, vars
<1>6. ASSUME NEW w \in Workers, Pick(w) \/ Disconnect(w) \/ Dies(w)
      PROVE  \/ RRConfig(w) \/ WRRStart(w) \/ LCStart(w)
             \/ RRStat(w) \/ RRLoad(w) \/ RRDies(w) \/ RRStore(w) \/ Disconnect(w) \/ Dies(w)
             \/ Scan(w) \/ WRRWeigh(w) \/ LoadCandidate(w) \/ Compare(w) \/ WRRTake(w) \/ WRRRefund(w)
             \/ Judge(w) \/ Connects(w) \/ ConnectFails(w)
  BY <1>6, Zenon DEF Pick, RoundRobin, Scanning
<1> HIDE DEF At, Goto, shared, IInv, TypeOK, Busy, Unfailed, InPick, Choosing, Chosen
<1>7. ASSUME NEW w \in Workers, Pick(w) \/ Disconnect(w) \/ Dies(w)
      PROVE  /\ UNCHANGED <<connections, failed_connections>>
             /\ \/ picks' = picks /\ Busy' \subseteq Busy /\ Unfailed' \subseteq Unfailed
                \/ /\ picks' = picks + 1
                   /\ Busy' \ {w} \subseteq Busy /\ Unfailed' \ {w} \subseteq Unfailed
  BY <1>1, <1>2, <1>3, <1>4, <1>6, <1>7
<1> QED BY <1>5, <1>7 DEF Next

\* A worker that counts leaves the sets that bound what is counted.
LEMMA CountsOne ==
  ASSUME IInv, NEW w \in Workers
  PROVE  /\ Count(w) =>
              /\ w \in Busy /\ Busy' = Busy \ {w} /\ Unfailed' \subseteq Unfailed
              /\ pc[w] = "count" /\ pc' = [pc EXCEPT ![w] = "idle"]
              /\ connections' = [connections EXCEPT ![stat[w]] = Wrap(@ + 1)]
              /\ UNCHANGED <<failed_connections, picks, open, stat, config, i, value, is_healthy>>
         /\ CountFailed(w) =>
              /\ w \in Unfailed /\ Unfailed' = Unfailed \ {w} /\ Busy' \subseteq Busy
              /\ pc[w] = "failed" /\ pc' = [pc EXCEPT ![w] = "count"]
              /\ failed_connections' = [failed_connections EXCEPT ![stat[w]] = Wrap(@ + 1)]
              /\ UNCHANGED <<connections, picks, open, stat, config, i, value, is_healthy>>
<1> USE DEF At, Goto, locals, IInv, TypeOK, Busy, Unfailed, InPick, Choosing, Chosen
<1>1. CASE Count(w)
  BY <1>1 DEF Count, CountFailed
<1>2. CASE CountFailed(w)
  BY <1>2 DEF Count, CountFailed
<1> QED BY <1>1, <1>2

LEMMA WorkerSubsets ==
  /\ Busy \subseteq Workers /\ Busy' \subseteq Workers
  /\ Unfailed \subseteq Workers /\ Unfailed' \subseteq Workers
BY DEF Busy, Unfailed

\* Below INT_MAX, one more is one more.
LEMMA WrapNext ==
  ASSUME NEW n \in Nat, n + 1 < IntLimit
  PROVE  Wrap(n + 1) = n + 1
<1>1. n + 1 \in CInt
  BY LoadBalancerAssumption DEF CInt
<1> QED BY <1>1, WrapKeeps

LEMMA CountsTypes ==
  ASSUME IInv
  PROVE  /\ connections \in [Backends -> Int] /\ failed_connections \in [Backends -> Int]
         /\ picks \in Nat /\ IntLimit \in Int
         /\ stat \in [Workers -> Backends]
<1>1. CInt \subseteq Int /\ IntLimit \in Int
  BY LoadBalancerAssumption DEF CInt
<1>2. picks \in Nat
  BY LoadBalancerAssumption DEF IInv, TypeOK
<1> QED BY <1>1, <1>2 DEF IInv, TypeOK

LEMMA CountsLagStep == ASSUME IInv, CountsLag, [Next]_vars PROVE CountsLag'
<1> SUFFICES ASSUME picks' < IntLimit, NEW b \in Backends
             PROVE  /\ connections'[b] >= 0 /\ connections'[b] + Cardinality(Busy') <= picks'
                    /\ failed_connections'[b] >= 0
                    /\ failed_connections'[b] + Cardinality(Unfailed') <= picks'
  BY DEF CountsLag
<1>1. /\ connections \in [Backends -> Int] /\ failed_connections \in [Backends -> Int]
      /\ picks \in Nat /\ IntLimit \in Int /\ stat \in [Workers -> Backends]
  BY CountsTypes
<1>2. picks < IntLimit
  BY <1>1, Frames
<1>3. /\ Cardinality(Busy) \in Nat /\ Cardinality(Busy') \in Nat
      /\ Cardinality(Unfailed) \in Nat /\ Cardinality(Unfailed') \in Nat
  BY WorkerSubsets, WorkerSets
<1>4. \A a \in Backends :
        /\ connections[a] \in Nat /\ connections[a] + Cardinality(Busy) <= picks
        /\ failed_connections[a] \in Nat
        /\ failed_connections[a] + Cardinality(Unfailed) <= picks
  BY <1>1, <1>2 DEF CountsLag
<1>5. CASE \A w \in Workers : ~CountFailed(w) /\ ~Count(w)
  <2>1. UNCHANGED <<connections, failed_connections>>
    BY <1>5, CountsNothing
  <2>2. CASE picks' = picks /\ Busy' \subseteq Busy /\ Unfailed' \subseteq Unfailed
    <3>1. Cardinality(Busy') <= Cardinality(Busy) /\ Cardinality(Unfailed') <= Cardinality(Unfailed)
      BY <2>2, WorkerSubsets, SetChanges
    <3> QED BY <1>1, <1>3, <1>4, <2>1, <2>2, <3>1
  <2>3. ASSUME NEW w \in Workers, picks' = picks + 1,
               Busy' \ {w} \subseteq Busy, Unfailed' \ {w} \subseteq Unfailed
        PROVE  /\ connections'[b] >= 0 /\ connections'[b] + Cardinality(Busy') <= picks'
               /\ failed_connections'[b] >= 0
               /\ failed_connections'[b] + Cardinality(Unfailed') <= picks'
    <3>1. /\ Cardinality(Busy') <= Cardinality(Busy) + 1
          /\ Cardinality(Unfailed') <= Cardinality(Unfailed) + 1
      BY <2>3, WorkerSubsets, SetChanges
    <3> QED BY <1>1, <1>3, <1>4, <2>1, <2>3, <3>1
  <2> QED BY <1>5, <2>2, <2>3, CountsNothing
<1>6. ASSUME NEW w \in Workers, Count(w)
      PROVE  /\ connections'[b] >= 0 /\ connections'[b] + Cardinality(Busy') <= picks'
             /\ failed_connections'[b] >= 0
             /\ failed_connections'[b] + Cardinality(Unfailed') <= picks'
  <2>1. /\ w \in Busy /\ Busy' = Busy \ {w} /\ Unfailed' \subseteq Unfailed
        /\ connections' = [connections EXCEPT ![stat[w]] = Wrap(@ + 1)]
        /\ UNCHANGED <<failed_connections, picks>>
    BY <1>6, CountsOne
  <2>2. /\ Cardinality(Busy) = Cardinality(Busy') + 1
        /\ Cardinality(Unfailed') <= Cardinality(Unfailed)
    BY <2>1, WorkerSubsets, SetChanges
  <2>3. stat[w] \in Backends
    BY <1>1
  <2>4. Wrap(connections[stat[w]] + 1) = connections[stat[w]] + 1
    BY <1>1, <1>2, <1>3, <1>4, <2>2, <2>3, WrapNext
  <2>5. connections'[b] \in {connections[b], connections[b] + 1}
    BY <1>1, <2>1, <2>4
  <2>6. /\ connections[b] \in Nat /\ connections[b] + Cardinality(Busy) <= picks
        /\ failed_connections[b] \in Nat
        /\ failed_connections[b] + Cardinality(Unfailed) <= picks
    BY <1>4
  <2>7. UNCHANGED <<failed_connections, picks>>
    BY <2>1
  <2> QED BY ONLY <1>1, <1>3, <2>2, <2>5, <2>6, <2>7
<1>7. ASSUME NEW w \in Workers, CountFailed(w)
      PROVE  /\ connections'[b] >= 0 /\ connections'[b] + Cardinality(Busy') <= picks'
             /\ failed_connections'[b] >= 0
             /\ failed_connections'[b] + Cardinality(Unfailed') <= picks'
  <2>1. /\ w \in Unfailed /\ Unfailed' = Unfailed \ {w} /\ Busy' \subseteq Busy
        /\ failed_connections' = [failed_connections EXCEPT ![stat[w]] = Wrap(@ + 1)]
        /\ UNCHANGED <<connections, picks>>
    BY <1>7, CountsOne
  <2>2. /\ Cardinality(Unfailed) = Cardinality(Unfailed') + 1
        /\ Cardinality(Busy') <= Cardinality(Busy)
    BY <2>1, WorkerSubsets, SetChanges
  <2>3. stat[w] \in Backends
    BY <1>1
  <2>4. Wrap(failed_connections[stat[w]] + 1) = failed_connections[stat[w]] + 1
    BY <1>1, <1>2, <1>3, <1>4, <2>2, <2>3, WrapNext
  <2>5. failed_connections'[b] \in {failed_connections[b], failed_connections[b] + 1}
    BY <1>1, <2>1, <2>4
  <2>6. /\ connections[b] \in Nat /\ connections[b] + Cardinality(Busy) <= picks
        /\ failed_connections[b] \in Nat
        /\ failed_connections[b] + Cardinality(Unfailed) <= picks
    BY <1>4
  <2>7. UNCHANGED <<connections, picks>>
    BY <2>1
  <2> QED BY ONLY <1>1, <1>3, <2>2, <2>5, <2>6, <2>7
<1> QED BY <1>5, <1>6, <1>7

-----------------------------------------------------------------------------
(* The statistics cover the connections.                                   *)

Opens(b) == SumFunctionOnSet([w \in Workers |-> open[w][b]], Workers)

\* The workers that have a connection to b, or a failure, left to count.
Uncounted(b) == {w \in Workers : pc[w] = "count" /\ stat[w] = b}

\* A failure is counted before the connection is: the difference of the two
\* counts covers the open connections of b even where it has not been.
Covered ==
  algorithm # "RoundRobin" /\ picks < IntLimit =>
    \A b \in Backends :
      Opens(b) <= connections[b] - failed_connections[b] + Cardinality(Uncounted(b))

\* What one worker opens or closes.
LEMMA OpensChange ==
  ASSUME TypeOK, TypeOK', NEW w \in Workers, NEW b \in Backends,
         \A v \in Workers \ {w} : open'[v] = open[v]
  PROVE  /\ Opens(b)' = Opens(b) + (open'[w][b] - open[w][b])
         /\ Opens(b) \in Int /\ Opens(b)' \in Int
         /\ open'[w][b] \in Nat /\ open[w][b] \in Nat
<1> PICK f : f = [v \in Workers |-> open[v][b]]
  OBVIOUS
<1> PICK g : g = [v \in Workers |-> open'[v][b]]
  OBVIOUS
<1>1. \A v \in Workers : open[v][b] \in Nat /\ open'[v][b] \in Nat
  <2>1. \A v \in Workers : open[v] \in [Backends -> Nat] /\ open'[v] \in [Backends -> Nat]
    BY DEF TypeOK
  <2> QED BY <2>1
<1>2. /\ \A v \in Workers : f[v] = open[v][b] /\ g[v] = open'[v][b]
      /\ \A v \in Workers : f[v] \in Int
      /\ g[w] \in Int /\ \A v \in Workers \ {w} : g[v] = f[v]
  BY <1>1
<1>3. IsFiniteSet(Workers)
  BY LoadBalancerAssumption
<1>4. /\ SumFunctionOnSet(g, Workers) = SumFunctionOnSet(f, Workers) + (g[w] - f[w])
      /\ SumFunctionOnSet(f, Workers) \in Int
  <2>1. \A v \in Workers : f[v] \in Int
    BY <1>2
  <2>2. g[w] \in Int /\ \A v \in Workers \ {w} : g[v] = f[v]
    BY <1>2
  <2> QED BY ONLY <1>3, <2>1, <2>2, w \in Workers, SumOfChanged
<1>5. Opens(b) = SumFunctionOnSet(f, Workers) /\ Opens(b)' = SumFunctionOnSet(g, Workers)
  BY Zenon DEF Opens
<1> QED BY <1>1, <1>2, <1>4, <1>5

LEMMA OpensType == ASSUME TypeOK, NEW b \in Backends PROVE Opens(b) \in Int
<1> PICK f : f = [v \in Workers |-> open[v][b]]
  OBVIOUS
<1>1. \A v \in Workers : f[v] \in Int
  <2>1. \A v \in Workers : open[v] \in [Backends -> Nat]
    BY DEF TypeOK
  <2> QED BY <2>1
<1>2. SumFunctionOnSet(f, Workers) \in Int
  BY <1>1, LoadBalancerAssumption, SumOfInts
<1> QED BY <1>2, Zenon DEF Opens

LEMMA OpensKept ==
  ASSUME TypeOK, UNCHANGED open, NEW b \in Backends
  PROVE  Opens(b)' = Opens(b) /\ Opens(b) \in Int
<1>1. Opens(b)' = Opens(b)
  BY Zenon DEF Opens
<1> QED BY <1>1, OpensType

\* The steps of a scanning pick that neither open nor count.
LEMMA OpensNothing ==
  ASSUME IInv, Ahead, [Next]_vars, algorithm # "RoundRobin",
         \A w \in Workers : ~CountFailed(w) /\ ~Count(w) /\ ~Connects(w),
         NEW b \in Backends
  PROVE  /\ UNCHANGED <<connections, failed_connections>>
         /\ Uncounted(b) \subseteq Uncounted(b)'
         /\ \/ UNCHANGED open
            \/ \E w \in Workers : /\ \A v \in Workers \ {w} : open'[v] = open[v]
                                  /\ open'[w][b] <= open[w][b]
<1>1. UNCHANGED <<connections, failed_connections>>
  BY CountsNothing
<1>2. ASSUME NEW w \in Workers, Disconnect(w) \/ Dies(w)
      PROVE  /\ Uncounted(b) \subseteq Uncounted(b)'
             /\ \A v \in Workers \ {w} : open'[v] = open[v]
             /\ open'[w][b] <= open[w][b]
  <2>1. /\ \A v \in Workers \ {w} : open'[v] = open[v]
        /\ \A v \in Workers \ {w} : pc'[v] = pc[v] /\ stat'[v] = stat[v]
    BY <1>2, OthersStay
  <2>2. pc'[w] = pc[w] /\ stat'[w] = stat[w]
    BY <1>2 DEF Disconnect, Dies, End, locals
  <2>3. open[w] \in [Backends -> Nat] /\ DOMAIN open = Workers
    BY DEF IInv, TypeOK
  <2>4. open[w][b] \in Nat
    BY <2>3
  <2>5. CASE Dies(w)
    <3>1. open'[w] = [a \in Backends |-> 0]
      BY <2>3, <2>5 DEF Dies, End
    <3> QED BY <2>1, <2>2, <2>4, <3>1 DEF Uncounted
  <2>6. CASE Disconnect(w)
    <3>1. PICK a \in Backends : open' = [open EXCEPT ![w][a] = @ - 1]
      BY <2>6 DEF Disconnect
    <3>2. open'[w] = [open[w] EXCEPT ![a] = @ - 1]
      BY <2>3, <3>1
    <3>3. open'[w][b] <= open[w][b]
      BY <2>3, <2>4, <3>2
    <3> QED BY <2>1, <2>2, <3>3 DEF Uncounted
  <2> QED BY <1>2, <2>5, <2>6
<1>3. ASSUME NEW w \in Workers, Pick(w)
      PROVE  UNCHANGED open /\ Uncounted(b) \subseteq Uncounted(b)'
  <2>1. \A v \in Workers \ {w} : pc'[v] = pc[v] /\ stat'[v] = stat[v]
    BY <1>3, OthersStay
  <2>2. pc[w] \in {"idle"} \cup Choosing \cup Chosen
    BY DEF Ahead, Passed
  <2>3. pc[w] # "count"
    BY <1>3, <2>2 DEF Pick, RoundRobin, Scanning, RRConfig, RRStat, RRLoad, RRDies, RRStore,
         WRRStart, LCStart, ScanFrom0, Scan, WRRWeigh, LoadCandidate, Compare, WRRTake, WRRRefund,
         Judge, Connects, ConnectFails, CountFailed, Count, At
  <2>4. UNCHANGED open
    BY <1>3, <2>2 DEF Pick, RoundRobin, Scanning, RRConfig, RRStat, RRLoad, RRDies, RRStore,
         WRRStart, LCStart, ScanFrom0, Scan, WRRWeigh, LoadCandidate, Compare, WRRTake, WRRRefund,
         Judge, ConnectFails, CountFailed, Count, At, Choosing, Chosen
  <2> QED BY <2>1, <2>3, <2>4 DEF Uncounted
<1>4. ASSUME Master \/ UNCHANGED vars
      PROVE  UNCHANGED open /\ Uncounted(b) \subseteq Uncounted(b)'
  BY <1>4 DEF Master, MasterWakes, MasterProbes, MasterStores, MasterSignalled, vars, locals, Uncounted
<1> QED BY <1>1, <1>2, <1>3, <1>4 DEF Next

LEMMA CoveredStep ==
  ASSUME IInv, IInv', Ahead, CountsLag, Covered, [Next]_vars
  PROVE  Covered'
<1> SUFFICES ASSUME algorithm' # "RoundRobin", picks' < IntLimit, NEW b \in Backends
             PROVE  Opens(b)' <= connections'[b] - failed_connections'[b] + Cardinality(Uncounted(b)')
  BY DEF Covered
<1>1. /\ connections \in [Backends -> Int] /\ failed_connections \in [Backends -> Int]
      /\ picks \in Nat /\ IntLimit \in Int /\ stat \in [Workers -> Backends]
  BY CountsTypes
<1>2. picks < IntLimit /\ algorithm # "RoundRobin"
  BY <1>1, Frames DEF loaded
<1>3. Opens(b) <= connections[b] - failed_connections[b] + Cardinality(Uncounted(b))
  BY <1>2 DEF Covered
<1>4. Uncounted(b) \subseteq Workers /\ Uncounted(b)' \subseteq Workers
  BY DEF Uncounted
<1>5. Cardinality(Uncounted(b)) \in Nat /\ Cardinality(Uncounted(b)') \in Nat
  BY <1>4, WorkerSets
<1>6. connections[b] \in Int /\ failed_connections[b] \in Int
  BY <1>1
<1>t. TypeOK /\ TypeOK'
  BY DEF IInv
<1>7. CASE \A w \in Workers : ~CountFailed(w) /\ ~Count(w) /\ ~Connects(w)
  <2>1. UNCHANGED <<connections, failed_connections>> /\ Uncounted(b) \subseteq Uncounted(b)'
    BY <1>2, <1>7, OpensNothing
  <2>2. Cardinality(Uncounted(b)) <= Cardinality(Uncounted(b)')
    BY <1>4, <2>1, SetChanges
  <2>3. Opens(b)' <= Opens(b) /\ Opens(b) \in Int /\ Opens(b)' \in Int
    <3>1. CASE UNCHANGED open
      BY <1>t, <3>1, OpensKept
    <3>2. ASSUME NEW w \in Workers, \A v \in Workers \ {w} : open'[v] = open[v],
                 open'[w][b] <= open[w][b]
          PROVE  Opens(b)' <= Opens(b) /\ Opens(b) \in Int /\ Opens(b)' \in Int
      <4>1. /\ Opens(b)' = Opens(b) + (open'[w][b] - open[w][b])
            /\ Opens(b) \in Int /\ open'[w][b] \in Nat /\ open[w][b] \in Nat
        BY <1>t, <3>2, OpensChange
      <4> QED BY <3>2, <4>1
    <3> QED BY <1>2, <1>7, <3>1, <3>2, OpensNothing
  <2> QED BY <1>3, <1>5, <1>6, <2>1, <2>2, <2>3
<1>8. ASSUME NEW w \in Workers, Connects(w)
      PROVE  Opens(b)' <= connections'[b] - failed_connections'[b] + Cardinality(Uncounted(b)')
  <2>1. /\ pc[w] = "connect" /\ pc' = [pc EXCEPT ![w] = "count"]
        /\ open' = [open EXCEPT ![w][config[w]] = @ + 1]
        /\ UNCHANGED <<connections, failed_connections, stat>>
    BY <1>8 DEF Connects, At, Goto, shared, locals
  <2>2. config[w] = stat[w]
    BY <1>2 DEF IInv, OneBackend
  <2>3. /\ \A v \in Workers \ {w} : open'[v] = open[v]
        /\ open[w] \in [Backends -> Nat] /\ DOMAIN open = Workers
        /\ DOMAIN pc = Workers /\ stat[w] \in Backends
    BY <1>8, <1>t, OthersStay DEF Pick, TypeOK
  <2>4. open'[w] = [open[w] EXCEPT ![stat[w]] = @ + 1]
    BY <2>1, <2>2, <2>3
  <2>5. /\ Opens(b)' = Opens(b) + (open'[w][b] - open[w][b])
        /\ Opens(b) \in Int /\ open'[w][b] \in Nat /\ open[w][b] \in Nat
    BY <1>t, <2>3, OpensChange
  <2>6. CASE b = stat[w]
    <3>1. open'[w][b] = open[w][b] + 1
      BY <2>3, <2>4, <2>6
    <3>2. w \in Uncounted(b)' /\ w \notin Uncounted(b) /\ Uncounted(b) \subseteq Uncounted(b)'
      BY <2>1, <2>3, <2>6 DEF Uncounted
    <3>3. Cardinality(Uncounted(b)) + 1 <= Cardinality(Uncounted(b)')
      BY <1>4, <3>2, SetChanges
    <3> QED BY <1>3, <1>5, <1>6, <2>1, <2>5, <3>1, <3>3
  <2>7. CASE b # stat[w]
    <3>1. open'[w][b] = open[w][b]
      BY <2>3, <2>4, <2>7
    <3>2. Uncounted(b) \subseteq Uncounted(b)'
      BY <2>1, <2>3 DEF Uncounted
    <3>3. Cardinality(Uncounted(b)) <= Cardinality(Uncounted(b)')
      BY <1>4, <3>2, SetChanges
    <3> QED BY <1>3, <1>5, <1>6, <2>1, <2>5, <3>1, <3>3
  <2> QED BY <2>6, <2>7
<1>9. ASSUME NEW w \in Workers, Count(w) \/ CountFailed(w)
      PROVE  Opens(b)' <= connections'[b] - failed_connections'[b] + Cardinality(Uncounted(b)')
  <2>1. UNCHANGED <<open, stat>> /\ stat[w] \in Backends /\ DOMAIN pc = Workers
    BY <1>1, <1>9, <1>t, CountsOne DEF TypeOK
  <2>2. Opens(b)' = Opens(b) /\ Opens(b) \in Int
    BY <1>t, <2>1, OpensKept
  <2>3. CASE Count(w)
    <3>1. /\ pc[w] = "count" /\ pc' = [pc EXCEPT ![w] = "idle"]
          /\ w \in Busy /\ connections' = [connections EXCEPT ![stat[w]] = Wrap(@ + 1)]
          /\ UNCHANGED failed_connections
      BY <2>3, CountsOne
    <3>2. connections' = [connections EXCEPT ![stat[w]] = @ + 1]
      <4>1. /\ connections[stat[w]] \in Nat /\ Cardinality(Busy) \in Nat
            /\ connections[stat[w]] + Cardinality(Busy) <= picks
        BY <1>1, <1>2, <2>1, WorkerSubsets, WorkerSets DEF CountsLag
      <4>2. Cardinality(Busy) = Cardinality(Busy \ {w}) + 1 /\ Cardinality(Busy \ {w}) \in Nat
        BY <3>1, WorkerSubsets, OneLess, <4>1
      <4>3. connections[stat[w]] + 1 < IntLimit
        BY <1>1, <1>2, <4>1, <4>2
      <4>4. Wrap(connections[stat[w]] + 1) = connections[stat[w]] + 1
        BY <4>1, <4>3, WrapNext
      <4> QED BY <3>1, <4>4
    <3>3. CASE b = stat[w]
      <4>1. connections'[b] = connections[b] + 1
        BY <1>1, <3>2, <3>3
      <4>2. Uncounted(b) \ {w} \subseteq Uncounted(b)'
        BY <2>1, <3>1 DEF Uncounted
      <4>3. Cardinality(Uncounted(b)) <= Cardinality(Uncounted(b)') + 1
        BY <1>4, <4>2, SetChanges
      <4> QED BY <1>3, <1>5, <1>6, <2>2, <3>1, <4>1, <4>3
    <3>4. CASE b # stat[w]
      <4>1. connections'[b] = connections[b]
        BY <1>1, <3>2, <3>4
      <4>2. Uncounted(b) \subseteq Uncounted(b)'
        BY <2>1, <3>1, <3>4 DEF Uncounted
      <4>3. Cardinality(Uncounted(b)) <= Cardinality(Uncounted(b)')
        BY <1>4, <4>2, SetChanges
      <4> QED BY <1>3, <1>5, <1>6, <2>2, <3>1, <4>1, <4>3
    <3> QED BY <3>3, <3>4
  <2>4. CASE CountFailed(w)
    <3>1. /\ pc[w] = "failed" /\ pc' = [pc EXCEPT ![w] = "count"]
          /\ w \in Unfailed
          /\ failed_connections' = [failed_connections EXCEPT ![stat[w]] = Wrap(@ + 1)]
          /\ UNCHANGED connections
      BY <2>4, CountsOne
    <3>2. failed_connections' = [failed_connections EXCEPT ![stat[w]] = @ + 1]
      <4>1. /\ failed_connections[stat[w]] \in Nat /\ Cardinality(Unfailed) \in Nat
            /\ failed_connections[stat[w]] + Cardinality(Unfailed) <= picks
        BY <1>1, <1>2, <2>1, WorkerSubsets, WorkerSets DEF CountsLag
      <4>2. /\ Cardinality(Unfailed) = Cardinality(Unfailed \ {w}) + 1
            /\ Cardinality(Unfailed \ {w}) \in Nat
        BY <3>1, WorkerSubsets, OneLess, <4>1
      <4>3. failed_connections[stat[w]] + 1 < IntLimit
        BY <1>1, <1>2, <4>1, <4>2
      <4>4. Wrap(failed_connections[stat[w]] + 1) = failed_connections[stat[w]] + 1
        BY <4>1, <4>3, WrapNext
      <4> QED BY <3>1, <4>4
    <3>3. CASE b = stat[w]
      <4>1. failed_connections'[b] = failed_connections[b] + 1
        BY <1>1, <3>2, <3>3
      <4>2. w \in Uncounted(b)' /\ w \notin Uncounted(b) /\ Uncounted(b) \subseteq Uncounted(b)'
        BY <2>1, <3>1, <3>3 DEF Uncounted
      <4>3. Cardinality(Uncounted(b)) + 1 <= Cardinality(Uncounted(b)')
        BY <1>4, <4>2, SetChanges
      <4> QED BY <1>3, <1>5, <1>6, <2>2, <3>1, <4>1, <4>3
    <3>4. CASE b # stat[w]
      <4>1. failed_connections'[b] = failed_connections[b]
        BY <1>1, <3>2, <3>4
      <4>2. Uncounted(b) \subseteq Uncounted(b)'
        BY <2>1, <3>1 DEF Uncounted
      <4>3. Cardinality(Uncounted(b)) <= Cardinality(Uncounted(b)')
        BY <1>4, <4>2, SetChanges
      <4> QED BY <1>3, <1>5, <1>6, <2>2, <3>1, <4>1, <4>3
    <3> QED BY <3>3, <3>4
  <2> QED BY <1>9, <2>3, <2>4
<1> QED BY <1>7, <1>8, <1>9

-----------------------------------------------------------------------------
(* Weighted round robin keeps its books.                                   *)

WeightUpTo(E, n) == SumFunctionOnSet(Weight, {b \in E : b <= n})

LEMMA UpToType == ASSUME NEW E \in SUBSET Backends, NEW n PROVE WeightUpTo(E, n) \in Int
<1>1. IsFiniteSet({b \in E : b <= n})
  <2>1. {b \in E : b <= n} \in SUBSET Backends
    OBVIOUS
  <2> QED BY <2>1, BackendsFinite, FS_Subset
<1>2. \A b \in {c \in E : c <= n} : Weight[b] \in Int
  BY WeightType
<1> QED BY <1>1, <1>2, SumOfInts DEF WeightUpTo

\* One backend after the other, up to all of the set.
LEMMA UpToNext ==
  ASSUME NEW E \in SUBSET Backends, NEW n \in E
  PROVE  WeightUpTo(E, n) = Weight[n] + WeightUpTo(E, n - 1)
<1> PICK S : S = {b \in E : b <= n}
  OBVIOUS
<1>1. n \in Int /\ E \subseteq Int /\ IsFiniteSet(E)
  <2>1. Backends \subseteq Int
    BY LoadBalancerAssumption DEF Backends
  <2> QED BY <2>1, BackendsFinite, FS_Subset
<1>2. n \in S /\ S \ {n} = {b \in E : b <= n - 1}
  <2>1. n \in S
    BY <1>1
  <2>2. ASSUME NEW b \in E PROVE (b <= n /\ b # n) <=> b <= n - 1
    BY <1>1
  <2>3. S \ {n} = {b \in E : b <= n /\ b # n}
    OBVIOUS
  <2> QED BY <2>1, <2>2, <2>3
<1>3. IsFiniteSet(S)
  BY <1>1, FS_Subset
<1>4. \A b \in S : Weight[b] \in Int
  BY WeightType
<1>5. SumFunctionOnSet(Weight, S) = Weight[n] + SumFunctionOnSet(Weight, S \ {n})
  BY <1>2, <1>3, <1>4, SumOfInts
<1> QED BY <1>2, <1>5, Zenon DEF WeightUpTo

LEMMA UpToEnds ==
  ASSUME NEW E \in SUBSET Backends, 0 \in E
  PROVE  /\ WeightUpTo(E, 0) = Weight[0]
         /\ \A n : (\A b \in E : b <= n) => WeightUpTo(E, n) = SumFunctionOnSet(Weight, E)
<1>1. {b \in E : b <= -1} = {}
  <2>1. ASSUME NEW b \in E PROVE ~(b <= -1)
    BY LoadBalancerAssumption DEF Backends
  <2> QED BY <2>1
<1>2. WeightUpTo(E, -1) = 0
  BY <1>1, SumOfEmpty, Zenon DEF WeightUpTo
<1>3. WeightUpTo(E, 0) = Weight[0] + WeightUpTo(E, 0 - 1)
  BY UpToNext
<1>4. 0 - 1 = -1
  OBVIOUS
<1>5. Weight[0] \in Int
  BY Constants, WeightType
<1>6. WeightUpTo(E, 0) = Weight[0] + 0
  BY <1>2, <1>3, <1>4, Zenon
<1>7. ASSUME NEW n, \A b \in E : b <= n PROVE {b \in E : b <= n} = E
  BY <1>7
<1>8. ASSUME NEW n, \A b \in E : b <= n PROVE WeightUpTo(E, n) = SumFunctionOnSet(Weight, E)
  BY <1>7, <1>8, Zenon DEF WeightUpTo
<1>9. WeightUpTo(E, 0) = Weight[0]
  BY <1>5, <1>6
<1> QED BY <1>8, <1>9, Zenon

\* The last backend whose weight a worker has added, and whether it owes.
LastPick(w) == IF pc[w] \in {"load", "compare"} THEN i[w] ELSE i[w] - 1
Owes(w) == pc[w] \in {"scan", "weigh", "load", "compare", "take", "refund"}

LEMMA OwedValue ==
  ASSUME NEW w, Eligible' = Eligible
  PROVE  /\ Owed(w) = IF Owes(w) THEN WeightUpTo(Eligible, LastPick(w)) ELSE 0
         /\ Owed(w)' = IF Owes(w)' THEN WeightUpTo(Eligible, LastPick(w)') ELSE 0
         /\ Owed(w) \in Int /\ Owed(w)' \in Int
<1>1. Owed(w) = IF Owes(w) THEN WeightUpTo(Eligible, LastPick(w)) ELSE 0
  BY Zenon DEF Owed, Owes, LastPick, WeightUpTo
<1>2. Owed(w)' = IF Owes(w)' THEN WeightUpTo(Eligible', LastPick(w)') ELSE 0
  BY Zenon DEF Owed, Owes, LastPick, WeightUpTo
<1>3. Eligible \in SUBSET Backends
  BY DEF Eligible
<1>4. WeightUpTo(Eligible, LastPick(w)) \in Int /\ WeightUpTo(Eligible, LastPick(w)') \in Int
  BY <1>3, UpToType
<1> QED BY <1>1, <1>2, <1>4

\* The workers that have paid and not yet counted.
Paying == {w \in Workers : pc[w] \in {"connect", "failed", "count"}}

AllOwed == SumFunctionOnSet([w \in Workers |-> Owed(w)], Workers)
AllConnections == SumFunctionOnSet(connections, Backends)

\* What the weights should sum to.
Debt == AllOwed - Overpaid * Paid

Balanced == Wrap(SumFunctionOnSet(current_weight, Backends)) = Wrap(Debt)

LEMMA OverpaidType ==
  /\ Overpaid \in Int /\ SumFunctionOnSet(Weight, Eligible) \in Int
  /\ TotalWeight = SumFunctionOnSet(Weight, Eligible) + Overpaid
<1>1. Eligible \in SUBSET Backends
  BY DEF Eligible
<1>2. IsFiniteSet(Eligible) /\ \A b \in Eligible : Weight[b] \in Int
  BY <1>1, BackendsFinite, FS_Subset, WeightType
<1>3. SumFunctionOnSet(Weight, Eligible) \in Int
  BY <1>2, SumOfInts
<1>4. Overpaid = TotalWeight - SumFunctionOnSet(Weight, Eligible)
  BY Zenon DEF Overpaid
<1> QED BY <1>3, <1>4, TotalWeightType

\* How the parts of the debt change in the step of one worker.
LEMMA OwedChanges ==
  ASSUME NEW w \in Workers, Eligible' = Eligible, \A v \in Workers \ {w} : Owed(v)' = Owed(v)
  PROVE  /\ AllOwed' = AllOwed + (Owed(w)' - Owed(w))
         /\ AllOwed \in Int /\ AllOwed' \in Int
<1> PICK f : f = [v \in Workers |-> Owed(v)]
  OBVIOUS
<1> PICK g : g = [v \in Workers |-> Owed(v)']
  OBVIOUS
<1>1. /\ \A v \in Workers : f[v] \in Int
      /\ g[w] \in Int /\ g[w] = Owed(w)' /\ f[w] = Owed(w)
      /\ \A v \in Workers \ {w} : g[v] = f[v]
  BY OwedValue
<1>2. IsFiniteSet(Workers)
  BY LoadBalancerAssumption
<1>3. /\ SumFunctionOnSet(g, Workers) = SumFunctionOnSet(f, Workers) + (g[w] - f[w])
      /\ SumFunctionOnSet(f, Workers) \in Int
  BY ONLY <1>1, <1>2, w \in Workers, SumOfChanged
<1>4. AllOwed = SumFunctionOnSet(f, Workers) /\ AllOwed' = SumFunctionOnSet(g, Workers)
  BY Zenon DEF AllOwed
<1> QED BY <1>1, <1>3, <1>4

LEMMA PaidParts ==
  ASSUME IInv, IInv'
  PROVE  /\ Paid = AllConnections + Cardinality(Paying)
         /\ Paid' = AllConnections' + Cardinality(Paying)'
         /\ AllConnections \in Int /\ AllConnections' \in Int
         /\ Cardinality(Paying) \in Nat /\ Cardinality(Paying') \in Nat
<1>1. Paid = AllConnections + Cardinality(Paying) /\ Paid' = AllConnections' + Cardinality(Paying)'
  BY Zenon DEF Paid, AllConnections, Paying
<1>2. /\ connections \in [Backends -> Int] /\ connections' \in [Backends -> Int]
      /\ Paying \subseteq Workers /\ Paying' \subseteq Workers
  <2>1. CInt \subseteq Int
    BY LoadBalancerAssumption DEF CInt
  <2> QED BY <2>1 DEF IInv, TypeOK, Paying
<1>3. AllConnections \in Int /\ AllConnections' \in Int
  BY <1>2, BackendsFinite, SumOfInts DEF AllConnections
<1> QED BY <1>1, <1>2, <1>3, WorkerSets

\* A worker adds to a weight what the debt grows by.
LEMMA WeightPaid ==
  ASSUME IInv, Balanced, NEW b \in Backends, NEW n \in Int, AddWeight(b, n),
         Debt \in Int, Debt' = Debt + n
  PROVE  Balanced'
<1> PICK x : x = current_weight[b]
  OBVIOUS
<1>4. /\ current_weight \in [Backends -> Int] /\ x \in Int
      /\ current_weight' = [current_weight EXCEPT ![b] = Wrap(x + n)]
  <2>1. CInt \subseteq Int
    BY LoadBalancerAssumption DEF CInt
  <2>2. current_weight \in [Backends -> Int]
    BY <2>1 DEF IInv, TypeOK
  <2>3. x \in Int
    BY <2>2
  <2> QED BY <2>2, <2>3 DEF AddWeight
<1>5. Wrap(x + n) \in Int
  BY <1>4, WrapTurns
<1> PICK z : z = Wrap(x + n)
  OBVIOUS
<1>6. /\ \A c \in Backends : current_weight[c] \in Int
      /\ current_weight'[b] \in Int /\ current_weight'[b] - current_weight[b] = z - x
      /\ \A c \in Backends \ {b} : current_weight'[c] = current_weight[c]
  BY <1>4, <1>5
<1>7. /\ SumFunctionOnSet(current_weight', Backends) =
           SumFunctionOnSet(current_weight, Backends) + (current_weight'[b] - current_weight[b])
      /\ SumFunctionOnSet(current_weight, Backends) \in Int
  BY ONLY <1>6, BackendsFinite, b \in Backends, SumOfChanged
<1> PICK s : s = SumFunctionOnSet(current_weight, Backends)
  OBVIOUS
<1> PICK t : t = Debt
  OBVIOUS
<1>8. s \in Int /\ t \in Int /\ Wrap(s) = Wrap(t)
  BY <1>7, Zenon DEF Balanced
<1>9. Wrap(s + (z - x)) = Wrap(t + n)
  <2>1. x \in Int
    BY <1>4
  <2>2. Wrap(s + (Wrap(x + n) - x)) = Wrap(t + n)
    BY ONLY <1>8, <2>1, n \in Int, WrapOfSum
  <2> QED BY <2>2, Zenon
<1>10. /\ SumFunctionOnSet(current_weight', Backends) = s + (z - x)
       /\ Debt' = t + n
  BY <1>6, <1>7, Zenon
<1> QED BY <1>9, <1>10, Zenon DEF Balanced

\* A worker adds nothing, and the debt is the same modulo the range.
LEMMA WeightKept ==
  ASSUME Balanced, UNCHANGED current_weight, Debt \in Int, Debt' \in Int, Turns(Debt' - Debt)
  PROVE  Balanced'
<1>1. Wrap(Debt') = Wrap(Debt)
  BY WrapOfTurned
<1> QED BY <1>1, Zenon DEF Balanced

LEMMA NoTurns == Turns(0)
<1>1. 0 = (2 * IntLimit) * 0
  BY LoadBalancerAssumption
<1> QED BY <1>1 DEF Turns

\* The debt of a step that neither pays nor counts changes by what is owed.
LEMMA DebtUnpaid ==
  ASSUME IInv, IInv', NEW w \in Workers, UNCHANGED <<loaded, connections>>, Paying' = Paying,
         \A v \in Workers \ {w} : Owed(v)' = Owed(v)
  PROVE  Debt \in Int /\ Debt' = Debt + (Owed(w)' - Owed(w))
<1>1. Eligible' = Eligible
  BY StaysEligible
<1>2. /\ AllOwed' = AllOwed + (Owed(w)' - Owed(w))
      /\ AllOwed \in Int /\ AllOwed' \in Int
  BY <1>1, OwedChanges
<1>3. Paid' = Paid /\ Paid \in Int
  <2>1. AllConnections' = AllConnections
    BY Zenon DEF AllConnections
  <2>2. Cardinality(Paying') = Cardinality(Paying)
    BY Zenon
  <2> QED BY <2>1, <2>2, PaidParts
<1>4. Overpaid' = Overpaid /\ Overpaid \in Int
  BY <1>1, OverpaidType, Zenon DEF Overpaid
<1>5. Owed(w) \in Int /\ Owed(w)' \in Int
  BY <1>1, OwedValue
<1> PICK m : m = Overpaid * Paid
  OBVIOUS
<1>6. m \in Int /\ Debt = AllOwed - m /\ Debt' = AllOwed' - m
  <2>1. m \in Int
    BY <1>3, <1>4
  <2>2. Debt = AllOwed - m /\ Debt' = AllOwed' - m
    BY <1>3, <1>4, Zenon DEF Debt
  <2> QED BY <2>1, <2>2
<1> QED BY <1>2, <1>5, <1>6

\* A worker that pays the total pays what it owes and the rest too much.
LEMMA DebtPaid ==
  ASSUME IInv, IInv', NEW w \in Workers, UNCHANGED <<loaded, connections>>,
         w \in Paying', w \notin Paying, Paying' \ {w} = Paying,
         Owed(w)' = 0, Owed(w) = SumFunctionOnSet(Weight, Eligible),
         \A v \in Workers \ {w} : Owed(v)' = Owed(v)
  PROVE  Debt \in Int /\ Debt' = Debt + (-TotalWeight)
<1>1. Eligible' = Eligible
  BY StaysEligible
<1>2. /\ AllOwed' = AllOwed + (Owed(w)' - Owed(w))
      /\ AllOwed \in Int /\ AllOwed' \in Int
  BY <1>1, OwedChanges
<1>3. Paid' = Paid + 1 /\ Paid \in Int
  <2>1. AllConnections' = AllConnections
    BY Zenon DEF AllConnections
  <2>2. Paying \subseteq Workers /\ Paying' \subseteq Workers
    BY DEF Paying
  <2>3. Cardinality(Paying') = Cardinality(Paying) + 1
    BY <2>2, SetChanges
  <2> QED BY <2>1, <2>3, PaidParts
<1>4. Overpaid' = Overpaid /\ Overpaid \in Int
  BY <1>1, OverpaidType, Zenon DEF Overpaid
<1> PICK o : o = Overpaid
  OBVIOUS
<1> PICK p : p = Paid
  OBVIOUS
<1>5. o * (p + 1) = o * p + o /\ o * p \in Int /\ o \in Int
  BY <1>3, <1>4
<1>6. Debt = AllOwed - o * p /\ Debt' = AllOwed' - o * (p + 1)
  <2>1. Debt' = AllOwed' - Overpaid' * Paid'
    BY Zenon DEF Debt
  <2> QED BY <1>3, <1>4, <2>1, Zenon DEF Debt
<1>7. /\ TotalWeight = SumFunctionOnSet(Weight, Eligible) + o
      /\ SumFunctionOnSet(Weight, Eligible) \in Int
  BY OverpaidType, Zenon
<1> PICK q : q = o * p
  OBVIOUS
<1>8. Debt = AllOwed - q /\ Debt' = AllOwed' - (q + o) /\ q \in Int
  BY <1>5, <1>6, Zenon
<1> QED BY <1>2, <1>5, <1>7, <1>8

\* A worker that counts turns a payment into a connection, modulo the range.
LEMMA DebtCounted ==
  ASSUME IInv, IInv', NEW w \in Workers, Count(w), UNCHANGED loaded,
         \A v \in Workers : Owed(v)' = Owed(v)
  PROVE  Debt \in Int /\ Debt' \in Int /\ Turns(Debt' - Debt)
<1>1. Eligible' = Eligible
  BY StaysEligible
<1>2. AllOwed' = AllOwed /\ AllOwed \in Int
  <2>1. [v \in Workers |-> Owed(v)'] = [v \in Workers |-> Owed(v)]
    OBVIOUS
  <2>2. AllOwed' = AllOwed
    BY <2>1, Zenon DEF AllOwed
  <2> QED BY <1>1, <2>2, OwedChanges
<1>3. /\ pc[w] = "count" /\ pc' = [pc EXCEPT ![w] = "idle"]
      /\ connections' = [connections EXCEPT ![stat[w]] = Wrap(@ + 1)]
  BY CountsOne
<1>4. Cardinality(Paying) = Cardinality(Paying') + 1
  <2>1. w \in Paying /\ Paying \ {w} = Paying'
    BY <1>3 DEF Paying, IInv, TypeOK
  <2>2. Paying \subseteq Workers /\ Paying' \subseteq Workers
    BY DEF Paying
  <2> QED BY <2>1, <2>2, SetChanges
<1>5. connections \in [Backends -> Int] /\ stat[w] \in Backends
  BY CountsTypes
<1> PICK b : b = stat[w]
  OBVIOUS
<1> PICK x : x = connections[b]
  OBVIOUS
<1> PICK z : z = Wrap(x + 1)
  OBVIOUS
<1>6. x \in Int /\ x + 1 \in Int /\ z \in Int /\ Turns((x + 1) - z)
  BY <1>5, WrapTurns
<1>7. AllConnections' = AllConnections + (z - x)
  <2>1. /\ \A c \in Backends : connections[c] \in Int
        /\ connections'[b] \in Int /\ connections'[b] - connections[b] = z - x
        /\ \A c \in Backends \ {b} : connections'[c] = connections[c]
    BY <1>3, <1>5, <1>6
  <2>2. b \in Backends
    BY <1>5
  <2>3. /\ SumFunctionOnSet(connections', Backends) =
             SumFunctionOnSet(connections, Backends) + (connections'[b] - connections[b])
        /\ SumFunctionOnSet(connections, Backends) \in Int
    BY ONLY <2>1, <2>2, BackendsFinite, SumOfChanged
  <2> QED BY <2>1, <2>3, Zenon DEF AllConnections
<1> PICK k \in Int : (x + 1) - z = (2 * IntLimit) * k
  BY <1>6 DEF Turns
<1> PICK m : m = 2 * IntLimit
  OBVIOUS
<1>8. /\ Paid \in Int /\ m \in Int /\ m * k \in Int
      /\ Paid' = Paid - m * k
  <2>1. m \in Int /\ m * k \in Int
    BY LoadBalancerAssumption
  <2> QED BY <1>4, <1>6, <1>7, <2>1, PaidParts
<1>9. Overpaid' = Overpaid /\ Overpaid \in Int
  BY <1>1, OverpaidType, Zenon DEF Overpaid
<1> PICK o : o = Overpaid
  OBVIOUS
<1> PICK p : p = Paid
  OBVIOUS
<1>10. Debt = AllOwed - o * p /\ Debt' = AllOwed - o * (p - m * k)
  <2>1. Debt' = AllOwed' - Overpaid' * Paid'
    BY Zenon DEF Debt
  <2> QED BY <1>2, <1>8, <1>9, <2>1, Zenon DEF Debt
<1>11. /\ o \in Int /\ p \in Int /\ o * p \in Int /\ m * k \in Int /\ m \in Int
       /\ o * (p - m * k) = o * p - o * (m * k) /\ o * (m * k) = m * (o * k)
       /\ o * (m * k) \in Int /\ o * k \in Int
  BY <1>8, <1>9
<1>12. Debt \in Int /\ Debt' \in Int /\ Debt' - Debt = m * (o * k)
  BY <1>2, <1>10, <1>11
<1> QED BY <1>11, <1>12, Zenon DEF Turns

\* The steps of one worker: what they add is what the debt grows by.
LEMMA BalancedMoves ==
  ASSUME IInv, IInv', Calm, Ahead, Balanced, NEW w \in Workers,
         Pick(w) \/ Disconnect(w) \/ Dies(w), UNCHANGED loaded,
         algorithm = "WeightedRoundRobin", Steady
  PROVE  Balanced'
<1> USE DEF At, Goto, shared, locals
<1>1. /\ DOMAIN pc = Workers /\ DOMAIN i = Workers /\ stat[w] \in Backends
      /\ i[w] \in Int /\ i[w] <= NumBackends /\ NumBackends \in Int
  BY Constants DEF IInv, TypeOK
<1>e. /\ Eligible' = Eligible /\ Eligible \in SUBSET Backends /\ 0 \in Eligible
      /\ backend_count \in Int
      /\ \A b \in Eligible : b \in Int /\ (b = 0 \/ b < backend_count)
      /\ backend_count <= 1 => Eligible = {0}
  BY StaysEligible, EligibleSet
<1>2. \A v \in Workers \ {w} : Owed(v)' = Owed(v)
  <2>1. ASSUME NEW v \in Workers \ {w} PROVE Owed(v)' = Owed(v)
    <3>1. pc'[v] = pc[v] /\ i'[v] = i[v]
      BY OthersStay
    <3>2. Owes(v)' = Owes(v) /\ LastPick(v)' = LastPick(v)
      BY <3>1 DEF Owes, LastPick
    <3> QED BY <1>e, <3>2, OwedValue
  <2> QED BY <2>1
<1>o. \A v \in Workers \ {w} : pc'[v] = pc[v]
  BY OthersStay
<1>3. Passed(w)
  BY DEF Ahead
<1>p. ASSUME (w \in Paying) <=> (w \in Paying)' PROVE Paying' = Paying
  BY <1>o, <1>p DEF Paying
<1>4. ASSUME UNCHANGED <<current_weight, connections>>, Owed(w)' = Owed(w),
             (w \in Paying) <=> (w \in Paying)'
      PROVE  Balanced'
  <2>1. Debt \in Int /\ Debt' = Debt + (Owed(w)' - Owed(w))
    BY <1>2, <1>4, <1>p, DebtUnpaid
  <2>2. Owed(w) \in Int
    BY <1>e, OwedValue
  <2>3. Debt' \in Int /\ Debt' - Debt = 0
    BY <1>4, <2>1, <2>2
  <2> QED BY <1>4, <2>1, <2>3, NoTurns, WeightKept
<1>5. ASSUME NEW b \in Backends, NEW n \in Int, AddWeight(b, n), UNCHANGED connections,
             w \notin Paying, w \notin Paying', Owed(w)' = Owed(w) + n
      PROVE  Balanced'
  <2>1. Debt \in Int /\ Debt' = Debt + (Owed(w)' - Owed(w))
    BY <1>2, <1>5, <1>p, DebtUnpaid
  <2>2. Owed(w) \in Int
    BY <1>e, OwedValue
  <2>3. Debt' = Debt + n
    BY <1>5, <2>1, <2>2
  <2> QED BY <1>5, <2>1, <2>3, WeightPaid
<1>6. CASE WRRStart(w)
  <2>1. /\ pc[w] = "idle" /\ pc'[w] = "scan" /\ i'[w] = 1 /\ AddWeight(0, Weight[0])
        /\ UNCHANGED connections
    BY <1>1, <1>6 DEF WRRStart, ScanFrom0
  <2>2. Owed(w) = 0 /\ Owed(w)' = WeightUpTo(Eligible, 0)
    <3>1. ~Owes(w) /\ Owes(w)' /\ LastPick(w)' = 0
      BY <2>1 DEF Owes, LastPick
    <3> QED BY <1>e, <3>1, OwedValue
  <2>3. Weight[0] \in Int /\ 0 \in Backends
    BY Constants, WeightType
  <2>4. Owed(w)' = Owed(w) + Weight[0]
    BY <1>e, <2>2, <2>3, UpToEnds
  <2> QED BY <1>5, <2>1, <2>3, <2>4 DEF Paying
<1>7. CASE Scan(w)
  <2>1. pc[w] = "scan" /\ i[w] < backend_count /\ UNCHANGED <<current_weight, connections>>
    BY <1>7 DEF Scan
  <2>2. CASE is_healthy[i[w]]
    <3>1. pc'[w] = "weigh" /\ i' = i
      BY <1>1, <1>7, <2>2 DEF Scan
    <3>2. Owes(w)' = Owes(w) /\ LastPick(w)' = LastPick(w)
      BY <2>1, <3>1 DEF Owes, LastPick
    <3>3. Owed(w)' = Owed(w)
      BY <1>e, <3>2, OwedValue
    <3> QED BY <1>4, <2>1, <3>1, <3>3 DEF Paying
  <2>3. CASE ~is_healthy[i[w]]
    <3>1. pc' = pc /\ i'[w] = i[w] + 1
      BY <1>1, <1>7, <2>3 DEF Scan
    <3>2. i[w] \notin Eligible
      <4>1. i[w] >= 1 /\ stat[w] \in Int
        BY <1>1, <1>3, <2>1, Constants DEF Passed, Choosing, Backends
      <4>2. ~check_health
        BY <1>e, <2>1, <4>1, <1>1 DEF Steady
      <4> QED BY <2>3, <4>2 DEF Calm, Eligible
    <3>3. {b \in Eligible : b <= i[w]} = {b \in Eligible : b <= i[w] - 1}
      <4>1. ASSUME NEW b \in Eligible PROVE b <= i[w] <=> b <= i[w] - 1
        BY <1>1, <1>e, <3>2
      <4> QED BY <4>1
    <3>4. WeightUpTo(Eligible, i[w]) = WeightUpTo(Eligible, i[w] - 1)
      BY <3>3, Zenon DEF WeightUpTo
    <3>5. Owes(w) /\ Owes(w)' /\ LastPick(w) = i[w] - 1 /\ LastPick(w)' = i[w]
      BY <1>1, <2>1, <3>1 DEF Owes, LastPick
    <3>6. Owed(w)' = Owed(w)
      BY <1>e, <3>4, <3>5, OwedValue
    <3> QED BY <1>4, <2>1, <3>1, <3>6 DEF Paying
  <2> QED BY <2>2, <2>3
<1>8. CASE WRRWeigh(w)
  <2>1. /\ pc[w] = "weigh" /\ pc'[w] = "load" /\ i' = i /\ AddWeight(i[w], Weight[i[w]])
        /\ UNCHANGED connections
    BY <1>1, <1>8 DEF WRRWeigh
  <2>2. i[w] \in Eligible
    BY <1>3, <2>1 DEF Passed
  <2>3. Owed(w) = WeightUpTo(Eligible, i[w] - 1) /\ Owed(w)' = WeightUpTo(Eligible, i[w])
    <3>1. Owes(w) /\ Owes(w)' /\ LastPick(w) = i[w] - 1 /\ LastPick(w)' = i[w]
      BY <2>1 DEF Owes, LastPick
    <3> QED BY <1>e, <3>1, OwedValue
  <2>4. /\ i[w] \in Backends /\ Weight[i[w]] \in Int
        /\ WeightUpTo(Eligible, i[w] - 1) \in Int
    BY <1>e, <2>2, WeightType, UpToType
  <2>5. WeightUpTo(Eligible, i[w]) = Weight[i[w]] + WeightUpTo(Eligible, i[w] - 1)
    BY <1>e, <2>2, UpToNext
  <2>6. Owed(w)' = Owed(w) + Weight[i[w]]
    BY <2>3, <2>4, <2>5
  <2>7. w \notin Paying /\ w \notin Paying'
    BY <2>1 DEF Paying
  <2> QED BY <1>5, <2>1, <2>4, <2>6, <2>7
<1>9. CASE LoadCandidate(w) \/ Compare(w)
  <2>1. /\ UNCHANGED <<current_weight, connections>>
        /\ \/ pc[w] = "load" /\ pc'[w] = "compare" /\ i' = i
           \/ pc[w] = "compare" /\ pc'[w] = "scan" /\ i'[w] = i[w] + 1
    BY <1>1, <1>9 DEF LoadCandidate, Compare
  <2>2. Owes(w)' = Owes(w) /\ LastPick(w)' = LastPick(w)
    BY <1>1, <2>1 DEF Owes, LastPick
  <2>3. Owed(w)' = Owed(w)
    BY <1>e, <2>2, OwedValue
  <2> QED BY <1>4, <2>1, <2>3 DEF Paying
<1>10. CASE WRRTake(w)
  <2>1. /\ pc[w] = "take" /\ pc'[w] = "connect" /\ i' = i /\ AddWeight(stat[w], -TotalWeight)
        /\ UNCHANGED connections
    BY <1>1, <1>10 DEF WRRTake
  <2>2. \A b \in Eligible : b <= i[w] - 1
    <3>1. i[w] >= backend_count /\ i[w] >= 1
      BY <1>1, <1>3, <2>1 DEF Passed, Chosen, Choosing, Backends
    <3> QED BY <1>1, <1>e, <3>1
  <2>3. Owed(w) = SumFunctionOnSet(Weight, Eligible) /\ Owed(w)' = 0
    <3>1. Owes(w) /\ ~Owes(w)' /\ LastPick(w) = i[w] - 1
      BY <2>1 DEF Owes, LastPick
    <3>2. WeightUpTo(Eligible, i[w] - 1) = SumFunctionOnSet(Weight, Eligible)
      BY <1>e, <2>2, UpToEnds
    <3> QED BY <1>e, <3>1, <3>2, OwedValue
  <2>4. /\ w \in Paying' /\ w \notin Paying /\ Paying' \ {w} = Paying
    BY <1>o, <2>1 DEF Paying
  <2>5. Debt \in Int /\ Debt' = Debt + (-TotalWeight)
    BY <1>2, <2>1, <2>3, <2>4, DebtPaid
  <2>6. -TotalWeight \in Int
    BY TotalWeightType
  <2> QED BY <1>1, <2>1, <2>5, <2>6, WeightPaid
<1>11. CASE WRRRefund(w)
  <2>1. /\ pc[w] = "refund" /\ pc'[w] = "idle" /\ i' = i
        /\ AddWeight(stat[w], -Weight[config[w]]) /\ UNCHANGED connections
    BY <1>1, <1>11 DEF WRRRefund
  <2>2. stat[w] = 0 /\ config[w] = 0 /\ Eligible = {0} /\ i[w] >= 1
    <3>1. stat[w] \in Eligible /\ backend_count <= 1 /\ stat[w] < i[w]
      BY <1>3, <2>1 DEF Passed, Chosen, Choosing
    <3>2. config[w] = stat[w]
      BY DEF IInv, OneBackend
    <3> QED BY <1>1, <1>e, <3>1, <3>2
  <2>3. Owed(w) = Weight[0] /\ Owed(w)' = 0
    <3>1. Owes(w) /\ ~Owes(w)' /\ LastPick(w) = i[w] - 1
      BY <2>1 DEF Owes, LastPick
    <3>2. {b \in Eligible : b <= i[w] - 1} = {b \in Eligible : b <= 0}
      BY <1>1, <2>2
    <3>3. WeightUpTo(Eligible, i[w] - 1) = Weight[0]
      BY <1>e, <3>2, UpToEnds, Zenon DEF WeightUpTo
    <3> QED BY <1>e, <3>1, <3>3, OwedValue
  <2>4. Weight[0] \in Int /\ -Weight[0] \in Int /\ 0 \in Backends
    BY Constants, WeightType
  <2>5. Owed(w)' = Owed(w) + (-Weight[0])
    BY <2>3, <2>4
  <2>6. w \notin Paying /\ w \notin Paying'
    BY <2>1 DEF Paying
  <2> QED BY <1>5, <2>1, <2>2, <2>4, <2>5, <2>6
<1>12. CASE Judge(w)
  <2>1. /\ pc[w] \in {"scan", "judge"} /\ UNCHANGED <<current_weight, connections, i>>
        /\ pc'[w] \in {"take", "refund"}
    BY <1>1, <1>12 DEF Judge
  <2>2. pc[w] = "scan"
    BY <1>3, <2>1 DEF Passed, Choosing, Chosen
  <2>3. Owes(w)' = Owes(w) /\ LastPick(w)' = LastPick(w)
    BY <2>1, <2>2 DEF Owes, LastPick
  <2>4. Owed(w)' = Owed(w)
    BY <1>e, <2>3, OwedValue
  <2> QED BY <1>4, <2>1, <2>4 DEF Paying
<1>13. CASE Connects(w) \/ ConnectFails(w) \/ CountFailed(w)
  <2>1. /\ UNCHANGED <<current_weight, connections>>
        /\ pc[w] \in {"connect", "failed"} /\ pc'[w] \in {"failed", "count"}
    BY <1>1, <1>13 DEF Connects, ConnectFails, CountFailed
  <2>2. ~Owes(w) /\ ~Owes(w)'
    BY <2>1 DEF Owes
  <2>3. Owed(w)' = Owed(w)
    BY <1>e, <2>2, OwedValue
  <2> QED BY <1>4, <2>1, <2>3 DEF Paying
<1>14. CASE Count(w)
  <2>1. /\ UNCHANGED current_weight /\ pc[w] = "count" /\ pc'[w] = "idle"
    BY <1>1, <1>14 DEF Count
  <2>2. ~Owes(w) /\ ~Owes(w)'
    BY <2>1 DEF Owes
  <2>3. Owed(w)' = Owed(w)
    BY <1>e, <2>2, OwedValue
  <2>4. Debt \in Int /\ Debt' \in Int /\ Turns(Debt' - Debt)
    BY <1>2, <1>14, <2>3, DebtCounted
  <2> QED BY <2>1, <2>4, WeightKept
<1>15. CASE Disconnect(w) \/ Dies(w)
  <2>1. UNCHANGED <<current_weight, connections, pc, i>>
    BY <1>15 DEF Disconnect, Dies, End
  <2>2. Owes(w)' = Owes(w) /\ LastPick(w)' = LastPick(w)
    BY <2>1 DEF Owes, LastPick
  <2>3. Owed(w)' = Owed(w)
    BY <1>e, <2>2, OwedValue
  <2> QED BY <1>4, <2>1, <2>3 DEF Paying
<1>16. ~RoundRobin(w) /\ ~LCStart(w)
  BY <1>3 DEF Passed, Choosing, Chosen, RoundRobin, RRConfig, RRStat, RRLoad, RRDies, RRStore, LCStart
<1> QED BY <1>6, <1>7, <1>8, <1>9, <1>10, <1>11, <1>12, <1>13, <1>14, <1>15, <1>16, Zenon
        DEF Pick, Scanning

LEMMA WeightStep ==
  ASSUME IInv, IInv', Calm, Ahead, WeightAccounted, [Next]_vars
  PROVE  WeightAccounted'
<1> SUFFICES ASSUME algorithm' = "WeightedRoundRobin", Steady' PROVE Balanced'
  BY Zenon DEF WeightAccounted, Balanced, Debt, AllOwed
<1>1. algorithm = "WeightedRoundRobin" /\ Steady /\ UNCHANGED loaded
  BY Frames, StaysEligible DEF loaded
<1>2. Balanced
  BY <1>1, Zenon DEF WeightAccounted, Balanced, Debt, AllOwed
<1>3. CASE Master \/ UNCHANGED vars
  <2>1. UNCHANGED <<pc, i, current_weight, connections>>
    BY <1>3 DEF Master, MasterWakes, MasterProbes, MasterStores, MasterSignalled, vars, shared, locals
  <2>2. Eligible' = Eligible
    BY <1>1, StaysEligible
  <2>3. ASSUME NEW v \in Workers PROVE Owed(v)' = Owed(v)
    BY <2>1, <2>2, Zenon DEF Owed
  <2>4. [v \in Workers |-> Owed(v)'] = [v \in Workers |-> Owed(v)]
    BY <2>3
  <2>5. Debt' = Debt
    BY <2>1, <2>2, <2>4, Zenon DEF Debt, AllOwed, Overpaid, Paid
  <2> QED BY <1>2, <2>1, <2>5, Zenon DEF Balanced
<1> QED BY <1>1, <1>2, <1>3, BalancedMoves DEF Next

-----------------------------------------------------------------------------
(* Least connections spreads.                                              *)

Least == algorithm = "LeastConnections" /\ Steady

\* The workers that have preferred a to c, and are to count for it.
Past(a, c) == {w \in Workers : pc[w] \in InPick /\ stat[w] = a /\ c < i[w]}

\* The workers that prefer a, or will when the best has more than y - 1.
Prefer(a, y) ==
  {w \in Workers : \/ pc[w] \in InPick /\ stat[w] = a
                   \/ pc[w] = "compare" /\ i[w] = a /\ value[w] < y}

\* A candidate's count is at least what was loaded.
Loaded == \A w \in Workers : pc[w] = "compare" => value[w] <= connections[i[w]]

\* A worker preferred a to the later c when a had no more; since then a has
\* got one more by each worker that did.
AheadOfLater ==
  \A a, c \in Eligible :
    a < c => connections[a] + Cardinality(Past(a, c)) <= connections[c] + MaxWorkers

\* Of the earlier ones a worker compares a with the best only, and with what
\* a was: whatever bounds them all bounds a.
Bounds(a, y) == \A e \in Eligible : e < a => connections[e] <= y

AheadOfEarlier ==
  \A a \in Eligible \ {0}, y \in Int :
    Bounds(a, y) => connections[a] + Cardinality(Prefer(a, y)) <= y + MaxWorkers

\* Nobody counts for a backend that is not eligible.
Unused == \A b \in Backends \ Eligible : connections[b] = 0

SpreadInv ==
  Least /\ picks < IntLimit => Loaded /\ AheadOfLater /\ AheadOfEarlier /\ Unused

LEMMA SpreadSets ==
  /\ \A a, c : Past(a, c) \subseteq Workers /\ Past(a, c)' \subseteq Workers
  /\ \A a, y : Prefer(a, y) \subseteq Workers /\ Prefer(a, y)' \subseteq Workers
  /\ \A a, c : Cardinality(Past(a, c)) \in Nat /\ Cardinality(Past(a, c)') \in Nat
  /\ \A a, y : Cardinality(Prefer(a, y)) \in Nat /\ Cardinality(Prefer(a, y)') \in Nat
  /\ \A a, c : Cardinality(Past(a, c)') <= MaxWorkers
  /\ \A a, y : Cardinality(Prefer(a, y)') <= MaxWorkers
  /\ MaxWorkers \in Nat
<1>1. \A a, c : Past(a, c) \subseteq Workers /\ Past(a, c)' \subseteq Workers
  BY DEF Past
<1>2. \A a, y : Prefer(a, y) \subseteq Workers /\ Prefer(a, y)' \subseteq Workers
  BY DEF Prefer
<1>3. MaxWorkers \in Nat
  BY WorkerSets
<1> QED BY <1>1, <1>2, <1>3, WorkerSets

\* A candidate is a backend.
LEMMA CandidateIsBackend ==
  ASSUME IInv, NEW w \in Workers, pc[w] \in {"load", "compare"}
  PROVE  i[w] \in Backends /\ value[w] \in Int
<1>1. i[w] < backend_count
  BY DEF IInv, InLoop
<1>2. i[w] \in 0 .. NumBackends /\ backend_count \in BackendCounts /\ value[w] \in CInt
  BY DEF IInv, TypeOK
<1>3. CInt \subseteq Int
  BY LoadBalancerAssumption DEF CInt
<1>4. backend_count \in Int /\ backend_count <= NumBackends /\ NumBackends \in Int
  BY <1>2, Constants
<1>5. i[w] \in Int /\ 0 <= i[w]
  BY <1>2, <1>4
<1>6. i[w] < NumBackends
  BY <1>1, <1>4, <1>5
<1>7. i[w] \in Backends
  BY <1>4, <1>5, <1>6 DEF Backends
<1> QED BY <1>2, <1>3, <1>7

\* The eligible backends are ordered.
LEMMA EligibleOrder ==
  ASSUME IInv, UNCHANGED loaded
  PROVE  /\ Eligible' = Eligible /\ Eligible \subseteq Backends
         /\ \A a \in Eligible : a \in Int /\ a >= 0
BY EligibleSet, StaysEligible

\* When nothing is counted: no new worker prefers a backend, or the one it
\* prefers has no more than the bound.
LEMMA SpreadKept ==
  ASSUME IInv, AheadOfLater, AheadOfEarlier, UNCHANGED <<connections, loaded>>,
         \A a, c \in Eligible :
           a < c => Past(a, c)' \subseteq Past(a, c) \/ connections[a] <= connections[c],
         \A a \in Eligible \ {0}, y \in Int :
           Bounds(a, y) => Prefer(a, y)' \subseteq Prefer(a, y) \/ connections[a] <= y
  PROVE  AheadOfLater' /\ AheadOfEarlier'
<1>1. connections \in [Backends -> Int] /\ Eligible' = Eligible /\ Eligible \subseteq Backends
  BY CountsTypes, EligibleOrder
<1>2. ASSUME NEW a \in Eligible, NEW c \in Eligible, a < c
      PROVE  connections[a] + Cardinality(Past(a, c)') <= connections[c] + MaxWorkers
  <2>1. connections[a] \in Int /\ connections[c] \in Int
    BY <1>1
  <2>2. CASE Past(a, c)' \subseteq Past(a, c)
    <3>1. Cardinality(Past(a, c)') <= Cardinality(Past(a, c))
      BY <2>2, SpreadSets, SetChanges
    <3>2. connections[a] + Cardinality(Past(a, c)) <= connections[c] + MaxWorkers
      BY <1>2 DEF AheadOfLater
    <3> QED BY <2>1, <3>1, <3>2, SpreadSets
  <2>3. CASE connections[a] <= connections[c]
    BY <2>1, <2>3, SpreadSets
  <2> QED BY <1>2, <2>2, <2>3
<1>3. ASSUME NEW a \in Eligible \ {0}, NEW y \in Int, Bounds(a, y)
      PROVE  connections[a] + Cardinality(Prefer(a, y)') <= y + MaxWorkers
  <2>1. connections[a] \in Int
    BY <1>1
  <2>2. CASE Prefer(a, y)' \subseteq Prefer(a, y)
    <3>1. Cardinality(Prefer(a, y)') <= Cardinality(Prefer(a, y))
      BY <2>2, SpreadSets, SetChanges
    <3>2. connections[a] + Cardinality(Prefer(a, y)) <= y + MaxWorkers
      BY <1>3 DEF AheadOfEarlier
    <3> QED BY <2>1, <3>1, <3>2, SpreadSets
  <2>3. CASE connections[a] <= y
    BY <2>1, <2>3, SpreadSets
  <2> QED BY <1>3, <2>2, <2>3
<1>4. \A a, y : Bounds(a, y)' = Bounds(a, y)
  BY <1>1 DEF Bounds
<1>5. AheadOfLater'
  BY <1>1, <1>2 DEF AheadOfLater
<1>6. AheadOfEarlier'
  BY <1>1, <1>3, <1>4 DEF AheadOfEarlier
<1> QED BY <1>5, <1>6

\* The steps of a pick that leave the best and the candidate as they are, or
\* start from backend 0.
LEMMA PreferNothing ==
  ASSUME IInv, Calm, Ahead, Least, NEW w \in Workers, Pick(w) \/ Disconnect(w) \/ Dies(w),
         ~Count(w), ~LoadCandidate(w), ~Compare(w), ~Dies(w)
  PROVE  /\ UNCHANGED <<connections, value>>
         /\ pc'[w] # "compare"
         /\ pc'[w] \in InPick =>
              \/ pc[w] \in InPick /\ stat'[w] = stat[w] /\ i'[w] = i[w]
              \/ /\ pc[w] \in InPick /\ stat'[w] = stat[w]
                 /\ i'[w] = i[w] + 1 /\ i[w] \notin Eligible
              \/ stat'[w] = 0 /\ i'[w] = 1
<1> USE DEF At, Goto, shared, locals, InPick, Choosing, Chosen
<1>1. /\ DOMAIN pc = Workers /\ DOMAIN i = Workers /\ DOMAIN stat = Workers
      /\ algorithm = "LeastConnections" /\ Passed(w)
  BY DEF IInv, TypeOK, Least, Ahead
<1>2. CASE LCStart(w)
  BY <1>1, <1>2 DEF LCStart, ScanFrom0
<1>3. CASE Scan(w)
  <2>1. pc[w] = "scan" /\ i[w] < backend_count /\ UNCHANGED <<connections, value, stat>>
    BY <1>3 DEF Scan
  <2>2. CASE is_healthy[i[w]]
    BY <1>1, <1>3, <2>1, <2>2 DEF Scan
  <2>3. CASE ~is_healthy[i[w]]
    <3>1. pc' = pc /\ i'[w] = i[w] + 1
      BY <1>1, <1>3, <2>3 DEF Scan
    <3>2. i[w] \notin Eligible
      <4>1. /\ i[w] \in Int /\ stat[w] \in Int /\ stat[w] >= 0 /\ stat[w] < i[w]
            /\ backend_count \in Int
        BY <1>1, <2>1, Constants, EligibleSet DEF Passed, Backends, IInv, TypeOK
      <4>2. ~check_health
        BY <2>1, <4>1 DEF Least, Steady
      <4> QED BY <2>3, <4>2 DEF Calm, Eligible
    <3> QED BY <2>1, <3>1, <3>2
  <2> QED BY <2>2, <2>3
<1>4. CASE WRRWeigh(w)
  <2>1. pc[w] = "weigh" /\ pc'[w] = "load" /\ UNCHANGED <<connections, value, stat, i>>
    BY <1>1, <1>4 DEF WRRWeigh
  <2> QED BY <2>1
<1>5. CASE WRRTake(w) \/ WRRRefund(w)
  BY <1>1, <1>5 DEF WRRTake, WRRRefund
<1>6. CASE Judge(w)
  <2>1. /\ pc[w] \in InPick /\ pc'[w] \in {"take", "refund", "connect", "idle"}
        /\ UNCHANGED <<connections, value, stat, i>>
    BY <1>1, <1>6 DEF Judge
  <2> QED BY <2>1
<1>7. CASE Connects(w) \/ ConnectFails(w) \/ CountFailed(w)
  BY <1>1, <1>7 DEF Connects, ConnectFails, CountFailed
<1>8. CASE Disconnect(w)
  BY <1>1, <1>8 DEF Disconnect
<1>9. ~RoundRobin(w) /\ ~WRRStart(w)
  BY <1>1 DEF Passed, RoundRobin, RRConfig, RRStat, RRLoad, RRDies, RRStore, WRRStart
<1> QED BY <1>2, <1>3, <1>4, <1>5, <1>6, <1>7, <1>8, <1>9, Zenon DEF Pick, Scanning

LEMMA SpreadPrefersNothing ==
  ASSUME IInv, Calm, Ahead, Least, Loaded, AheadOfLater, AheadOfEarlier, UNCHANGED loaded,
         NEW w \in Workers, Pick(w) \/ Disconnect(w) \/ Dies(w),
         ~Count(w), ~LoadCandidate(w), ~Compare(w), ~Dies(w)
  PROVE  Loaded' /\ AheadOfLater' /\ AheadOfEarlier' /\ UNCHANGED connections
<1>1. /\ UNCHANGED <<connections, value>>
      /\ pc'[w] # "compare"
      /\ pc'[w] \in InPick =>
           \/ pc[w] \in InPick /\ stat'[w] = stat[w] /\ i'[w] = i[w]
           \/ /\ pc[w] \in InPick /\ stat'[w] = stat[w]
              /\ i'[w] = i[w] + 1 /\ i[w] \notin Eligible
           \/ stat'[w] = 0 /\ i'[w] = 1
  BY PreferNothing
<1>2. \A v \in Workers \ {w} : pc'[v] = pc[v] /\ stat'[v] = stat[v] /\ i'[v] = i[v]
  BY OthersStay
<1>3. Loaded'
  BY <1>1, <1>2 DEF Loaded
<1>4. ASSUME NEW a \in Eligible, NEW c \in Eligible, a < c
      PROVE  Past(a, c)' \subseteq Past(a, c)
  <2>1. a \in Int /\ c \in Int /\ a >= 0 /\ i[w] \in Int
    BY EligibleOrder DEF IInv, TypeOK
  <2>2. pc'[w] \in InPick /\ stat'[w] = a /\ c < i'[w] =>
          pc[w] \in InPick /\ stat[w] = a /\ c < i[w]
    <3>1. CASE i'[w] = i[w] + 1 /\ i[w] \notin Eligible
      <4>1. c # i[w]
        BY <3>1
      <4> QED BY <1>1, <1>4, <2>1, <3>1, <4>1
    <3>2. CASE ~(i'[w] = i[w] + 1 /\ i[w] \notin Eligible)
      BY <1>1, <1>4, <2>1, <3>2
    <3> QED BY <3>1, <3>2
  <2> QED BY <1>2, <2>2 DEF Past
<1>5. ASSUME NEW a \in Eligible \ {0}, NEW y \in Int
      PROVE  Prefer(a, y)' \subseteq Prefer(a, y)
  BY <1>1, <1>2 DEF Prefer
<1> QED BY <1>1, <1>3, <1>4, <1>5, SpreadKept

\* A worker that dies is not going to count, wherever it is.
LEMMA SpreadDies ==
  ASSUME Loaded, AheadOfLater, AheadOfEarlier, UNCHANGED loaded, NEW w \in Workers, Dies(w)
  PROVE  Loaded' /\ AheadOfLater' /\ AheadOfEarlier' /\ UNCHANGED connections
<1>1. UNCHANGED <<connections, pc, stat, i, value>> /\ Eligible' = Eligible
  BY StaysEligible DEF Dies, End, shared, locals
<1>2. Loaded' /\ AheadOfLater'
  BY <1>1 DEF Loaded, AheadOfLater, Past
<1>3. AheadOfEarlier'
  BY <1>1 DEF AheadOfEarlier, Prefer, Bounds
<1> QED BY <1>1, <1>2, <1>3

\* The candidate's count is loaded: it is below the bound if it will be below
\* the best.
LEMMA SpreadLoads ==
  ASSUME IInv, Loaded, AheadOfLater, AheadOfEarlier, Least, UNCHANGED loaded, NEW w \in Workers, LoadCandidate(w)
  PROVE  Loaded' /\ AheadOfLater' /\ AheadOfEarlier' /\ UNCHANGED connections
<1>1. /\ pc[w] = "load" /\ pc'[w] = "compare" /\ value'[w] = connections[i[w]]
      /\ UNCHANGED <<connections, stat, i>>
  BY DEF LoadCandidate, At, Goto, shared, Load, Least, IInv, TypeOK
<1>2. \A v \in Workers \ {w} : pc'[v] = pc[v] /\ value'[v] = value[v]
  BY OthersStay DEF Pick, Scanning
<1>3. /\ connections \in [Backends -> Int] /\ i[w] \in Backends
      /\ Eligible' = Eligible /\ Eligible \subseteq Backends
  BY <1>1, CountsTypes, CandidateIsBackend, EligibleOrder
<1>4. Loaded'
  BY <1>1, <1>2, <1>3 DEF Loaded
<1>5. ASSUME NEW a, NEW c PROVE Past(a, c)' \subseteq Past(a, c)
  BY <1>1, <1>2 DEF Past, InPick, Choosing
<1>6. ASSUME NEW a \in Eligible \ {0}, NEW y \in Int
      PROVE  Prefer(a, y)' \subseteq Prefer(a, y) \/ connections[a] <= y
  <2>1. CASE a = i[w] /\ connections[a] < y
    BY <1>3, <2>1
  <2>2. CASE ~(a = i[w] /\ connections[a] < y)
    BY <1>1, <1>2, <2>2 DEF Prefer, InPick, Choosing
  <2> QED BY <2>1, <2>2
<1> QED BY <1>1, <1>4, <1>5, <1>6, SpreadKept

LEMMA SpreadCompares ==
  ASSUME IInv, Ahead, Loaded, AheadOfLater, AheadOfEarlier, Least, UNCHANGED loaded,
         NEW w \in Workers, Compare(w)
  PROVE  Loaded' /\ AheadOfLater' /\ AheadOfEarlier' /\ UNCHANGED connections
<1>1. /\ pc[w] = "compare" /\ pc'[w] = "scan" /\ i'[w] = i[w] + 1
      /\ stat'[w] = IF value[w] < connections[stat[w]] THEN i[w] ELSE stat[w]
      /\ UNCHANGED <<connections, value>>
  BY DEF Compare, At, Goto, shared, Load, Least, IInv, TypeOK
<1>2. \A v \in Workers \ {w} : pc'[v] = pc[v] /\ stat'[v] = stat[v] /\ i'[v] = i[v]
  BY OthersStay DEF Pick, Scanning
<1>3. /\ connections \in [Backends -> Int] /\ i[w] \in Backends /\ stat[w] \in Backends
      /\ value[w] \in Int /\ Backends \subseteq Int
      /\ Eligible \subseteq Backends /\ stat[w] \in Eligible /\ i[w] \in Eligible
  <2>1. Backends \subseteq Int
    BY LoadBalancerAssumption DEF Backends
  <2>2. i[w] \in Backends /\ value[w] \in Int
    BY <1>1, CandidateIsBackend
  <2>3. stat[w] \in Backends
    BY DEF IInv, TypeOK
  <2>4. Eligible \subseteq Backends /\ stat[w] \in Eligible /\ i[w] \in Eligible
    BY <1>1, EligibleOrder DEF Ahead, Passed, Choosing, Least
  <2> QED BY <2>1, <2>2, <2>3, <2>4, CountsTypes
<1>4. stat[w] < i[w] /\ value[w] <= connections[i[w]]
  BY <1>1 DEF Ahead, Passed, Choosing, Loaded, Least
<1>5. Loaded'
  BY <1>1, <1>2 DEF Loaded
<1>6. connections[stat[w]] \in Int /\ connections[i[w]] \in Int
  BY <1>3
<1>7. ASSUME NEW a \in Eligible, NEW c \in Eligible, a < c
      PROVE  Past(a, c)' \subseteq Past(a, c) \/ connections[a] <= connections[c]
  <2>i. a \in Int /\ c \in Int /\ i[w] \in Int
    BY <1>3
  <2>1. CASE c = i[w] /\ stat'[w] = a
    <3>1. a = stat[w] /\ ~ (value[w] < connections[stat[w]])
      BY <1>1, <1>7, <2>1, <2>i
    <3> QED BY <1>3, <1>4, <1>6, <2>1, <3>1
  <2>2. CASE ~(c = i[w] /\ stat'[w] = a)
    <3>1. stat'[w] = a /\ c < i'[w] => stat[w] = a /\ c < i[w]
      BY <1>1, <1>7, <2>2, <2>i
    <3> QED BY <1>1, <1>2, <3>1 DEF Past, InPick, Choosing
  <2> QED BY <2>1, <2>2
<1>8. ASSUME NEW a \in Eligible \ {0}, NEW y \in Int, Bounds(a, y)
      PROVE  Prefer(a, y)' \subseteq Prefer(a, y)
  <2>1. stat'[w] = a => stat[w] = a \/ (i[w] = a /\ value[w] < y)
    <3>1. CASE value[w] < connections[stat[w]] /\ i[w] = a
      <4>1. connections[stat[w]] <= y
        BY <1>3, <1>4, <1>8, <3>1 DEF Bounds
      <4> QED BY <1>3, <1>6, <3>1, <4>1
    <3>2. CASE ~(value[w] < connections[stat[w]] /\ i[w] = a)
      BY <1>1, <3>2
    <3> QED BY <3>1, <3>2
  <2> QED BY <1>1, <1>2, <2>1 DEF Prefer, InPick, Choosing
<1> QED BY <1>1, <1>5, <1>7, <1>8, SpreadKept

\* A worker that counts was one of those that preferred the backend.
LEMMA SpreadCounts ==
  ASSUME IInv, Ahead, CountsLag, Loaded, AheadOfLater, AheadOfEarlier, Unused, Least, UNCHANGED loaded,
         picks < IntLimit, NEW w \in Workers, Count(w)
  PROVE  Loaded' /\ AheadOfLater' /\ AheadOfEarlier' /\ Unused'
<1>1. /\ pc[w] = "count" /\ pc' = [pc EXCEPT ![w] = "idle"] /\ w \in Busy
      /\ connections' = [connections EXCEPT ![stat[w]] = Wrap(@ + 1)]
      /\ UNCHANGED <<stat, i, value>>
  BY CountsOne
<1>2. /\ connections \in [Backends -> Int] /\ stat[w] \in Backends /\ DOMAIN pc = Workers
      /\ picks \in Nat /\ IntLimit \in Int
  BY CountsTypes DEF IInv, TypeOK
<1>e. /\ Eligible' = Eligible /\ Eligible \subseteq Backends /\ stat[w] \in Eligible
      /\ \A b \in Eligible : b \in Int /\ b >= 0 /\ (b = 0 \/ b < backend_count)
      /\ i[w] \in Int /\ i[w] >= backend_count /\ i[w] >= 1 /\ backend_count \in Int
  <2>1. /\ Eligible' = Eligible /\ Eligible \subseteq Backends
        /\ \A b \in Eligible : b \in Int /\ b >= 0 /\ (b = 0 \/ b < backend_count)
        /\ backend_count \in Int
    BY EligibleOrder, EligibleSet
  <2>2. stat[w] \in Eligible /\ stat[w] < i[w] /\ i[w] >= backend_count
    BY <1>1 DEF Ahead, Passed, Choosing, Chosen, Least
  <2>3. i[w] \in Int
    BY DEF IInv, TypeOK
  <2> QED BY <2>1, <2>2, <2>3
<1>3. connections' = [connections EXCEPT ![stat[w]] = @ + 1]
  <2>1. /\ connections[stat[w]] \in Nat /\ Cardinality(Busy) \in Nat
        /\ connections[stat[w]] + Cardinality(Busy) <= picks
    BY <1>2, WorkerSubsets, WorkerSets DEF CountsLag
  <2>2. Cardinality(Busy) = Cardinality(Busy \ {w}) + 1 /\ Cardinality(Busy \ {w}) \in Nat
    BY <1>1, <2>1, WorkerSubsets, OneLess
  <2>3. connections[stat[w]] + 1 < IntLimit
    BY <1>2, <2>1, <2>2
  <2>4. Wrap(connections[stat[w]] + 1) = connections[stat[w]] + 1
    BY <2>1, <2>3, WrapNext
  <2> QED BY <1>1, <2>4
<1>4. /\ \A b \in Backends : connections'[b] = IF b = stat[w] THEN connections[b] + 1
                                                               ELSE connections[b]
      /\ \A b \in Backends : connections[b] \in Int
  BY <1>2, <1>3
<1>5. Loaded'
  <2>1. ASSUME NEW v \in Workers, pc'[v] = "compare" PROVE value[v] <= connections'[i[v]]
    <3>1. pc[v] = "compare"
      BY <1>1, <1>2, <2>1
    <3>2. i[v] \in Backends /\ value[v] \in Int
      BY <3>1, CandidateIsBackend
    <3>3. value[v] <= connections[i[v]]
      BY <3>1 DEF Loaded
    <3> QED BY <1>4, <3>2, <3>3
  <2> QED BY <1>1, <2>1 DEF Loaded
<1>6. AheadOfLater'
  <2>1. ASSUME NEW a \in Eligible, NEW c \in Eligible, a < c
        PROVE  connections'[a] + Cardinality(Past(a, c)') <= connections'[c] + MaxWorkers
    <3>1. connections[a] + Cardinality(Past(a, c)) <= connections[c] + MaxWorkers
      BY <2>1 DEF AheadOfLater
    <3>2. Past(a, c)' = Past(a, c) \ {w}
      BY <1>1, <1>2 DEF Past, InPick, Choosing, Chosen
    <3>3. CASE a = stat[w]
      <4>1. w \in Past(a, c)
        <5>1. c < i[w]
          BY <1>e
        <5> QED BY <1>1, <3>3, <5>1 DEF Past, InPick, Chosen
      <4>2. Cardinality(Past(a, c)) = Cardinality(Past(a, c)') + 1
        BY <3>2, <4>1, SpreadSets, SetChanges
      <4>3. connections'[a] = connections[a] + 1 /\ connections'[c] = connections[c]
        BY <1>4, <1>e, <2>1, <3>3
      <4> QED BY <1>4, <1>e, <3>1, <4>2, <4>3, SpreadSets
    <3>4. CASE a # stat[w]
      <4>1. Cardinality(Past(a, c)') <= Cardinality(Past(a, c))
        BY <3>2, SpreadSets, SetChanges
      <4>2. connections'[a] = connections[a] /\ connections'[c] \in {connections[c], connections[c] + 1}
        BY <1>4, <1>e, <2>1, <3>4
      <4> QED BY <1>4, <1>e, <2>1, <3>1, <4>1, <4>2, SpreadSets
    <3> QED BY <3>3, <3>4
  <2> QED BY <1>e, <2>1 DEF AheadOfLater
<1>7. AheadOfEarlier'
  <2>1. ASSUME NEW a \in Eligible \ {0}, NEW y \in Int, Bounds(a, y)'
        PROVE  connections'[a] + Cardinality(Prefer(a, y)') <= y + MaxWorkers
    <3>1. Bounds(a, y)
      <4>1. ASSUME NEW e \in Eligible, e < a PROVE connections[e] <= y
        <5>1. connections'[e] <= y
          BY <1>e, <2>1, <4>1 DEF Bounds
        <5> QED BY <1>4, <1>e, <5>1
      <4> QED BY <4>1 DEF Bounds
    <3>2. connections[a] + Cardinality(Prefer(a, y)) <= y + MaxWorkers
      BY <2>1, <3>1 DEF AheadOfEarlier
    <3>3. Prefer(a, y)' = Prefer(a, y) \ {w}
      BY <1>1, <1>2 DEF Prefer, InPick, Choosing, Chosen
    <3>4. CASE a = stat[w]
      <4>1. w \in Prefer(a, y)
        BY <1>1, <3>4 DEF Prefer, InPick, Chosen
      <4>2. Cardinality(Prefer(a, y)) = Cardinality(Prefer(a, y)') + 1
        BY <3>3, <4>1, SpreadSets, SetChanges
      <4> QED BY <1>4, <1>e, <3>2, <3>4, <4>2, SpreadSets
    <3>5. CASE a # stat[w]
      <4>1. Cardinality(Prefer(a, y)') <= Cardinality(Prefer(a, y))
        BY <3>3, SpreadSets, SetChanges
      <4> QED BY <1>4, <1>e, <3>2, <3>5, <4>1, SpreadSets
    <3> QED BY <3>4, <3>5
  <2> QED BY <1>e, <2>1 DEF AheadOfEarlier
<1>8. Unused'
  BY <1>4, <1>e DEF Unused
<1> QED BY <1>5, <1>6, <1>7, <1>8

LEMMA SpreadStep ==
  ASSUME IInv, Calm, Ahead, CountsLag, SpreadInv, [Next]_vars
  PROVE  SpreadInv'
<1> SUFFICES ASSUME Least', picks' < IntLimit
             PROVE  Loaded' /\ AheadOfLater' /\ AheadOfEarlier' /\ Unused'
  BY DEF SpreadInv
<1>1. Least /\ picks < IntLimit /\ UNCHANGED loaded /\ Eligible' = Eligible
  <2>1. /\ picks \in Nat /\ IntLimit \in Int /\ UNCHANGED loaded
        /\ picks' = picks \/ picks' = picks + 1
    BY CountsTypes, Frames
  <2>2. Eligible' = Eligible /\ Steady' = Steady /\ algorithm' = algorithm
    BY <2>1, StaysEligible DEF loaded
  <2> QED BY <2>1, <2>2 DEF Least
<1>2. Loaded /\ AheadOfLater /\ AheadOfEarlier /\ Unused
  BY <1>1 DEF SpreadInv
<1>u. UNCHANGED connections => Unused'
  BY <1>1, <1>2 DEF Unused
<1>3. ASSUME NEW w \in Workers, Pick(w) \/ Disconnect(w) \/ Dies(w)
      PROVE  Loaded' /\ AheadOfLater' /\ AheadOfEarlier' /\ Unused'
  <2>1. CASE Count(w)
    BY <1>1, <1>2, <2>1, SpreadCounts
  <2>2. CASE LoadCandidate(w) \/ Compare(w) \/ Dies(w)
    BY <1>1, <1>2, <1>u, <2>2, SpreadLoads, SpreadCompares, SpreadDies
  <2>3. CASE ~Count(w) /\ ~LoadCandidate(w) /\ ~Compare(w) /\ ~Dies(w)
    BY <1>1, <1>2, <1>u, <1>3, <2>3, SpreadPrefersNothing
  <2> QED BY <2>1, <2>2, <2>3
<1>4. CASE Master \/ UNCHANGED vars
  <2>1. UNCHANGED <<pc, i, stat, value, connections>>
    BY <1>4 DEF Master, MasterWakes, MasterProbes, MasterStores, MasterSignalled, vars, shared, locals
  <2>2. Loaded' /\ AheadOfLater'
    BY <1>1, <1>2, <2>1 DEF Loaded, AheadOfLater, Past
  <2>3. AheadOfEarlier'
    BY <1>1, <1>2, <2>1 DEF AheadOfEarlier, Prefer, Bounds
  <2> QED BY <1>u, <2>1, <2>2, <2>3
<1> QED BY <1>3, <1>4 DEF Next

\* From one backend to the next, the bound grows by the number of workers.
LEMMA SpreadFromInv ==
  ASSUME IInv, SpreadInv, Least, picks < IntLimit
  PROVE  SpreadBounded
<1>1. AheadOfLater /\ AheadOfEarlier /\ Unused
  BY DEF SpreadInv
<1> PICK n : n = MaxWorkers
  OBVIOUS
<1>2. /\ n \in Nat /\ connections \in [Backends -> Int] /\ NumBackends \in Nat
      /\ \A b \in Eligible : b \in Nat /\ b <= NumBackends - 1 /\ connections[b] \in Int
      /\ 0 \in Eligible
  <2>1. /\ n \in Nat /\ connections \in [Backends -> Int] /\ NumBackends \in Nat
        /\ \A b \in Backends : b \in Nat /\ b <= NumBackends - 1
    BY SpreadSets, CountsTypes, Constants DEF Backends
  <2> QED BY <2>1, EligibleSet
<1>3. ASSUME NEW a \in Eligible, NEW c \in Eligible, a < c
      PROVE  connections[a] <= connections[c] + n
  <2>1. /\ connections[a] + Cardinality(Past(a, c)) <= connections[c] + n
        /\ Cardinality(Past(a, c)) \in Nat
    BY <1>1, <1>3, SpreadSets DEF AheadOfLater
  <2> QED BY <1>2, <2>1
<1>4. ASSUME NEW a \in Eligible \ {0}, NEW y \in Int, Bounds(a, y)
      PROVE  connections[a] <= y + n
  <2>1. /\ connections[a] + Cardinality(Prefer(a, y)) <= y + n
        /\ Cardinality(Prefer(a, y)) \in Nat
    BY <1>1, <1>4, SpreadSets DEF AheadOfEarlier
  <2> QED BY <1>2, <2>1
<1>5. ASSUME NEW a \in Eligible, NEW c \in Eligible, c < a
      PROVE  connections[a] <= connections[c] + (NumBackends - 1) * n
  <2> PICK k : k = connections[c]
    OBVIOUS
  <2> PICK first : first = IF c = 0 THEN 0 ELSE n
    OBVIOUS
  <2>1. k \in Int /\ first \in Nat /\ c \in Nat
    BY <1>2
  <2> DEFINE T == {d \in Nat : \A e \in Eligible : e <= c + d => connections[e] <= k + first + d * n}
  <2>2. 0 \in T
    <3>1. ASSUME NEW e \in Eligible, e <= c PROVE connections[e] <= k + first
      <4>1. CASE e = c
        BY <1>2, <2>1, <4>1
      <4>2. CASE e < c
        <5>1. first = n
          BY <1>2, <4>2
        <5> QED BY <1>3, <4>2, <5>1
      <4> QED BY <1>2, <3>1, <4>1, <4>2
    <3>2. k + first + 0 * n = k + first /\ c + 0 = c
      BY <1>2, <2>1
    <3> QED BY <3>1, <3>2
  <2>3. ASSUME NEW d \in Nat, d \in T PROVE d + 1 \in T
    <3> PICK y : y = k + first + d * n
      OBVIOUS
    <3>1. /\ y \in Int
          /\ \A e \in Eligible : e <= c + d => connections[e] <= y
          /\ k + first + (d + 1) * n = y + n
      BY <1>2, <2>1, <2>3
    <3> HIDE DEF T
    <3>2. ASSUME NEW e \in Eligible, e <= c + (d + 1) PROVE connections[e] <= y + n
      <4>1. CASE e <= c + d
        BY <1>2, <3>1, <4>1
      <4>2. CASE e = c + (d + 1)
        <5>1. e \in Eligible \ {0} /\ Bounds(e, y)
          BY <1>2, <2>1, <3>1, <4>2 DEF Bounds
        <5> QED BY <1>4, <3>1, <5>1
      <4> QED BY <1>2, <2>1, <3>2, <4>1, <4>2
    <3> QED BY <3>1, <3>2 DEF T
  <2>4. Nat \subseteq T
    <3> HIDE DEF T
    <3> QED BY <2>2, <2>3, NatInductionOnSet
  <2> PICK d : d = a - c
    OBVIOUS
  <2>5. d \in Nat /\ c + d = a /\ d + 1 <= NumBackends /\ (c # 0 => d + 2 <= NumBackends)
    BY <1>2, <1>5, <2>1
  <2>6. connections[a] <= k + first + d * n
    BY <1>2, <2>4, <2>5
  <2>7. first + d * n <= (NumBackends - 1) * n
    <3> PICK m : m = NumBackends - 1 - d
      OBVIOUS
    <3>1. m \in Nat /\ (c # 0 => m >= 1)
      BY <1>2, <2>5
    <3>2. (NumBackends - 1) * n = d * n + m * n
      <4>1. NumBackends - 1 = d + m
        BY <1>2, <2>5
      <4>2. (d + m) * n = d * n + m * n
        BY <1>2, <2>5, <3>1
      <4> QED BY <4>1, <4>2, Zenon
    <3>3. first <= m * n
      <4>1. CASE c = 0
        BY <1>2, <3>1, <4>1
      <4>2. CASE c # 0
        BY <1>2, <3>1, <4>2
      <4> QED BY <4>1, <4>2
    <3>4. m * n \in Int /\ d * n \in Int
      BY <1>2, <2>5, <3>1
    <3> QED BY <2>1, <3>2, <3>3, <3>4
  <2>8. d * n \in Int /\ (NumBackends - 1) * n \in Int /\ connections[a] \in Int
    BY <1>2, <2>5
  <2> QED BY <2>1, <2>6, <2>7, <2>8
<1>6. ASSUME NEW a \in Eligible, NEW b \in Eligible
      PROVE  connections[a] - connections[b] <=
               (IF a < b THEN 1 ELSE NumBackends - 1) * n
  <2>1. connections[a] \in Int /\ connections[b] \in Int /\ a \in Int /\ b \in Int
    BY <1>2
  <2>2. CASE a < b
    BY <1>2, <1>3, <2>1, <2>2
  <2>3. CASE b < a
    <3>1. connections[a] <= connections[b] + (NumBackends - 1) * n
      BY <1>5, <2>3
    <3>2. (NumBackends - 1) * n \in Int
      BY <1>2
    <3> QED BY <2>1, <2>3, <3>1, <3>2
  <2>4. CASE a = b
    <3>1. (NumBackends - 1) * n >= 0 /\ (NumBackends - 1) * n \in Int
      <4>1. NumBackends - 1 \in Nat
        BY Constants
      <4> QED BY <1>2, <4>1
    <3> QED BY <2>1, <2>4, <3>1
  <2> QED BY <2>1, <2>2, <2>3, <2>4
<1> QED BY <1>1, <1>6 DEF SpreadBounded, Unused

-----------------------------------------------------------------------------
(* The invariants of the counts and weights, together.                     *)

CountsInv == Calm /\ Ahead /\ WeightAccounted /\ CountsLag /\ Covered /\ SpreadInv

LEMMA InitCounts == Init => CountsInv
<1> SUFFICES ASSUME Init PROVE CountsInv
  OBVIOUS
<1>i. IInv
  BY InitIInv
<1>1. Calm
  BY DEF Init, Calm
<1>2. Ahead
  BY DEF Init, Ahead, Passed, Choosing, Chosen
<1>3. \A w \in Workers : pc[w] = "idle" /\ Owed(w) = 0
  BY DEF Init, Owed
<1>4. /\ Cardinality(Busy) = 0 /\ Cardinality(Unfailed) = 0
      /\ \A b : Cardinality(Uncounted(b)) = 0
      /\ \A a, c : Cardinality(Past(a, c)) = 0
      /\ \A a, y : Cardinality(Prefer(a, y)) = 0
  <2>1. /\ Busy = {} /\ Unfailed = {}
        /\ \A b : Uncounted(b) = {}
        /\ \A a, c : Past(a, c) = {}
        /\ \A a, y : Prefer(a, y) = {}
    BY <1>3 DEF Busy, Unfailed, Uncounted, Past, Prefer, InPick, Choosing, Chosen
  <2> QED BY <2>1, FS_EmptySet, Zenon
<1>5. WeightAccounted
  <2>1. SumFunctionOnSet(current_weight, Backends) = 0 /\ AllConnections = 0
    <3>1. \A b \in Backends : current_weight[b] = 0 /\ connections[b] = 0
      BY DEF Init
    <3> QED BY <3>1, BackendsFinite, SumOfZeros DEF AllConnections
  <2>2. AllOwed = 0
    <3> PICK f : f = [w \in Workers |-> Owed(w)]
      OBVIOUS
    <3>1. \A w \in Workers : f[w] = 0
      BY <1>3
    <3>2. SumFunctionOnSet(f, Workers) = 0
      BY <3>1, LoadBalancerAssumption, SumOfZeros
    <3> QED BY <3>2, Zenon DEF AllOwed
  <2>3. Cardinality(Paying) = 0
    <3>1. Paying = {}
      BY <1>3 DEF Paying
    <3> QED BY <3>1, FS_EmptySet
  <2>4. Paid = AllConnections + Cardinality(Paying)
    BY Zenon DEF Paid, AllConnections, Paying
  <2>5. Overpaid * Paid = 0
    <3>1. Paid = 0
      BY <2>1, <2>3, <2>4
    <3> QED BY <3>1, OverpaidType
  <2> PICK m : m = Overpaid * Paid
    OBVIOUS
  <2>6. Debt = AllOwed - m
    BY Zenon DEF Debt
  <2>7. Debt = 0
    BY <2>2, <2>5, <2>6
  <2> QED BY <2>1, <2>7, Zenon DEF WeightAccounted, Debt, AllOwed
<1>6. CountsLag
  BY <1>4 DEF Init, CountsLag
<1>7. Covered
  <2>1. ASSUME NEW b \in Backends PROVE Opens(b) = 0
    <3> PICK f : f = [w \in Workers |-> open[w][b]]
      OBVIOUS
    <3>1. \A w \in Workers : f[w] = 0
      BY DEF Init
    <3>2. SumFunctionOnSet(f, Workers) = 0
      BY <3>1, LoadBalancerAssumption, SumOfZeros
    <3> QED BY <3>2, Zenon DEF Opens
  <2> QED BY <1>4, <2>1 DEF Init, Covered
<1>8. SpreadInv
  <2>1. MaxWorkers \in Nat /\ \A b \in Backends : connections[b] = 0
    BY SpreadSets DEF Init
  <2>2. Loaded
    BY <1>3 DEF Loaded
  <2>3. AheadOfLater
    <3>1. Eligible \subseteq Backends
      BY <1>i, EligibleSet
    <3> QED BY <1>4, <2>1, <3>1 DEF AheadOfLater
  <2>4. AheadOfEarlier
    <3>1. ASSUME NEW a \in Eligible \ {0}, NEW y \in Int, Bounds(a, y) PROVE 0 <= y
      <4>1. 0 \in Eligible /\ a \in Nat /\ 0 \in Backends
        BY <1>i, EligibleSet, Constants
      <4> QED BY <2>1, <3>1, <4>1 DEF Bounds
    <3>2. Eligible \subseteq Backends
      BY <1>i, EligibleSet
    <3> QED BY <1>4, <2>1, <3>1, <3>2 DEF AheadOfEarlier
  <2>5. Unused
    BY <2>1 DEF Unused
  <2> QED BY <2>2, <2>3, <2>4, <2>5 DEF SpreadInv
<1> QED BY <1>1, <1>2, <1>5, <1>6, <1>7, <1>8 DEF CountsInv

LEMMA CountsInvariant == Spec => []CountsInv
<1>1. IInv /\ IInv' /\ CountsInv /\ [Next]_vars => CountsInv'
  BY CalmStep, AheadStep, WeightStep, CountsLagStep, CoveredStep, SpreadStep DEF CountsInv
<1> QED BY <1>1, InitCounts, InductiveInvariant, PTL DEF Spec

\* While no health changes under a scan, and whatever backend_count is, the
\* weights of weighted round robin sum to what the unfinished picks have added
\* less what each paid one paid too much: however the picks interleave,
\* wherever workers die and however often the sums wrap.
THEOREM WeightAlwaysAccounted == Spec => []WeightAccounted
<1>1. CountsInv => WeightAccounted
  BY DEF CountsInv
<1> QED BY <1>1, CountsInvariant, PTL

\* Until INT_MAX picks have started, the open connections of a backend are
\* covered by its statistics.
THEOREM OpenAlwaysCounted == Spec => [](picks < IntLimit => OpenAreCounted)
<1>1. ASSUME CountsInv, IInv, picks < IntLimit PROVE OpenAreCounted
  <2>1. ASSUME algorithm # "RoundRobin", NEW b \in Backends
        PROVE  Opens(b) <= connections[b] - failed_connections[b]
                 + Cardinality({w \in Workers : pc[w] \in {"failed", "count"} /\ stat[w] = b})
    <3> PICK S : S = {w \in Workers : pc[w] \in {"failed", "count"} /\ stat[w] = b}
      OBVIOUS
    <3>1. Opens(b) <= connections[b] - failed_connections[b] + Cardinality(Uncounted(b))
      BY <1>1, <2>1 DEF CountsInv, Covered
    <3>2. Uncounted(b) \subseteq S /\ S \subseteq Workers /\ Uncounted(b) \subseteq Workers
      BY DEF Uncounted
    <3>3. Cardinality(Uncounted(b)) <= Cardinality(S)
      BY <3>2, SetChanges
    <3>4. /\ connections[b] \in Int /\ failed_connections[b] \in Int
          /\ Cardinality(Uncounted(b)) \in Nat /\ Cardinality(S) \in Nat
      BY <1>1, <3>2, CountsTypes, WorkerSets
    <3>5. Opens(b) \in Int
      BY <1>1, OpensType DEF IInv
    <3>6. Opens(b) <= connections[b] - failed_connections[b] + Cardinality(S)
      BY <3>1, <3>3, <3>4, <3>5
    <3> QED BY <3>6, Zenon
  <2> QED BY <2>1, Zenon DEF OpenAreCounted, Opens
<1> QED BY <1>1, CountsInvariant, InductiveInvariant, PTL

\* Until INT_MAX picks have started and while no health changes under a scan,
\* least connections keeps the counts of the eligible backends as close as
\* SpreadBounded says and counts nothing for the others.  With backend_count
\* as loaded that is: everything goes to backend 0.
THEOREM SpreadAlwaysBounded == Spec => [](picks < IntLimit => SpreadBounded)
<1>1. ASSUME CountsInv, IInv, picks < IntLimit PROVE SpreadBounded
  <2>1. CASE Least
    BY <1>1, <2>1, SpreadFromInv DEF CountsInv
  <2>2. CASE ~Least
    BY <2>2 DEF Least, SpreadBounded
  <2> QED BY <2>1, <2>2
<1> QED BY <1>1, CountsInvariant, InductiveInvariant, PTL
=============================================================================
