------------------------- MODULE ConfigLoaderProofs -------------------------
(***************************************************************************)
(* Proofs about ConfigLoader: for every file, which backends load_config   *)
(* gives a listener, that its total_weight is their sum, and at which      *)
(* entries it ends the process.                                            *)
(***************************************************************************)
EXTENDS ConfigLoader, FoldLemmas

\* A backend as it is stored.
Stored(element, algorithm) ==
  LET written == IF element.weight = Absent THEN 0 ELSE element.weight
  IN [host |-> element.host,
      weight |-> IF written = 0 /\ algorithm = "WeightedRoundRobin" THEN 1 ELSE written]

\* The file is there once it has been loaded; nothing is read before.
FileThere == IF pc \in {"file", "failed"} THEN i = 0 ELSE file # Absent

\* The listener whose backends are being read, as far as it has been checked.
InBackends ==
  pc = "backend" =>
    /\ i < Len(file)
    /\ HasStrings(item)
    /\ item.backends # Absent
    /\ item.load_balancing # Absent
    /\ j > 0 => BackendItem.host # Absent

\* The entry at this position is read to its end.
Complete(it, position) ==
  /\ HasStrings(it)
  /\ IF it.backends = Absent THEN it.root
     ELSE /\ it.load_balancing # Absent
          /\ \/ it.backends = <<>>
             \/ Element(it.backends, position).host # Absent

\* The listeners before it are complete.
AllComplete == \A k \in 1 .. i : Complete(file[k], k - 1)

\* The k-th listener has n backends, each read from its own entry's element k.
HasBackends(k, n) ==
  config[k].backends =
    [m \in 1 .. n |-> Stored(Element(file[k].backends, k - 1), config[k].algorithm)]

BackendsAsRead ==
  /\ \A k \in 1 .. i :
       file[k].backends # Absent => HasBackends(k, Len(file[k].backends))
  /\ pc = "backend" => HasBackends(i + 1, j)

\* What the entry at this position must be for the process to end there.
Fatal(it, position) ==
  \/ Lacking(it)
  \/ /\ it.backends # Absent
     /\ \/ Len(it.backends) <= position
        \/ \E m \in DOMAIN it.backends : it.backends[m].host = Absent

\* The process ended at this entry.
CrashedHere == pc = "crashed" => i < Len(file) /\ Fatal(item, i)

LoadedAll == pc = "loaded" => i = Len(file)

\* No listener is missing, also when the process ends.
Lengths == i <= Len(config)

IInv ==
  /\ TypeOK /\ FileThere /\ InBackends /\ AllComplete /\ BackendsAsRead
  /\ CrashedHere /\ LoadedAll /\ Lengths /\ TotalIsSum

-----------------------------------------------------------------------------
\* A file that is there is a sequence of entries.
LEMMA EntriesAre ==
  ASSUME NEW f \in Files, f # Absent
  PROVE  /\ f \in Seq(ListenerEntries) /\ Len(f) \in Nat
         /\ \A k \in 1 .. Len(f) : f[k] \in ListenerEntries
<1>1. f \in Seq(ListenerEntries)
  BY FilesAssumption
<1> QED BY <1>1, ElementOfSeq, LenProperties

\* What json_array_get returns is an element, or has nothing in it.
LEMMA ElementIs ==
  ASSUME NEW b \in Seq(BackendEntries), NEW k \in Nat
  PROVE  /\ Element(b, k) \in BackendEntries
         /\ Element(b, k).host # Absent => k < Len(b) /\ Element(b, k) = b[k + 1]
<1>1. CASE k < Len(b)
  <2>1. k + 1 \in 1 .. Len(b)
    BY <1>1, LenProperties
  <2> QED BY <1>1, <2>1, ElementOfSeq DEF Element
<1>2. CASE ~ (k < Len(b))
  BY <1>2 DEF Element, BackendEntries
<1> QED BY <1>1, <1>2

\* An entry that is complete lacks nothing; one where strcpy meets a string that
\* is missing lacks it.
LEMMA CompleteLacksNothing ==
  ASSUME NEW it \in ListenerEntries, NEW k, Complete(it, k)
  PROVE  ~ Lacking(it)
<1>1. /\ it.server_name = "fits"
      /\ it.ssl => it.key = "fits" /\ it.cert = "fits"
  <2>1. ASSUME it.ssl PROVE it.server_name = "fits" /\ it.key = "fits" /\ it.cert = "fits"
    BY <2>1, \A n \in 1 .. 3 : Copied(it)[n] = "fits" DEF Complete, HasStrings, Copied
  <2>2. ASSUME ~ it.ssl PROVE it.server_name = "fits"
    BY <2>2, Copied(it)[1] = "fits" DEF Complete, HasStrings, Copied
  <2> QED BY <2>1, <2>2 DEF ListenerEntries
<1> QED BY <1>1 DEF Complete, Lacking

LEMMA MissingIsLacking ==
  ASSUME NEW it \in ListenerEntries, Meets(it, "missing")
  PROVE  Lacking(it)
<1>1. PICK n \in DOMAIN Copied(it) : Copied(it)[n] = "missing"
  BY DEF Meets
<1>2. CASE it.ssl
  <2>1. n \in 1 .. 3 /\ Copied(it) = <<it.server_name, it.key, it.cert>>
    BY <1>1, <1>2 DEF Copied
  <2> QED BY <1>1, <1>2, <2>1 DEF Lacking
<1>3. CASE ~ it.ssl
  <2>1. n = 1 /\ Copied(it) = <<it.server_name>>
    BY <1>1, <1>3 DEF Copied
  <2> QED BY <1>1, <2>1 DEF Lacking
<1> QED BY <1>2, <1>3

\* What is stored of an element that names a host.
LEMMA StoredIs ==
  ASSUME NEW e \in BackendEntries, e.host # Absent, NEW a
  PROVE  /\ Stored(e, a) \in [host : Hosts, weight : Nat]
         /\ Stored(e, a).weight \in Nat
BY DEF BackendEntries, Stored

\* The sum of the weights, one backend at a time.
LEMMA WeightSumOfNone == WeightSum(<<>>) = 0
<1>1. DOMAIN <<>> = {}
  OBVIOUS
<1> QED BY <1>1, SumOfEmpty DEF WeightSum

LEMMA WeightSumOfMore ==
  ASSUME NEW b \in Seq([host : Hosts, weight : Nat]), NEW x \in [host : Hosts, weight : Nat]
  PROVE  WeightSum(Append(b, x)) = WeightSum(b) + x.weight
<1> DEFINE n == Len(b)
           more == Append(b, x)
           f == [m \in DOMAIN b |-> b[m].weight]
           g == [m \in DOMAIN more |-> more[m].weight]
<1>1. n \in Nat /\ DOMAIN b = 1 .. n /\ DOMAIN more = 1 .. n + 1
  BY AppendProperties, LenProperties
<1>2. more[n + 1] = x /\ \A m \in 1 .. n : more[m] = b[m] /\ b[m] \in [host : Hosts, weight : Nat]
  <2>1. more[n + 1] = x /\ \A m \in 1 .. n : more[m] = b[m]
    BY AppendProperties
  <2>2. \A m \in 1 .. n : b[m] \in [host : Hosts, weight : Nat]
    BY ElementOfSeq
  <2> QED BY <2>1, <2>2
<1>3. g[n + 1] = x.weight /\ x.weight \in Nat /\ \A m \in 1 .. n : g[m] = f[m] /\ f[m] \in Nat
  BY <1>1, <1>2
<1>4. WeightSum(more) = SumFunctionOnSet(g, 1 .. n + 1) /\ WeightSum(b) = SumFunctionOnSet(f, 1 .. n)
  BY <1>1 DEF WeightSum
<1> HIDE DEF f, g, n, more
<1>5. \A m \in 1 .. n + 1 : g[m] \in Int
  BY <1>1, <1>3
<1>6. IsFiniteSet(1 .. n + 1) /\ IsFiniteSet(1 .. n) /\ n + 1 \in 1 .. n + 1
  BY <1>1, FS_Interval
<1>7. (1 .. n + 1) \ {n + 1} = 1 .. n
  BY <1>1
<1>8. SumFunctionOnSet(g, 1 .. n + 1) = g[n + 1] + SumFunctionOnSet(g, 1 .. n)
  <2>1. \A y \in 1 .. n + 1 : SumFunctionOnSet(g, 1 .. n + 1) =
          g[y] + SumFunctionOnSet(g, (1 .. n + 1) \ {y})
    BY ONLY <1>5, <1>6, SumOfInts
  <2> QED BY <1>6, <1>7, <2>1
<1>9. SumFunctionOnSet(g, 1 .. n) = SumFunctionOnSet(f, 1 .. n)
  BY <1>3, <1>6, SumOfEquals
<1>10. SumFunctionOnSet(f, 1 .. n) \in Nat
  BY <1>3, <1>6, SumOfNats
<1> QED BY <1>3, <1>4, <1>8, <1>9, <1>10 DEF more

LEMMA InitInv == Init => IInv
<1> SUFFICES ASSUME Init PROVE IInv
  OBVIOUS
<1>1. config \in Seq(ListenerConfig) /\ Len(config) = 0
  BY EmptySeq DEF Init
<1>2. file # Absent => Len(file) \in Nat
  BY EntriesAre DEF Init
<1> QED BY <1>1, <1>2 DEF Init, IInv, TypeOK, FileThere, InBackends, AllComplete,
  BackendsAsRead, CrashedHere, LoadedAll, Lengths, TotalIsSum

-----------------------------------------------------------------------------
(* What the entry being read is, in the two places where it is looked at.  *)

\* The entry at i, and the array of its backends.
LEMMA ItemIs ==
  ASSUME TypeOK, FileThere, pc \in {"listener", "backend"}, i < Len(file)
  PROVE  /\ i + 1 \in 1 .. Len(file) /\ item \in ListenerEntries
         /\ item.backends # Absent =>
              /\ item.backends \in Seq(BackendEntries)
              /\ Len(item.backends) \in Nat
<1>1. file \in Files /\ file # Absent /\ i \in Nat
  BY DEF TypeOK, FileThere
<1>2. Len(file) \in Nat /\ \A k \in 1 .. Len(file) : file[k] \in ListenerEntries
  BY <1>1, EntriesAre
<1>3. i + 1 \in 1 .. Len(file)
  BY <1>1, <1>2
<1>4. item \in ListenerEntries
  BY <1>2, <1>3 DEF item
<1>5. item.backends \in {Absent} \cup Seq(BackendEntries)
  BY <1>4 DEF ListenerEntries
<1> QED BY <1>3, <1>4, <1>5, LenProperties

\* The configuration with one more listener: those before it stay.
LEMMA OneMore ==
  ASSUME NEW c \in Seq(ListenerConfig), NEW x \in ListenerConfig
  PROVE  /\ Append(c, x) \in Seq(ListenerConfig)
         /\ Len(Append(c, x)) = Len(c) + 1
         /\ \A k \in 1 .. Len(c) : Append(c, x)[k] = c[k]
         /\ Append(c, x)[Len(c) + 1] = x
         /\ Len(c) \in Nat
BY AppendProperties, LenProperties

\* A listener as it is when its entry is begun.
LEMMA FreshIs ==
  ASSUME NEW it \in ListenerEntries, NEW a \in Garbage
  PROVE  /\ Static(it) \in ListenerConfig
         /\ Balancer(it, a) \in ListenerConfig
         /\ Balancer(it, a).backends = <<>> /\ Static(it).backends = <<>>
         /\ Totalled(Static(it)) /\ Totalled(Balancer(it, a))
<1>1. <<>> \in Seq([host : Hosts, weight : Nat])
  BY EmptySeq
<1>2. /\ Static(it) \in ListenerConfig
      /\ Balancer(it, a) \in ListenerConfig
      /\ Balancer(it, a).backends = <<>> /\ Static(it).backends = <<>>
  BY <1>1 DEF ListenerEntries, Static, Balancer, ListenerConfig
<1>3. Static(it).total_weight = 0 /\ Balancer(it, a).total_weight = 0
  BY DEF Static, Balancer
<1>4. Totalled(Static(it)) /\ Totalled(Balancer(it, a))
  BY <1>2, <1>3, WeightSumOfNone DEF Totalled
<1> QED BY <1>2, <1>4

\* A listener with one more backend.
LEMMA BackendAdded ==
  ASSUME NEW l \in ListenerConfig, NEW e \in BackendEntries, e.host # Absent
  PROVE  /\ WithBackend(l, e) \in ListenerConfig
         /\ WithBackend(l, e).backends = Append(l.backends, Stored(e, l.algorithm))
         /\ WithBackend(l, e).algorithm = l.algorithm
         /\ Totalled(l) => Totalled(WithBackend(l, e))
<1> DEFINE weight == Stored(e, l.algorithm).weight
<1>1. weight \in Nat /\ Stored(e, l.algorithm) \in [host : Hosts, weight : Nat]
  BY StoredIs
<1>2. l.backends \in Seq([host : Hosts, weight : Nat]) /\ l.total_weight \in Nat
  BY DEF ListenerConfig
<1>3. WithBackend(l, e) =
        [l EXCEPT !.backends = Append(@, Stored(e, l.algorithm)),
                  !.total_weight = IF l.algorithm = "WeightedRoundRobin"
                                   THEN @ + weight ELSE @]
  BY DEF WithBackend, Stored
<1>4. Append(l.backends, Stored(e, l.algorithm)) \in Seq([host : Hosts, weight : Nat])
  BY <1>1, <1>2, AppendProperties
<1>5. (IF l.algorithm = "WeightedRoundRobin" THEN l.total_weight + weight
       ELSE l.total_weight) \in Nat
  BY <1>1, <1>2
<1>6. l.algorithm = "WeightedRoundRobin" => weight > 0
  BY <1>1 DEF Stored, BackendEntries
<1> HIDE DEF weight
<1>7. /\ WithBackend(l, e) \in ListenerConfig
      /\ WithBackend(l, e).backends = Append(l.backends, Stored(e, l.algorithm))
      /\ WithBackend(l, e).algorithm = l.algorithm
      /\ WithBackend(l, e).total_weight =
           IF l.algorithm = "WeightedRoundRobin" THEN l.total_weight + weight
           ELSE l.total_weight
  BY <1>3, <1>4, <1>5 DEF ListenerConfig
<1>8. ASSUME Totalled(l) PROVE Totalled(WithBackend(l, e))
  <2> DEFINE s == Stored(e, l.algorithm)
             b == l.backends
  <2>1. CASE l.algorithm # "WeightedRoundRobin"
    BY <1>7, <1>8, <2>1 DEF Totalled
  <2>2. CASE l.algorithm = "WeightedRoundRobin"
    <3>1. WeightSum(Append(b, s)) = WeightSum(b) + weight
      BY <1>1, <1>2, WeightSumOfMore DEF weight
    <3>2. DOMAIN Append(b, s) = 1 .. Len(b) + 1 /\ DOMAIN b = 1 .. Len(b) /\ Len(b) \in Nat
      BY <1>1, <1>2, AppendProperties, LenProperties
    <3>3. /\ \A m \in 1 .. Len(b) : Append(b, s)[m] = b[m]
          /\ Append(b, s)[Len(b) + 1] = s
      BY <1>1, <1>2, AppendProperties
    <3>4. s.weight > 0 /\ \A m \in 1 .. Len(b) : b[m].weight > 0
      BY <1>6, <1>8, <2>2, <3>2 DEF Totalled, weight
    <3> HIDE DEF s, b
    <3>5. \A m \in 1 .. Len(b) + 1 : Append(b, s)[m].weight > 0
      BY <3>2, <3>3, <3>4
    <3>6. l.total_weight = WeightSum(b)
      BY <1>8, <2>2 DEF Totalled, b
    <3> QED BY <1>7, <2>2, <3>1, <3>2, <3>5, <3>6 DEF Totalled, s, b
  <2> QED BY <2>1, <2>2
<1> QED BY <1>7, <1>8

\* The listeners before the last keep their totals, and the last has its own.
LEMMA TotalsGrow ==
  ASSUME config \in Seq(ListenerConfig), config' \in Seq(ListenerConfig), TotalIsSum,
         NEW n \in Nat, n <= Len(config), Len(config') = n + 1,
         \A k \in 1 .. n : config'[k] = config[k], Totalled(config'[n + 1])
  PROVE  TotalIsSum'
<1>1. /\ DOMAIN config = 1 .. Len(config) /\ Len(config) \in Nat
      /\ DOMAIN config' = 1 .. n + 1
  BY LenProperties
<1>2. ASSUME NEW k \in DOMAIN config' PROVE Totalled(config'[k])
  <2>1. CASE k = n + 1
    BY <2>1
  <2>2. CASE k \in 1 .. n
    <3>1. k \in DOMAIN config
      BY <1>1, <2>2
    <3> QED BY <2>2, <3>1 DEF TotalIsSum
  <2> QED BY <1>1, <2>1, <2>2
<1>3. TotalIsSum' = \A k \in DOMAIN config' : Totalled(config'[k])
  BY DEF TotalIsSum, Totalled
<1> QED BY <1>2, <1>3

-----------------------------------------------------------------------------
(* The steps.                                                              *)

\* A listener of static files is loaded whole.
LEMMA LoadStaticStep == IInv /\ LoadStatic => IInv'
<1> SUFFICES ASSUME IInv, LoadStatic PROVE IInv'
  OBVIOUS
<1>0. TypeOK /\ FileThere /\ pc = "listener" /\ i < Len(file) /\ i \in Nat
  BY DEF IInv, TypeOK, LoadStatic
<1>1. item \in ListenerEntries /\ item.backends = Absent /\ HasStrings(item) /\ item.root
  BY <1>0, ItemIs DEF LoadStatic
<1> DEFINE x == Static(item)
<1>2. x \in ListenerConfig /\ Totalled(x)
  BY <1>1, FreshIs DEF Garbage, Algorithms
<1>3. config \in Seq(ListenerConfig) /\ config' = Append(config, x) /\ Len(config) = i
  BY <1>0 DEF IInv, TypeOK, LoadStatic
<1> HIDE DEF x
<1>4. /\ config' \in Seq(ListenerConfig) /\ Len(config') = i + 1
      /\ \A k \in 1 .. i : config'[k] = config[k]
      /\ config'[i + 1] = x
  BY <1>2, <1>3, OneMore
<1>5. /\ i' = i + 1 /\ UNCHANGED <<file, pc, j>> /\ i' <= Len(file)
  BY <1>0, EntriesAre DEF LoadStatic, TypeOK, FileThere
<1>6. TypeOK' /\ Lengths'
  BY <1>0, <1>4, <1>5 DEF TypeOK, Lengths
<1>7. AllComplete'
  <2>1. Complete(item, i)
    BY <1>1 DEF Complete
  <2>2. ASSUME NEW k \in 1 .. i' PROVE Complete(file[k], k - 1)
    <3>1. CASE k \in 1 .. i
      BY <3>1 DEF IInv, AllComplete
    <3>2. CASE k = i + 1
      BY <1>0, <2>1, <3>2 DEF item
    <3> QED BY <1>0, <1>5, <3>1, <3>2
  <2> QED BY <1>5, <2>2 DEF AllComplete
<1>8. BackendsAsRead'
  <2>1. file[i + 1].backends = Absent
    BY <1>1 DEF item
  <2>2. ASSUME NEW k \in 1 .. i', file[k].backends # Absent
        PROVE  HasBackends(k, Len(file[k].backends))'
    <3>1. k \in 1 .. i
      BY <1>0, <1>5, <2>1, <2>2
    <3> QED BY <1>4, <1>5, <2>2, <3>1 DEF IInv, BackendsAsRead, HasBackends
  <2> QED BY <1>0, <1>5, <2>2 DEF BackendsAsRead
<1>9. TotalIsSum'
  BY <1>0, <1>2, <1>3, <1>4, TotalsGrow DEF IInv
<1> QED BY <1>0, <1>5, <1>6, <1>7, <1>8, <1>9
  DEF IInv, FileThere, InBackends, CrashedHere, LoadedAll

\* A listener with backends is begun, and has none yet.
LEMMA LoadBalancerOfStep == IInv /\ LoadBalancerOf => IInv'
<1> SUFFICES ASSUME IInv, LoadBalancerOf PROVE IInv'
  OBVIOUS
<1>0. TypeOK /\ FileThere /\ pc = "listener" /\ i < Len(file) /\ i \in Nat
  BY DEF IInv, TypeOK, LoadBalancerOf
<1>1. /\ item \in ListenerEntries /\ HasStrings(item)
      /\ item.backends # Absent /\ item.load_balancing # Absent /\ Len(item.backends) \in Nat
  BY <1>0, ItemIs DEF LoadBalancerOf
<1>2. PICK a \in AlgorithmsOf(item.load_balancing) : config' = Append(config, Balancer(item, a))
  BY DEF LoadBalancerOf
<1>3. a \in Garbage
  BY DEF AlgorithmsOf, Garbage, Algorithms
<1> DEFINE x == Balancer(item, a)
<1>4. x \in ListenerConfig /\ x.backends = <<>> /\ Totalled(x)
  BY <1>1, <1>3, FreshIs
<1>5. config \in Seq(ListenerConfig) /\ Len(config) = i /\ config' = Append(config, x)
  BY <1>0, <1>2 DEF TypeOK
<1> HIDE DEF x
<1>6. /\ config' \in Seq(ListenerConfig) /\ Len(config') = i + 1
      /\ \A k \in 1 .. i : config'[k] = config[k]
      /\ config'[i + 1] = x
  BY <1>4, <1>5, OneMore
<1>7. j' = 0 /\ pc' = "backend" /\ UNCHANGED <<file, i>>
  BY DEF LoadBalancerOf
<1>8. item' = item /\ lc' = x
  BY <1>6, <1>7 DEF item, lc
<1>9. TypeOK' /\ Lengths'
  BY <1>0, <1>1, <1>4, <1>6, <1>7, <1>8 DEF TypeOK, Lengths
<1>10. BackendsAsRead'
  <2>1. \A k \in 1 .. i : file[k].backends # Absent => HasBackends(k, Len(file[k].backends))'
    BY <1>6, <1>7 DEF IInv, BackendsAsRead, HasBackends
  <2>2. HasBackends(i + 1, j)'
    BY <1>4, <1>6, <1>7 DEF HasBackends
  <2> QED BY <1>7, <2>1, <2>2 DEF BackendsAsRead
<1>11. TotalIsSum'
  BY <1>0, <1>4, <1>5, <1>6, TotalsGrow DEF IInv
<1> QED BY <1>0, <1>1, <1>7, <1>8, <1>9, <1>10, <1>11
  DEF IInv, FileThere, InBackends, CrashedHere, LoadedAll, AllComplete

\* One more backend, from the entry's element i.
LEMMA LoadBackendStep == IInv /\ LoadBackend => IInv'
<1> SUFFICES ASSUME IInv, LoadBackend PROVE IInv'
  OBVIOUS
<1>0. TypeOK /\ FileThere /\ pc = "backend" /\ i < Len(file) /\ i \in Nat /\ j \in Nat
  BY DEF IInv, TypeOK, InBackends, LoadBackend
<1>1. item.backends \in Seq(BackendEntries) /\ Len(item.backends) \in Nat
  BY <1>0, ItemIs DEF IInv, InBackends
<1> DEFINE e == BackendItem
           x == WithBackend(lc, e)
<1>2. e \in BackendEntries /\ e.host # Absent /\ j < Len(item.backends)
  BY <1>0, <1>1, ElementIs DEF LoadBackend, BackendItem
<1>3. /\ config \in Seq(ListenerConfig) /\ Len(config) = i + 1
      /\ lc = config[i + 1] /\ lc \in ListenerConfig
  BY <1>0, ElementOfSeq DEF TypeOK, lc
<1>4. /\ x \in ListenerConfig
      /\ x.backends = Append(lc.backends, Stored(e, lc.algorithm))
      /\ x.algorithm = lc.algorithm
      /\ Totalled(x)
  <2>1. Totalled(lc)
    BY <1>0, <1>3, LenProperties DEF IInv, TotalIsSum
  <2> QED BY <1>2, <1>3, <2>1, BackendAdded
<1>5. /\ config' = [config EXCEPT ![i + 1] = x]
      /\ j' = j + 1 /\ UNCHANGED <<file, pc, i>>
  BY <1>3 DEF LoadBackend
<1> HIDE DEF x
<1>6. /\ config' \in Seq(ListenerConfig) /\ Len(config') = i + 1
      /\ \A k \in 1 .. i : config'[k] = config[k]
      /\ config'[i + 1] = x
  BY <1>0, <1>3, <1>4, <1>5, ExceptSeq
<1>7. lc' = x /\ item' = item /\ BackendItem' = BackendItem
  BY <1>5, <1>6 DEF lc, item, BackendItem, Element
<1>8. HasBackends(i + 1, j)
  BY <1>0 DEF IInv, BackendsAsRead
<1>9. HasBackends(i + 1, j)'
  <2>1. lc.backends = [m \in 1 .. j |-> Stored(e, lc.algorithm)]
    BY <1>0, <1>3, <1>8 DEF HasBackends, BackendItem, item
  <2>2. x.backends = [m \in 1 .. j + 1 |-> Stored(e, lc.algorithm)]
    BY <1>0, <1>4, <2>1
  <2> QED BY <1>0, <1>4, <1>5, <1>6, <2>2 DEF HasBackends, BackendItem, item
<1>10. TypeOK' /\ Lengths'
  <2>1. Len(x.backends) = j + 1
    <3>1. lc.backends \in Seq([host : Hosts, weight : Nat])
      BY <1>3 DEF ListenerConfig
    <3>2. Len(lc.backends) = j
      BY <1>0 DEF TypeOK
    <3>3. Stored(e, lc.algorithm) \in [host : Hosts, weight : Nat]
      BY <1>2, StoredIs
    <3> QED BY <1>4, <3>1, <3>2, <3>3, AppendProperties
  <2>2. j' \in Nat /\ j' <= Len(item'.backends) /\ Len(lc'.backends) = j'
    BY <1>0, <1>1, <1>2, <1>5, <1>7, <2>1
  <2> QED BY <1>0, <1>5, <1>6, <2>2 DEF TypeOK, Lengths
<1>11. BackendsAsRead'
  <2>1. \A k \in 1 .. i : file[k].backends # Absent => HasBackends(k, Len(file[k].backends))'
    BY <1>5, <1>6 DEF IInv, BackendsAsRead, HasBackends
  <2> QED BY <1>5, <1>9, <2>1 DEF BackendsAsRead
<1>12. TotalIsSum'
  BY <1>0, <1>3, <1>4, <1>6, TotalsGrow DEF IInv
<1> QED BY <1>0, <1>2, <1>5, <1>7, <1>10, <1>11, <1>12
  DEF IInv, FileThere, InBackends, CrashedHere, LoadedAll, AllComplete

\* All backends are read: the entry was complete.
LEMMA BackendsEndStep == IInv /\ BackendsEnd => IInv'
<1> SUFFICES ASSUME IInv, BackendsEnd PROVE IInv'
  OBVIOUS
<1>0. /\ TypeOK /\ FileThere /\ InBackends /\ pc = "backend" /\ i < Len(file)
      /\ i \in Nat /\ j \in Nat /\ j = Len(item.backends)
  BY DEF IInv, TypeOK, InBackends, BackendsEnd
<1>1. item.backends \in Seq(BackendEntries) /\ file # Absent /\ Len(file) \in Nat
  BY <1>0, ItemIs, EntriesAre DEF InBackends, FileThere, TypeOK
<1>2. /\ pc' = "listener" /\ i' = i + 1 /\ UNCHANGED <<file, j, config>>
  BY DEF BackendsEnd
<1>3. Complete(item, i)
  <2>1. item.backends = <<>> \/ j > 0
    BY <1>0, <1>1, EmptySeq
  <2> QED BY <1>0, <2>1 DEF InBackends, Complete, BackendItem
<1>4. TypeOK' /\ Lengths'
  BY <1>0, <1>1, <1>2 DEF TypeOK, Lengths
<1>5. ASSUME NEW k \in 1 .. i + 1
      PROVE  /\ Complete(file[k], k - 1)
             /\ file[k].backends # Absent => HasBackends(k, Len(file[k].backends))
  <2>1. CASE k \in 1 .. i
    BY <2>1 DEF IInv, AllComplete, BackendsAsRead
  <2>2. CASE k = i + 1
    BY <1>0, <1>3, <2>2 DEF IInv, BackendsAsRead, item
  <2> QED BY <1>0, <2>1, <2>2
<1>6. AllComplete' /\ BackendsAsRead'
  BY <1>2, <1>5 DEF AllComplete, BackendsAsRead, HasBackends
<1>7. TotalIsSum'
  BY <1>2 DEF IInv, TotalIsSum
<1> QED BY <1>1, <1>2, <1>4, <1>6, <1>7
  DEF IInv, FileThere, InBackends, CrashedHere, LoadedAll

\* Where the process ends, or leaves what is defined, the entry was to blame.
LEMMA CrashStep == IInv /\ (ListenerCrashes \/ StringOverflows \/ BackendCrashes) => IInv'
<1> SUFFICES ASSUME IInv, ListenerCrashes \/ StringOverflows \/ BackendCrashes PROVE IInv'
  OBVIOUS
<1>0. /\ TypeOK /\ FileThere /\ pc \in {"listener", "backend"} /\ i < Len(file)
      /\ i \in Nat /\ j \in Nat
      /\ pc = "listener" \/ pc' = "crashed"
  BY DEF IInv, TypeOK, InBackends, ListenerCrashes, StringOverflows, BackendCrashes, Crash
<1>1. pc' \in {"crashed", "undefined"} /\ UNCHANGED <<file, i, j, config>>
  BY DEF ListenerCrashes, StringOverflows, BackendCrashes, Crash
<1>2. pc' = "crashed" => Fatal(item, i)
  <2>1. CASE ListenerCrashes
    <3>1. item \in ListenerEntries
      BY <1>0, ItemIs
    <3> QED BY <2>1, <3>1, MissingIsLacking DEF ListenerCrashes, Fatal, Lacking
  <2>2. CASE BackendCrashes
    <3>1. /\ item.backends # Absent /\ Element(item.backends, i).host = Absent
          /\ Len(item.backends) \in Nat
      BY <1>0, <2>2, ItemIs DEF BackendCrashes, IInv, InBackends, BackendItem
    <3>2. CASE i < Len(item.backends)
      <4>1. i + 1 \in DOMAIN item.backends
        BY <1>0, <3>1, <3>2, ItemIs, LenProperties
      <4> QED BY <3>1, <3>2, <4>1 DEF Element, Fatal
    <3> QED BY <1>0, <3>1, <3>2 DEF Fatal
  <2>3. CASE StringOverflows
    BY <2>3 DEF StringOverflows
  <2> QED BY <2>1, <2>2, <2>3
<1>3. TypeOK'
  BY <1>0, <1>1 DEF TypeOK
<1>4. AllComplete' /\ Lengths' /\ FileThere'
  BY <1>0, <1>1 DEF IInv, AllComplete, Lengths, FileThere
<1>5. BackendsAsRead'
  BY <1>1 DEF IInv, BackendsAsRead, HasBackends
<1>6. CrashedHere'
  BY <1>0, <1>1, <1>2 DEF CrashedHere, Fatal, item
<1>7. TotalIsSum'
  BY <1>1 DEF IInv, TotalIsSum
<1> QED BY <1>1, <1>3, <1>4, <1>5, <1>6, <1>7 DEF IInv, InBackends, LoadedAll

\* The file is opened; the loop over the listeners is left.
LEMMA ControlStep == IInv /\ (LoadFile \/ Loaded) => IInv'
<1> SUFFICES ASSUME IInv, LoadFile \/ Loaded PROVE IInv'
  OBVIOUS
<1>1. /\ pc \in {"file", "listener"} /\ pc' \in {"failed", "listener", "loaded"}
      /\ pc' \in {"listener", "loaded"} => file # Absent
      /\ pc' = "loaded" => i = Len(file)
      /\ pc' = "failed" => i = 0
      /\ UNCHANGED <<file, i, j, config>>
  BY DEF LoadFile, Loaded, IInv, FileThere
<1>2. TypeOK'
  BY <1>1 DEF IInv, TypeOK
<1>3. AllComplete' /\ Lengths' /\ BackendsAsRead'
  BY <1>1 DEF IInv, AllComplete, Lengths, BackendsAsRead, HasBackends
<1>4. TotalIsSum'
  BY <1>1 DEF IInv, TotalIsSum
<1> QED BY <1>1, <1>2, <1>3, <1>4 DEF IInv, FileThere, InBackends, CrashedHere, LoadedAll

LEMMA InvariantHolds == Spec => []IInv
<1>1. IInv /\ UNCHANGED vars => IInv'
  <2> SUFFICES ASSUME IInv, UNCHANGED vars PROVE IInv'
    OBVIOUS
  <2> QED BY DEF IInv, TypeOK, FileThere, InBackends, AllComplete, BackendsAsRead,
    HasBackends, CrashedHere, LoadedAll, Lengths, TotalIsSum, item, lc, BackendItem, vars
<1>2. IInv /\ [Next]_vars => IInv'
  BY <1>1, ControlStep, LoadStaticStep, LoadBalancerOfStep, LoadBackendStep,
    BackendsEndStep, CrashStep DEF Next
<1> QED BY <1>2, InitInv, PTL DEF Spec

-----------------------------------------------------------------------------
\* Spec => []TypeOK: the loops of load_config stay within the arrays, and the
\* listener at the back is the one of the entry being read.
THEOREM TypeCorrect == Spec => []TypeOK
<1>1. IInv => TypeOK
  BY DEF IInv
<1> QED BY <1>1, InvariantHolds, PTL

\* Spec => []BackendsReadByListener: of any file, a listener gets the backends
\* written for it only if they are all equal to the one at its own position.
THEOREM BackendsAlwaysReadByListener == Spec => []BackendsReadByListener
<1>1. IInv => BackendsReadByListener
  <2> SUFFICES ASSUME IInv, NEW k \in 1 .. i, k \in DOMAIN config, file[k].backends # Absent
               PROVE  LET written == Written(file[k], config[k].algorithm)
                      IN config[k].backends = written
                           <=> \A e \in Range(written) : k <= Len(written) /\ e = written[k]
    BY DEF BackendsReadByListener
  <2> DEFINE b == file[k].backends
             a == config[k].algorithm
             n == Len(b)
             read == Stored(Element(b, k - 1), a)
             written == Written(file[k], a)
  <2>1. /\ k \in Nat /\ k > 0 /\ k - 1 \in Nat
        /\ file \in Files /\ file # Absent /\ i \in Nat /\ k <= i /\ i <= Len(file)
    BY DEF IInv, TypeOK, FileThere
  <2>2. b \in Seq(BackendEntries)
    <3>1. Len(file) \in Nat /\ \A m \in 1 .. Len(file) : file[m] \in ListenerEntries
      BY <2>1, EntriesAre
    <3>2. file[k] \in ListenerEntries
      BY <2>1, <3>1
    <3> QED BY <3>2 DEF ListenerEntries
  <2>3. n \in Nat /\ DOMAIN b = 1 .. n /\ \A m \in 1 .. n : b[m] \in BackendEntries
    BY <2>2, LenProperties, ElementOfSeq
  <2>4. config[k].backends = [m \in 1 .. n |-> read]
    BY DEF IInv, BackendsAsRead, HasBackends
  <2>5. written = [m \in 1 .. n |-> Stored(b[m], a)]
    BY <2>3 DEF Written, Stored
  <2>6. Len(written) = n
    <3>1. written \in Seq({Stored(b[m], a) : m \in 1 .. n})
      BY <2>3, <2>5
    <3> QED BY <2>3, <2>5, <3>1, LenProperties
  <2>7. Range(written) = {written[m] : m \in 1 .. n}
    BY <2>5 DEF Range
  <2>8. n > 0 => k <= n /\ read = written[k]
    <3>1. n > 0 => Element(b, k - 1).host # Absent
      BY <2>1, EmptySeq DEF IInv, AllComplete, Complete
    <3>2. n > 0 => k - 1 < n /\ Element(b, k - 1) = b[k]
      BY <2>1, <2>2, <3>1, ElementIs
    <3> QED BY <2>1, <2>3, <2>5, <3>2
  <2> HIDE DEF read, written, n, b, a
  <2>9. config[k].backends = written <=> \A m \in 1 .. n : written[m] = read
    BY <2>4, <2>5
  <2>10. (\A m \in 1 .. n : written[m] = read)
           <=> \A e \in Range(written) : k <= Len(written) /\ e = written[k]
    <3>1. ASSUME \A m \in 1 .. n : written[m] = read, NEW e \in Range(written)
          PROVE  k <= Len(written) /\ e = written[k]
      <4>1. PICK m \in 1 .. n : e = written[m]
        BY <2>7
      <4>2. n > 0
        BY <2>3, <4>1
      <4> QED BY <2>6, <2>8, <3>1, <4>1, <4>2
    <3>2. ASSUME \A e \in Range(written) : k <= Len(written) /\ e = written[k],
                 NEW m \in 1 .. n
          PROVE  written[m] = read
      <4>1. written[m] \in Range(written) /\ n > 0
        BY <2>3, <2>7
      <4> QED BY <2>8, <3>2, <4>1
    <3> QED BY <3>1, <3>2
  <2> QED BY <2>9, <2>10 DEF written, a
<1> QED BY <1>1, InvariantHolds, PTL

\* Spec => []TotalIsSum: of any file, total_weight is the sum of the weights
\* that weighted round robin adds, none of which is 0.
THEOREM TotalAlwaysSum == Spec => []TotalIsSum
<1>1. IInv => TotalIsSum
  BY DEF IInv
<1> QED BY <1>1, InvariantHolds, PTL

\* Spec => []EndsOnlyAtFault: of any file, load_config comes back with all of it
\* if nothing is missing, and ends the process only at an entry to blame for it.
THEOREM AlwaysEndsOnlyAtFault == Spec => []EndsOnlyAtFault
<1>1. IInv => EndsOnlyAtFault
  <2> SUFFICES ASSUME IInv PROVE EndsOnlyAtFault
    OBVIOUS
  <2> DEFINE Faulty == {k \in DOMAIN file : Lacking(file[k])}
  <2>0. i \in Nat /\ file \in Files
    BY DEF IInv, TypeOK
  <2>1. ASSUME pc \in {"loaded", "crashed"}
        PROVE  /\ Len(file) \in Nat /\ DOMAIN file = 1 .. Len(file) /\ i <= Len(file)
               /\ \A k \in 1 .. i : k \in DOMAIN file => ~ Lacking(file[k])
    <3>1. file # Absent
      BY <2>1 DEF IInv, FileThere
    <3>2. /\ Len(file) \in Nat /\ DOMAIN file = 1 .. Len(file)
          /\ \A k \in 1 .. Len(file) : file[k] \in ListenerEntries
      BY <2>0, <3>1, EntriesAre, LenProperties
    <3>3. \A k \in 1 .. i : Complete(file[k], k - 1)
      BY DEF IInv, AllComplete
    <3> QED BY <3>1, <3>2, <3>3, CompleteLacksNothing DEF IInv, TypeOK
  <2>2. pc = "loaded" => Faulty = {} /\ Len(config) = Len(file)
    BY <2>0, <2>1 DEF IInv, LoadedAll, TypeOK
  <2>3. ASSUME pc = "crashed"
        PROVE  /\ \A k \in Faulty : i + 1 <= k
               /\ Fatal(item, i) /\ i + 1 \in DOMAIN file
    <3>1. i + 1 \in DOMAIN file
      BY <2>0, <2>1, <2>3 DEF IInv, CrashedHere
    <3> QED BY <2>0, <2>1, <2>3, <3>1 DEF IInv, CrashedHere
  <2>4. ASSUME pc = "crashed", Lacking(item) PROVE i + 1 \in Faulty
    BY <2>3, <2>4 DEF item
  <2> QED BY <2>2, <2>3, <2>4 DEF EndsOnlyAtFault, Fatal
<1> QED BY <1>1, InvariantHolds, PTL
=============================================================================
