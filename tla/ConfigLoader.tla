---------------------------- MODULE ConfigLoader ----------------------------
(***************************************************************************)
(* load_config (src/src/config_loader.cpp): the JSON file, read into a     *)
(* ProxyConfig listener by listener and backend by backend.  A value that  *)
(* is missing where the code needs a string ends the process (strcpy,      *)
(* std::string or inet_pton of a null pointer).  A string longer than the  *)
(* array of 256 bytes that it is copied to writes over what follows it in  *)
(* the listener: from there on nothing is defined.                         *)
(*                                                                         *)
(* An entry of listen_ports is a record: which strings are there, and what *)
(* "backends" and "load_balancing" hold.  Positions count from 0, as they  *)
(* do in the code.                                                         *)
(***************************************************************************)
EXTENDS Integers, Sequences, SequencesExt

CONSTANTS
  Files,   \* bound: the files there may be
  Hosts,   \* bound: the addresses of backends in them
  Absent   \* what json_object_get finds of a key that is not there

BackendEntries == [host : Hosts \cup {Absent}, weight : {Absent} \cup Nat]
Strings == {"missing", "fits", "long"}
ListenerEntries ==
  [server_name : Strings, ssl : BOOLEAN, key : Strings, cert : Strings, root : BOOLEAN,
   backends : {Absent} \cup Seq(BackendEntries), load_balancing : STRING \cup {Absent}]

ASSUME FilesAssumption ==
  \A f \in Files : f = Absent \/ f \in Seq(ListenerEntries)

Algorithms == {"RoundRobin", "WeightedRoundRobin", "LeastConnections"}
Names == {"round_robin", "weighted_round_robin", "least_connections"}
\* What is in LoadBalancerConfig.algorithm when nothing has been stored there.
Garbage == Algorithms \cup {"none of them"}

\* json_array_get, and json_object_get of what it returns.
Element(array, k) ==
  IF k < Len(array) THEN array[k + 1] ELSE [host |-> Absent, weight |-> Absent]

VARIABLES
  file,     \* its listen_ports, or Absent if it cannot be loaded
  pc,       \* "file", "listener", "backend"; "loaded", "failed", "crashed" or "undefined"
  i, j,     \* the loops' counters
  config    \* listeners, so far

vars == <<file, pc, i, j, config>>

Init ==
  /\ file \in Files
  /\ pc = "file"
  /\ i = 0
  /\ j = 0
  /\ config = <<>>

item == file[i + 1]
lc == config[Len(config)]

LoadFile ==
  /\ pc = "file"
  /\ pc' = IF file = Absent THEN "failed" ELSE "listener"
  /\ UNCHANGED <<file, i, j, config>>

Crash ==
  /\ pc' = "crashed"
  /\ UNCHANGED <<file, i, j, config>>

\* The strings that are copied to arrays, before the backends are looked at.
Copied(it) ==
  IF it.ssl THEN <<it.server_name, it.key, it.cert>> ELSE <<it.server_name>>

HasStrings(it) == \A n \in DOMAIN Copied(it) : Copied(it)[n] = "fits"

\* The first that does not fit is of this kind.
Meets(it, kind) ==
  \E n \in DOMAIN Copied(it) :
    /\ Copied(it)[n] = kind
    /\ \A m \in 1 .. n - 1 : Copied(it)[m] = "fits"

Static(it) ==
  [server_name |-> it.server_name, is_ssl |-> it.ssl, backend_type |-> "STATIC",
   algorithm |-> Absent, backends |-> <<>>, total_weight |-> 0]

Balancer(it, algorithm) ==
  [Static(it) EXCEPT !.backend_type = "LOAD_BALANCER", !.algorithm = algorithm]

AlgorithmsOf(name) ==
  CASE name = "weighted_round_robin" -> {"WeightedRoundRobin"}
    [] name = "round_robin" -> {"RoundRobin"}
    [] name = "least_connections" -> {"LeastConnections"}
    [] OTHER -> Garbage

LoadStatic ==
  /\ pc = "listener"
  /\ i < Len(file)
  /\ HasStrings(item)
  /\ item.backends = Absent
  /\ item.root
  /\ config' = Append(config, Static(item))
  /\ i' = i + 1
  /\ UNCHANGED <<file, pc, j>>

\* Mutant: j goes on from the listener before.
LoadBalancerOfKeepsJ ==
  /\ pc = "listener"
  /\ i < Len(file)
  /\ HasStrings(item)
  /\ item.backends # Absent
  /\ item.load_balancing # Absent
  /\ \E a \in AlgorithmsOf(item.load_balancing) :
       config' = Append(config, Balancer(item, a))
  /\ pc' = "backend"
  /\ UNCHANGED <<file, i, j>>

LoadBalancerOf ==
  /\ pc = "listener"
  /\ i < Len(file)
  /\ HasStrings(item)
  /\ item.backends # Absent
  /\ item.load_balancing # Absent
  /\ \E a \in AlgorithmsOf(item.load_balancing) :
       config' = Append(config, Balancer(item, a))
  /\ j' = 0
  /\ pc' = "backend"
  /\ UNCHANGED <<file, i>>

ListenerCrashes ==
  /\ pc = "listener"
  /\ i < Len(file)
  /\ \/ Meets(item, "missing")
     \/ /\ HasStrings(item)
        /\ IF item.backends = Absent THEN ~ item.root ELSE item.load_balancing = Absent
  /\ Crash

StringOverflows ==
  /\ pc = "listener"
  /\ i < Len(file)
  /\ Meets(item, "long")
  /\ pc' = "undefined"
  /\ UNCHANGED <<file, i, j, config>>

\* Mutant: the weight that is summed is the one of the file, before 0 becomes 1.
CountedAsWritten(listener, element) ==
  LET written == IF element.weight = Absent THEN 0 ELSE element.weight
      weighted == listener.algorithm = "WeightedRoundRobin"
      weight == IF weighted /\ written = 0 THEN 1 ELSE written
  IN [listener EXCEPT
        !.backends = Append(@, [host |-> element.host, weight |-> weight]),
        !.total_weight = IF weighted THEN @ + written ELSE @]

\* The listener with one more backend.
WithBackend(listener, element) ==
  LET written == IF element.weight = Absent THEN 0 ELSE element.weight
      weighted == listener.algorithm = "WeightedRoundRobin"
      weight == IF weighted /\ written = 0 THEN 1 ELSE written
  IN [listener EXCEPT
        !.backends = Append(@, [host |-> element.host, weight |-> weight]),
        !.total_weight = IF weighted THEN @ + weight ELSE @]

\* Mutant: positions are counted from 1.
NextElement == Element(item.backends, i + 1)

\* The element that is read for the j-th backend.
BackendItem == Element(item.backends, i)

LoadBackend ==
  /\ pc = "backend"
  /\ j < Len(item.backends)
  /\ BackendItem.host # Absent
  /\ config' = [config EXCEPT ![Len(config)] = WithBackend(lc, BackendItem)]
  /\ j' = j + 1
  /\ UNCHANGED <<file, pc, i>>

BackendCrashes ==
  /\ pc = "backend"
  /\ j < Len(item.backends)
  /\ BackendItem.host = Absent
  /\ Crash

\* Mutant: the loop stops one backend early.
BackendsEndEarly ==
  /\ pc = "backend"
  /\ j + 1 >= Len(item.backends)
  /\ pc' = "listener"
  /\ i' = i + 1
  /\ UNCHANGED <<file, j, config>>

BackendsEnd ==
  /\ pc = "backend"
  /\ j = Len(item.backends)
  /\ pc' = "listener"
  /\ i' = i + 1
  /\ UNCHANGED <<file, j, config>>

Loaded ==
  /\ pc = "listener"
  /\ i = Len(file)
  /\ pc' = "loaded"
  /\ UNCHANGED <<file, i, j, config>>

Next ==
  \/ LoadFile \/ LoadStatic \/ LoadBalancerOf \/ ListenerCrashes \/ StringOverflows
  \/ LoadBackend \/ BackendCrashes \/ BackendsEnd \/ Loaded

Spec == Init /\ [][Next]_vars
-----------------------------------------------------------------------------
ListenerConfig ==
  [server_name : Strings, is_ssl : BOOLEAN, backend_type : {"STATIC", "LOAD_BALANCER"},
   algorithm : Garbage \cup {Absent}, total_weight : Nat,
   backends : Seq([host : Hosts, weight : Nat])]

\* Every variable has its type; the counters stay within their arrays.
TypeOK ==
  /\ file \in Files
  /\ config \in Seq(ListenerConfig)
  /\ pc \in {"file", "listener", "backend", "loaded", "failed", "crashed", "undefined"}
  /\ i \in Nat /\ j \in Nat
  /\ file # Absent => i <= Len(file)
  /\ pc = "backend" => j <= Len(item.backends) /\ Len(lc.backends) = j
  /\ Len(config) = i + (IF pc = "backend" THEN 1 ELSE 0)
     \/ pc = "crashed"

\* The reference reading of one entry: what the file says of its backends.
Written(it, algorithm) ==
  [k \in DOMAIN it.backends |->
     LET w == IF it.backends[k].weight = Absent THEN 0 ELSE it.backends[k].weight
     IN [host |-> it.backends[k].host,
         weight |-> IF w = 0 /\ algorithm = "WeightedRoundRobin" THEN 1 ELSE w]]

\* A listener that has been loaded has the backends that the file gives it in
\* exactly one case: all of them are the same as the one at the listener's own
\* position, which is the one that the code reads for each (line 61).
BackendsReadByListener ==
  \A k \in 1 .. i :
    k \in DOMAIN config /\ file[k].backends # Absent =>
      LET written == Written(file[k], config[k].algorithm)
      IN config[k].backends = written
           <=> \A e \in Range(written) : k <= Len(written) /\ e = written[k]

WeightSum(backends) ==
  LET weight == [m \in DOMAIN backends |-> backends[m].weight]
  IN SumFunctionOnSet(weight, DOMAIN backends)

Totalled(l) ==
  IF l.algorithm = "WeightedRoundRobin"
  THEN /\ l.total_weight = WeightSum(l.backends)
       /\ \A m \in DOMAIN l.backends : l.backends[m].weight > 0
  ELSE l.total_weight = 0

\* total_weight is the sum of the weights that get_next_backend adds in a round,
\* and each of them is positive, when that algorithm is chosen; 0 otherwise.
TotalIsSum == \A k \in DOMAIN config : Totalled(config[k])

\* A string is missing that the entry itself must hold.
Lacking(it) ==
  \/ it.server_name = "missing"
  \/ it.ssl /\ "missing" \in {it.key, it.cert}
  \/ IF it.backends = Absent THEN ~ it.root ELSE it.load_balancing = Absent

\* load_config comes back with every listener of the file and none that lacks a
\* string; it ends the process no later than at the first that does, and only
\* there, at a backend without a host, or at a listener that has no more backends
\* than there are listeners before it (line 61 reads the element at i).
EndsOnlyAtFault ==
  LET Faulty == {k \in DOMAIN file : Lacking(file[k])}
  IN /\ pc = "loaded" => Faulty = {} /\ Len(config) = Len(file)
     /\ pc = "crashed" =>
          /\ \A k \in Faulty : i + 1 <= k
          /\ \/ i + 1 \in Faulty
             \/ /\ item.backends # Absent
                /\ \/ Len(item.backends) <= i
                   \/ \E m \in DOMAIN item.backends : item.backends[m].host = Absent
=============================================================================
