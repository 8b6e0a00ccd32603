--------------------------- MODULE MCLoadBalancer ---------------------------
(* Instances of LoadBalancer for TLC.                                      *)
EXTENDS LoadBalancer, TLC

WorkerSymmetry == Permutations(Workers)

\* Weights of the backends, by index.
Equal     == [b \in Backends |-> 1]
Ascending == [b \in Backends |-> b + 1]

\* Picks with health checks, and without.
TwoOrSix == [checks \in BOOLEAN |-> IF checks THEN 2 ELSE 6]
Four       == [checks \in BOOLEAN |-> 4]
=============================================================================
