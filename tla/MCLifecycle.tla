---------------------------- MODULE MCLifecycle -----------------------------
(* Instances of Lifecycle for TLC: what the configuration of each          *)
(* generation says.                                                        *)
EXTENDS Lifecycle

OneListener == [g \in Generations |-> 1]
TwoThenOne == [g \in Generations |-> IF g = 1 THEN 2 ELSE 1]
OneName == [l \in Listeners |-> "site"]
OneWorker == [l \in Listeners |-> 1]
OneWorkerOnce == [l \in Listeners |-> IF l = <<1, 1>> THEN 1 ELSE 0]
AllBalanced == [l \in Listeners |-> TRUE]
FirstBalanced == [l \in Listeners |-> l[2] = 1]
CheckAlways == [l \in Listeners |-> TRUE]
CheckFirst == [l \in Listeners |-> l = <<1, 1>>]
=============================================================================
