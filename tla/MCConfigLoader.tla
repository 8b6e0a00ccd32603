--------------------------- MODULE MCConfigLoader ---------------------------
(* Instances of ConfigLoader for TLC.                                      *)
EXTENDS ConfigLoader

Item == [server_name |-> "fits", ssl |-> FALSE, key |-> "missing", cert |-> "missing",
         root |-> FALSE, backends |-> Absent, load_balancing |-> Absent]

Backend(h, w) == [host |-> h, weight |-> w]
SomeBackends ==
  {<<>>, <<Backend("a", Absent)>>, <<Backend("a", 2), Backend("b", 0)>>,
   <<Backend("b", 3), Backend("b", 3)>>,
   <<Backend("a", 1), Backend(Absent, 1)>>,
   <<Backend("a", 1), Backend("b", 2), Backend("a", 1)>>}

SomeItems ==
  {[Item EXCEPT !.root = TRUE], Item, [Item EXCEPT !.server_name = "missing"],
   [Item EXCEPT !.server_name = "long", !.root = TRUE],
   [Item EXCEPT !.ssl = TRUE, !.key = "fits", !.cert = "fits", !.root = TRUE],
   [Item EXCEPT !.ssl = TRUE, !.key = "fits", !.root = TRUE],
   [Item EXCEPT !.ssl = TRUE, !.key = "long", !.root = TRUE],
   [Item EXCEPT !.backends = <<Backend("a", 1)>>]}
  \cup
  {[Item EXCEPT !.backends = b, !.load_balancing = n] :
     b \in SomeBackends, n \in Names \cup {"unknown"}}

\* Files of up to two listeners, an empty one, and one that cannot be loaded.
SomeFiles ==
  {Absent, <<>>} \cup {<<x>> : x \in SomeItems}
    \cup {<<x, y>> : x \in SomeItems, y \in SomeItems}
=============================================================================
