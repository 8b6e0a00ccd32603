------------------------------ MODULE MCWorker ------------------------------
(* Instances of Worker for TLC.                                            *)
EXTENDS Worker, TLC

\* Heap addresses are interchangeable.
HandlerSymmetry == Permutations(Handlers)
=============================================================================
