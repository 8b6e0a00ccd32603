------------------------------ MODULE MCRelay -------------------------------
(* Instances of Relay for TLC.                                             *)
EXTENDS Relay

\* Lengths of content, by the number of the message.
OneUnit   == [n \in Requests |-> 1]
OnlyFirst == [n \in Requests |-> IF n = 1 THEN 2 ELSE 0]
=============================================================================
