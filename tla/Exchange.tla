------------------------------ MODULE Exchange ------------------------------
(***************************************************************************)
(* What a session promises the client: every response it gets answers a    *)
(* request that it has sent whole before, no request is answered twice,    *)
(* and where the session keeps the order, the answers come in the order of *)
(* the requests.  That every request is answered is not promised here.     *)
(***************************************************************************)
EXTENDS Naturals, Sequences, SequencesExt

CONSTANTS
  Requests,   \* numbers of the requests a client may send
  InOrder     \* the answers come in the order of the requests

VARIABLES
  asked,      \* numbers of the requests the client has sent whole
  answers     \* numbers of the requests whose answer it has got whole

vars == <<asked, answers>>

Init == asked = {} /\ answers = <<>>

Ask ==
  /\ \E n \in Requests : asked' = asked \cup {n}
  /\ UNCHANGED answers

Answer ==
  /\ \E n \in asked \ ToSet(answers) :
       /\ InOrder => n = Len(answers) + 1
       /\ answers' = Append(answers, n)
  /\ UNCHANGED asked

Next == Ask \/ Answer

Spec == Init /\ [][Next]_vars
=============================================================================
