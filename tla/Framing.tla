------------------------------ MODULE Framing -------------------------------
(***************************************************************************)
(* What the parser of one direction promises, whatever the pieces in which *)
(* the stream arrives: each message is handed over whole, once, in order,  *)
(* and not before it has arrived.                                          *)
(***************************************************************************)
EXTENDS Naturals, Sequences

VARIABLES
  sent,      \* the messages of the stream
  arrived,   \* how many of them have arrived completely
  handed     \* those handed over

vars == <<sent, arrived, handed>>

Init == arrived = 0 /\ handed = <<>>

Arrive ==
  /\ arrived' \in arrived + 1 .. Len(sent)
  /\ UNCHANGED <<sent, handed>>

HandOver ==
  /\ Len(handed) < arrived
  /\ handed' = Append(handed, sent[Len(handed) + 1])
  /\ UNCHANGED <<sent, arrived>>

Next == Arrive \/ HandOver

Spec == Init /\ [][Next]_vars
=============================================================================
