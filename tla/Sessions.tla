------------------------------ MODULE Sessions ------------------------------
(***************************************************************************)
(* What a worker process promises about its proxied connections: a session *)
(* owns the client's descriptor and, when a backend was reached, the       *)
(* backend's; no descriptor serves two sessions; sessions are opened and   *)
(* torn down one at a time, always with both ends; the process exits when  *)
(* none is left, and only its violent death ends several at once.          *)
(***************************************************************************)

CONSTANTS
  Fd,       \* file descriptors a session can be given
  None      \* the backend of a session that reached none

VARIABLES
  sessions,
  process   \* "up", "exited" or "killed"

vars == <<sessions, process>>

Session == [client : Fd, backend : Fd \cup {None}]

\* The descriptors a session holds.
FdsOf(s) == {s.client, s.backend} \ {None}

Init == sessions = {} /\ process = "up"

Open(s) ==
  /\ process = "up"
  /\ \A t \in sessions : FdsOf(s) \cap FdsOf(t) = {}
  /\ s.client # s.backend
  /\ sessions' = sessions \cup {s}
  /\ UNCHANGED process

Close(s) ==
  /\ process = "up"
  /\ s \in sessions
  /\ sessions' = sessions \ {s}
  /\ UNCHANGED process

Exit ==
  /\ process = "up"
  /\ sessions = {}
  /\ process' = "exited"
  /\ UNCHANGED sessions

Kill ==
  /\ process = "up"
  /\ process' = "killed"
  /\ sessions' = {}

Next ==
  \/ \E s \in Session : Open(s) \/ Close(s)
  \/ Exit
  \/ Kill

Spec == Init /\ [][Next]_vars
=============================================================================
