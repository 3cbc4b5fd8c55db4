------------------------- MODULE ConnectionService -------------------------
(***************************************************************************)
(* What the socket library promises about a connection, whatever processes *)
(* and descriptors it uses to keep the promise: connections are taken in   *)
(* the order they arrived, an answer is given only while the connection is *)
(* open and at most once, and a connection that ended never comes back.    *)
(* AcceptLoop is shown to implement this specification.                    *)
(***************************************************************************)
EXTENDS Sequences

CONSTANT Conns

VARIABLES
  waiting,   \* arrived connections not taken yet, oldest first
  status     \* how far each connection has come

vars == <<waiting, status>>

Statuses == {"idle", "waiting", "open", "answered", "done", "dropped"}

Init ==
  /\ waiting = <<>>
  /\ status = [c \in Conns |-> "idle"]

Arrive(c) ==
  /\ status[c] = "idle"
  /\ status' = [status EXCEPT ![c] = "waiting"]
  /\ waiting' = Append(waiting, c)

Take ==
  /\ waiting # <<>>
  /\ status' = [status EXCEPT ![Head(waiting)] = "open"]
  /\ waiting' = Tail(waiting)

Answer(c) ==
  /\ status[c] = "open"
  /\ status' = [status EXCEPT ![c] = "answered"]
  /\ UNCHANGED waiting

\* The end of a connection tells whether it was answered.
Finish(c) ==
  /\ \/ /\ status[c] = "open"
        /\ status' = [status EXCEPT ![c] = "dropped"]
     \/ /\ status[c] = "answered"
        /\ status' = [status EXCEPT ![c] = "done"]
  /\ UNCHANGED waiting

\* The service stops taking connections: all that wait end unanswered.
Abandon ==
  /\ status' = [c \in Conns |->
                  IF status[c] = "waiting" THEN "dropped" ELSE status[c]]
  /\ waiting' = <<>>

Next ==
  \/ \E c \in Conns : Arrive(c) \/ Answer(c) \/ Finish(c)
  \/ Take
  \/ Abandon

Spec == Init /\ [][Next]_vars
=============================================================================
