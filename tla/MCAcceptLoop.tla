---------------------------- MODULE MCAcceptLoop ----------------------------
(* Model values for the runs of AcceptLoop. *)
EXTENDS AcceptLoop

AnyOutcome == {"message", "empty", "throws"}
OnlyMessage == {"message"}
=============================================================================
