-------------------------- MODULE MCThreadLifetime --------------------------
(* The programs for the run of ThreadLifetime. *)
EXTENDS ThreadLifetime
AllPrograms == {"wait", "ownership", "guard", "exception", "args", "hello"}
=============================================================================
