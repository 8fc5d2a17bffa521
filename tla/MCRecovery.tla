----------------------------- MODULE MCRecovery -----------------------------
(* A mortal and a wizard and a kind of weapon, of which one or two exist.  *)
EXTENDS Recovery
=============================================================================
