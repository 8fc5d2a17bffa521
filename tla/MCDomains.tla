----------------------------- MODULE MCDomains -----------------------------
(***************************************************************************)
(* Ranks for small instances: pilgrims and the retired are left out of the *)
(* promotions (one still retires by oneself).                              *)
(***************************************************************************)
EXTENDS Domains

MCTitles == {MORTAL, APPRENTICE, NORMAL, MAGE, STEWARD, LORD, ARCH}
=============================================================================
