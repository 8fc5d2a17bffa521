---------------------------- MODULE MCShutdown ----------------------------
(***************************************************************************)
(* One arch and one other wizard, and a delay for each interval between    *)
(* announcements.                                                          *)
(***************************************************************************)
EXTENDS Shutdown

CONSTANTS arch, wiz

MCRequesters == {arch, wiz}
MCArches == {arch}
MCDelays == {0, 1, 9, 10, 24, 25, 89, 90, 1079, 1080, 1441}
=============================================================================
