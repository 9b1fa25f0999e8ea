--------------------------- MODULE MCInstanceFleet ---------------------------
(***************************************************************************)
(* InstanceFleet for TLC: one team, one challenge, one request at a time,  *)
(* an organiser's destroy, one fault (a crash, a daemon error or a         *)
(* container that changes by itself) and enough ticks for the grace to     *)
(* pass after the last request.                                            *)
(***************************************************************************)
EXTENDS InstanceFleet, TLC
=============================================================================
