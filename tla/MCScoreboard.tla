---------------------------- MODULE MCScoreboard ----------------------------
(***************************************************************************)
(* Scoreboard for TLC.                                                     *)
(*                                                                         *)
(* MCScoreboard: two tasks in the service at a time, with one organiser's  *)
(* change and one fault anywhere.                                          *)
(* MCScoreboardHide: a challenge is hidden while a recompute is in flight. *)
(***************************************************************************)
EXTENDS Scoreboard, TLC

Symmetry == Permutations(Tasks) \cup Permutations(Chals)
=============================================================================
