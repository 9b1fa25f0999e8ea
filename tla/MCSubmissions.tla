---------------------------- MODULE MCSubmissions ----------------------------
(***************************************************************************)
(* Submissions for TLC.                                                    *)
(*                                                                         *)
(* MCSubmissions: two requests for one challenge, an edit or delete and a  *)
(* fault anywhere between their steps.                                     *)
(* MCSubmissionsRepair: the repair worker, with a plugin that recovers.    *)
(***************************************************************************)
EXTENDS Submissions, TLC

Symmetry == Permutations(Reqs) \cup Permutations(Teams) \cup Permutations(Guesses)
=============================================================================
