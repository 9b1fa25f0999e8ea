----------------------------- MODULE MCInstances -----------------------------
(***************************************************************************)
(* Instances for TLC.                                                      *)
(*                                                                         *)
(* MCInstancesQuota: one team, two challenges, a quota of one, two         *)
(* requests: the quota, the expiry/extend and the sweep/deploy races.  One *)
(* of the challenges has a HEALTHCHECK.                                    *)
(* MCInstancesPorts: two teams allocating from two ports, with fairness:   *)
(* the port race, and that every row is reclaimed.                         *)
(* ReapAfter, TTL, Extension and MaxTTL are the smallest number of ticks   *)
(* that keep the code's order: a deploy is shorter than each of them.      *)
(***************************************************************************)
EXTENDS Instances, TLC

Symmetry == Permutations(Reqs)
=============================================================================
