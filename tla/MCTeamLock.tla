----------------------------- MODULE MCTeamLock -----------------------------
(***************************************************************************)
(* TeamLock on three goroutines and two teams: one goroutine can hold, one *)
(* wait and one register or evict at the same time.  Structs has one       *)
(* identity per goroutine: every goroutine references at most one struct,  *)
(* so a fresh one is always left for an allocation.                        *)
(***************************************************************************)
EXTENDS TeamLock
=============================================================================
