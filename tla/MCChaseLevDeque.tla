-------------------------- MODULE MCChaseLevDeque --------------------------
(***************************************************************************)
(* ChaseLevDeque for TLC.                                                  *)
(***************************************************************************)
EXTENDS ChaseLevDeque

ThiefSymmetry == Permutations(Thief)
=============================================================================
