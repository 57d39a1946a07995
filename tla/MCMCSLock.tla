----------------------------- MODULE MCMCSLock -----------------------------
(***************************************************************************)
(* MCSLock for TLC.                                                        *)
(***************************************************************************)
EXTENDS MCSLock

ThreadSymmetry == Permutations(Thread)
=============================================================================
