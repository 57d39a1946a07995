----------------------------- MODULE MCMSQueue -----------------------------
(***************************************************************************)
(* MSQueue for TLC.                                                        *)
(***************************************************************************)
EXTENDS MSQueue

ThreadSymmetry == Permutations(Thread)
=============================================================================
