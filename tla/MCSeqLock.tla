----------------------------- MODULE MCSeqLock -----------------------------
(***************************************************************************)
(* SeqLock for TLC.                                                        *)
(***************************************************************************)
EXTENDS SeqLock

ThreadSymmetry == Permutations(Thread)
=============================================================================
