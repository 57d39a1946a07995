--------------------------- MODULE MCLinuxRWLock ---------------------------
(***************************************************************************)
(* LinuxRWLock for TLC.                                                    *)
(***************************************************************************)
EXTENDS LinuxRWLock

ThreadSymmetry == Permutations(Thread)
=============================================================================
