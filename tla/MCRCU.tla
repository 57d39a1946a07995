------------------------------- MODULE MCRCU -------------------------------
(***************************************************************************)
(* RCU for TLC, with the arguments of the threads of main.cc.              *)
(***************************************************************************)
EXTENDS RCU

MainArguments == {<<1, 0>>, <<0, 2>>}
ThreadSymmetry == Permutations(Thread)
=============================================================================
