----------------------------- MODULE MCHashMap -----------------------------
(***************************************************************************)
(* HashMap for TLC: 1 and 3 share a bucket.                                *)
(***************************************************************************)
EXTENDS HashMap

(* The drivers: main.cc and testcase2.cc start with an empty map,          *)
(* testcase1.cc puts both keys first.                                      *)
MCBefore == {<<>>, <<1, 2>>}

Symmetry == Permutations(Thread)
=============================================================================
