---------------------------- MODULE MCMPMCQueue ----------------------------
(***************************************************************************)
(* MPMCQueue for TLC.                                                      *)
(***************************************************************************)
EXTENDS MPMCQueue
=============================================================================
