---------------------------- MODULE MCSPSCQueue ----------------------------
(***************************************************************************)
(* SPSCQueue for TLC.                                                      *)
(***************************************************************************)
EXTENDS SPSCQueue
=============================================================================
