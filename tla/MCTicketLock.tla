---------------------------- MODULE MCTicketLock ----------------------------
(***************************************************************************)
(* TicketLock for TLC.                                                     *)
(***************************************************************************)
EXTENDS TicketLock
=============================================================================
