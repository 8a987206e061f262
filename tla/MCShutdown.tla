---------------------------- MODULE MCShutdown ----------------------------
(***************************************************************************)
(* Finite instances of Shutdown for TLC.                                   *)
(***************************************************************************)
EXTENDS Shutdown

CONSTANTS c1, c2, c3
=============================================================================
