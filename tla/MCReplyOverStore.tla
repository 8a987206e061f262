------------------------- MODULE MCReplyOverStore -------------------------
(***************************************************************************)
(* The instances of MCReplyPublication, on top of AtomicStore.             *)
(***************************************************************************)
EXTENDS MCReplyPublication, ReplyOverStore
=============================================================================
