-------------------------- MODULE MCHttpBoundary --------------------------
(***************************************************************************)
(* A finite instance of HttpBoundary for TLC: a native provider, a gateway *)
(* that cannot publish and a platform without a gateway.                   *)
(***************************************************************************)
EXTENDS HttpBoundary, MCReplyPublication
=============================================================================
