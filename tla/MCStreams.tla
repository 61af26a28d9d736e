----------------------------- MODULE MCStreams ------------------------------
(***************************************************************************)
(* An instance of Streams for TLC: two usercalls, which wait for the same  *)
(* stream or listener, close it under each other or make others at once,   *)
(* and two arrivals, so that one of them can be left for the second.       *)
(***************************************************************************)
EXTENDS Streams
=============================================================================
