---------------------------- MODULE MCVmeRunner -----------------------------
(***************************************************************************)
(* VmeRunner for TLC: two requests at a time, so that an accept can hold   *)
(* the listener that the other one closes, replaces or asks about; one     *)
(* key, which is reused by every connection, and a block of data each way. *)
(***************************************************************************)
EXTENDS VmeRunner
=============================================================================
