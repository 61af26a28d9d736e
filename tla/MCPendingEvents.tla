-------------------------- MODULE MCPendingEvents ---------------------------
(***************************************************************************)
(* Instances of PendingEvents for TLC: two threads and two event bits, so  *)
(* three event sets, one of which overlaps both others.                    *)
(***************************************************************************)
EXTENDS PendingEvents
=============================================================================
