--------------------------- MODULE MCSgxsRoundTrip --------------------------
(***************************************************************************)
(* An instance of SgxsRoundTrip for TLC: two places for pages of two       *)
(* chunks.                                                                 *)
(***************************************************************************)
EXTENDS SgxsRoundTrip
=============================================================================
