-------------------------- MODULE MCAsyncUsercalls --------------------------
(***************************************************************************)
(* AsyncUsercalls for TLC: two threads, so that both can wait for the same *)
(* slot, and three usercalls against rings of one slot, so that both rings *)
(* fill up and two senders wait for the return queue at once.              *)
(***************************************************************************)
EXTENDS AsyncUsercalls
=============================================================================
