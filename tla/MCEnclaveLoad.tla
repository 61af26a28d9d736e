--------------------------- MODULE MCEnclaveLoad ----------------------------
(***************************************************************************)
(* EnclaveLoad for TLC: every driver and provider, and an enclave of up to *)
(* three pages, so that mappings can be merged, split by a change of       *)
(* permissions or by a gap, and be mapped at the end.  Loads do not share  *)
(* state other than the cached token, which Init has in every state.       *)
(***************************************************************************)
EXTENDS EnclaveLoad
=============================================================================
