----------------------------- MODULE AesmClient -----------------------------
(***************************************************************************)
(* The client of the AESM daemon (aesm-client): launch tokens, quotes and  *)
(* attestation keys.  A call is one or two requests, each on a connection  *)
(* of its own (transact); a request waits for its answer as long as its    *)
(* timeout says, or for ever if it sets none.  On Windows a call is one    *)
(* call of a library.                                                      *)
(*                                                                         *)
(* The daemon is external: it may refuse the connection, close it, answer  *)
(* anything, or not answer at all.                                         *)
(***************************************************************************)
EXTENDS Integers, Sequences

VARIABLES
    windows,    \* which implementation was compiled
    op,         \* the call in progress, or "none"
    reqs,       \* the requests that it still has to make
    sent,       \* whether the first of them is waiting for its answer
    outcome     \* how the last call ended

aesmVars == <<windows, op, reqs, sent, outcome>>

\* A request, and whether set_timeout was called on it.
Request(msg) == [msg |-> msg, timed |-> TRUE]
Untimed(msg) == [msg |-> msg, timed |-> FALSE]

\* Mutant: the request for a launch token is made without a timeout.
RequestsUntimed(o) ==
    IF o = "get_launch_token" THEN <<Untimed("GetLaunchToken")>> ELSE <<Request("InitQuote")>>
\* The requests that each call makes.
Requests(o) ==
    CASE o = "init_quote" -> <<Request("InitQuote")>>
      [] o = "get_quote" -> <<Request("GetQuote")>>
      [] o = "get_launch_token" -> <<Request("GetLaunchToken")>>
      [] o = "get_supported_att_key_ids" ->
            <<Request("GetSupportedAttKeyIDNum"), Request("GetSupportedAttKeyIDs")>>
      [] o = "init_quote_ex" -> <<Request("InitQuoteEx"), Untimed("InitQuoteEx")>>
      [] o = "get_quote_ex" -> <<Request("GetQuoteSizeEx"), Request("GetQuoteEx")>>

WindowsOps == {"init_quote", "get_quote", "get_launch_token"}
Ops == WindowsOps \union {"get_supported_att_key_ids", "init_quote_ex", "get_quote_ex"}

AesmInit ==
    /\ windows \in BOOLEAN
    /\ op = "none"
    /\ reqs = <<>>
    /\ sent = FALSE
    /\ outcome = "none"

\* A call of one of the methods of AesmClient.
Call(o) ==
    /\ op = "none"
    /\ windows => o \in WindowsOps
    /\ op' = o
    /\ reqs' = Requests(o)
    /\ sent' = FALSE
    /\ outcome' = "none"
    /\ UNCHANGED windows

End(res) ==
    /\ op' = "none"
    /\ reqs' = <<>>
    /\ sent' = FALSE
    /\ outcome' = res
    /\ UNCHANGED windows

\* open_socket and write_all, with timeouts of their own.
Send ==
    /\ op # "none" /\ ~windows /\ ~sent
    /\ \/ End("AesmCommunication")
       \/ sent' = TRUE /\ UNCHANGED <<windows, op, reqs, outcome>>

\* The read timeout of a request that has one.
Timeout ==
    /\ sent
    /\ Head(reqs).timed
    /\ End("AesmCommunication")

(***************************************************************************)
(* What the caller of transact makes of an answer without error whose      *)
(* variable part has the length that was asked for ("fits"), or is too     *)
(* short or too long.  The first of two requests asks for that length.     *)
(***************************************************************************)
Accept(len) ==
    CASE op = "get_quote" ->        \* the signature length at 432 is sliced out
            (CASE len = "short" -> "panicked"
               [] len = "long" -> "InvalidQuoteSize"
               [] OTHER -> "ok")
      [] op = "get_quote_ex" -> IF len = "short" THEN "panicked" ELSE "ok"
      [] op = "get_supported_att_key_ids" -> IF len = "fits" THEN "ok" ELSE "AesmBadResponse"
      [] op = "get_launch_token" -> IF len = "fits" THEN "ok" ELSE "InvalidTokenSize"
      [] op \in {"init_quote", "init_quote_ex"} -> "ok"

\* transact reads an answer: the daemon closed the connection, answered
\* something else or without a needed field, with an error code, or properly.
Receive(answer, len) ==
    /\ sent
    /\ CASE answer = "closed" -> End("AesmCommunication")
         [] answer = "other" -> End("AesmBadResponse")
         [] answer = "code" -> End("AesmCode")
         [] answer = "ok" ->
              IF Len(reqs) = 1 THEN End(Accept(len))
              ELSE /\ reqs' = Tail(reqs)
                   /\ sent' = FALSE
                   /\ UNCHANGED <<windows, op, outcome>>

\* The call of a function of sgx_uae_service.dll.
LibraryCall(answer) ==
    /\ windows /\ op # "none"
    /\ End(IF answer = "ok" THEN "ok" ELSE "AesmCode")

Answers == {"closed", "other", "code", "ok"}

AesmStep ==
    \/ Send \/ Timeout
    \/ \E answer \in {"code", "ok"} : LibraryCall(answer)
    \/ \E answer \in Answers, len \in {"short", "fits", "long"} : Receive(answer, len)
=============================================================================
