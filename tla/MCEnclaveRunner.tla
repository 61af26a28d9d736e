-------------------------- MODULE MCEnclaveRunner ---------------------------
(***************************************************************************)
(* EnclaveRunner for TLC: an executable with a main thread and two more    *)
(* TCSs, one that forwards panics, and libraries with two TCSs and with    *)
(* one, which two calls compete for.                                       *)
(***************************************************************************)
EXTENDS EnclaveRunner

CONSTANTS T1, T2    \* TCSs that are not the first

MCEnclaves ==
    {[kind |-> "Command", tcss |-> {Main, T1, T2}, forward_panics |-> FALSE, contended |-> FALSE],
     [kind |-> "Command", tcss |-> {Main, T1}, forward_panics |-> TRUE, contended |-> TRUE],
     [kind |-> "Library", tcss |-> {Main, T1}, forward_panics |-> FALSE, contended |-> TRUE],
     [kind |-> "Library", tcss |-> {Main}, forward_panics |-> FALSE, contended |-> FALSE]}
=============================================================================
