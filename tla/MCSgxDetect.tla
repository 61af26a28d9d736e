---------------------------- MODULE MCSgxDetect -----------------------------
(***************************************************************************)
(* SgxDetect for TLC: a good processor with all combinations of launch     *)
(* control, AESM and loaders; processors with one thing wrong at a time; a *)
(* file of the tests as input; and the daemons of DataShield.              *)
(***************************************************************************)
EXTENDS SgxDetect

\* A system on which everything works.
Good == [cpuid7 |-> "lc", cpuid12 |-> "ok", attr |-> "ok", epc |-> "ok", msr |-> "lc",
         aesm |-> "ok", dev |-> "ok", enc |-> "ok", env |-> "Generic",
         graphene |-> "ok", perm |-> "ok", agent |-> "ok"]

Processors ==
    {[Good EXCEPT !.cpuid7 = c] : c \in {"err", "none", "sgx", "lc"}}
    \union {[Good EXCEPT !.cpuid12 = c] : c \in {"err", "no_sgx1", "small"}}
    \union {[Good EXCEPT !.attr = "bad"]}
    \union {[Good EXCEPT !.epc = c] : c \in {"none", "unknown"}}

MCSupports ==
    {[Good EXCEPT !.cpuid7 = c, !.msr = m, !.aesm = a, !.dev = d, !.enc = e] :
        c \in {"sgx", "lc"}, m \in {"err", "off", "lc"}, a \in {"ok", "err"},
        d \in {"ok", "err"}, e \in {"ok", "err"}}
    \union {[p EXCEPT !.msr = "err", !.aesm = a, !.dev = d, !.enc = "err"] :
        p \in Processors, a \in {"ok", "err"}, d \in {"ok", "err"}}
    \union {[p EXCEPT !.aesm = "test", !.dev = "test", !.enc = "err"] : p \in Processors}
    \union {[Good EXCEPT !.env = v, !.enc = "err", !.graphene = g, !.agent = a] :
        v \in {"EnclaveOS", "EnclaveManager", "DataShield"},
        g \in {"ok", "err"}, a \in {"ok", "err"}}
=============================================================================
