--------------------------- MODULE MCDcapProvider ---------------------------
(***************************************************************************)
(* DcapProvider for TLC: two threads on platform Host, which ask for its   *)
(* certificate, for that of another platform, and with bad arguments, and  *)
(* a QL whose quotes may be of another vendor, version or kind, or cut.    *)
(***************************************************************************)
EXTENDS DcapProvider

CONSTANT Other      \* another platform

Suite == "PCE_ALG_RSA_OAEP_3072"
ByQe(p) == [crypto_suite |-> Suite, encrypted_ppid |-> None, qe3_id |-> p, svns |-> TRUE]
MCPckCertIds ==
    LET other == [ByQe(Host) EXCEPT !.encrypted_ppid = Other]
    IN  {ByQe(Host), ByQe(Other), other, [other EXCEPT !.svns = FALSE],
         [ByQe(Host) EXCEPT !.crypto_suite = "other"]}

MCOddQuotes ==
    {[RawQuote EXCEPT !.vendor = "other"], [RawQuote EXCEPT !.len = @ - 1],
     WellFormed(Host, PpidEncryptedRsa2048, PpidDataLen(PpidEncryptedRsa2048))}
=============================================================================
