------------------------------ MODULE DcapQuote -----------------------------
(***************************************************************************)
(* Parsing of ECDSA quotes (dcap-ql/src/quote.rs).  A quote is a buffer of *)
(* `len' bytes, of which the fields that decide how it is parsed have      *)
(* values; all that is kept of the others is how many bytes they take.     *)
(***************************************************************************)
EXTENDS Integers

ECDSA_P256_SIGNATURE_LEN == 64
ECDSA_P256_PUBLIC_KEY_LEN == 64
QE3_VENDOR_ID_LEN == 16
QE3_USER_DATA_LEN == 20
REPORT_BODY_LEN == 384
CPUSVN_LEN == 16
QUOTE_VERSION_3 == 3

\* Quote3AttestationKeyType and CertificationDataType
EcdsaP256 == 2
Quote3AttestationKeyType == {EcdsaP256, 3}
PpidCleartext == 1
PpidEncryptedRsa2048 == 2
PpidEncryptedRsa3072 == 3
PckCertificateChain == 5
CertificationDataType == 1 .. 7

\* What is left of `rest' bytes when `mid' are taken.  A quote that is too short
\* leaves a negative number, which no later prefix makes good.
TakePrefix(rest, mid) == rest - mid

\* Quote::parse: version, key type, reserved field, two SVNs, vendor, user data
\* and report body; and the signature that follows.
SignatureLen(q) ==
    TakePrefix(q.len, 2 + 2 + 4 + 2 + 2
                        + QE3_VENDOR_ID_LEN + QE3_USER_DATA_LEN + REPORT_BODY_LEN)
QuoteParses(q) ==
    /\ SignatureLen(q) >= 0
    /\ q.version = QUOTE_VERSION_3
    /\ q.attestation_key_type \in Quote3AttestationKeyType
    /\ q.reserved = 0

\* Quote3SignatureEcdsaP256::parse, and the certification data that follow.
CertificationDataLen(q) ==
    TakePrefix(SignatureLen(q) - 4,
               ECDSA_P256_SIGNATURE_LEN + ECDSA_P256_PUBLIC_KEY_LEN + REPORT_BODY_LEN
                 + ECDSA_P256_SIGNATURE_LEN + 2 + q.authdata_len + 2 + 4)
SignatureParses(q) ==
    /\ q.attestation_key_type = EcdsaP256
    /\ CertificationDataLen(q) >= 0
    /\ q.sig_len = SignatureLen(q) - 4
    /\ q.certification_data_type \in CertificationDataType
    /\ q.certdata_len = CertificationDataLen(q)

\* Qe3CertDataPpid::parse
PpidLen(type) == IF type = PpidEncryptedRsa2048 THEN 256 ELSE 384
PpidDataLen(type) == PpidLen(type) + CPUSVN_LEN + 2 + 2
CertDataPpidParses(q) ==
    /\ q.certification_data_type \in {PpidEncryptedRsa2048, PpidEncryptedRsa3072}
    /\ CertificationDataLen(q) = PpidDataLen(q.certification_data_type)

\* A well-formed quote of a quoting enclave of Intel, on a platform whose QE ID
\* is qe_id, with `n' bytes of certification data.
WellFormed(qe_id, type, n) ==
    LET signature == 64 + 64 + 384 + 64 + 2 + 32 + 2 + 4 + n
    IN  [len |-> 432 + 4 + signature, version |-> QUOTE_VERSION_3,
         attestation_key_type |-> EcdsaP256, reserved |-> 0, vendor |-> "Intel",
         user_data |-> <<qe_id, 0>>, sig_len |-> signature, authdata_len |-> 32,
         certification_data_type |-> type, certdata_len |-> n]
=============================================================================
