--------------------------- MODULE CertRoundTrip ---------------------------
(***************************************************************************)
(* Three DER implementations that have to agree, without a common library: *)
(* the firmware's writer (CsrGen), the RA's reader and writer (RaDer) and  *)
(* the firmware's scan of the response (CertScan).  A CSR goes round once, *)
(* for every combination of field lengths.                                 *)
(***************************************************************************)
EXTENDS CsrGen, CertScan, RaDer

CONSTANTS
    NameLens, KeyLens, SignatureLens,   \* lengths of the fields of a CSR
    ProgramLens,                        \* those that occur in the program
    Serials,                            \* serials the RA may be at
    CutWindow                           \* bytes missing at the end of a cut response

ASSUME RoundTripAssumption ==
    /\ NameLens \subseteq Nat /\ KeyLens \subseteq Nat \ {0} /\ SignatureLens \subseteq Nat \ {0}
    /\ ProgramLens \subseteq Nat \X (Nat \ {0}) \X (Nat \ {0})
    /\ Serials \subseteq Nat \ {0} /\ CutWindow \subseteq Nat \ {0}

\* All lengths are below 2^16, as in CsrGen; the program's are those of ML-DSA-44,
\* with a name that may be longer than the "device-01" of main.
ASSUME LengthAssumption ==
    /\ \A n \in NameLens, k \in KeyLens, s \in SignatureLens : n + k + s + 128 < 256 * 256
    /\ \A l \in ProgramLens : l[1] <= 236 /\ l[2] = 1312 /\ l[3] = 2420

VARIABLES
    at,         \* who holds the message: "board", "ra", "printed"
    lens,       \* <<name, key, signature>> lengths of the request
    serial,     \* the RA's serial number
    csr,        \* the request
    cert        \* the certificate made from it

vars == <<at, lens, serial, csr, cert>>

\* Field contents: headers of SEQUENCEs mislead a reader that loses its place.
\* Two of the lengths wrap around in 32 bits, to an object of 0 and of 5 bytes.
Misleading == <<48, 129, 48, 132, 255, 255, 255, 250, 48, 132, 255, 255, 255, 255>>
Filler(n) == [i \in 1..n |-> Misleading[((i - 1) % Len(Misleading)) + 1]]

Init ==
    /\ at = "board" /\ serial \in Serials
    /\ lens \in (NameLens \X KeyLens \X SignatureLens) \union ProgramLens
    /\ csr = <<>> /\ cert = <<>>

Cri == csr_build_certification_request_info(Filler(lens[1]), Filler(lens[2]))

Enroll ==
    /\ at = "board" /\ at' = "ra"
    /\ \/ csr' = csr_assemble(Cri, Filler(lens[3]))
       \/ csr' = csr_generate(Filler(lens[1]), Filler(lens[2]), Filler(lens[3]))
    /\ UNCHANGED <<lens, serial, cert>>

Issue ==
    /\ at = "ra" /\ IsCsr(csr) /\ at' = "printed"
    /\ cert' = build_mldsa44_certificate(csr, serial)
    /\ UNCHANGED <<lens, serial, csr>>

Next == Enroll \/ Issue

Spec == Init /\ [][Next]_vars

-----------------------------------------------------------------------------
\* The writers go backwards from the end of a buffer whose size they do not look
\* at.  With the program's lengths they do not go past its beginning.
CsrFits ==
    at # "board" /\ lens \in ProgramLens =>
        Len(Cri) <= CSR_CRI_BUF_SIZE /\ Len(csr) <= CSR_DER_BUF_SIZE

\* The RA's reader accepts every CSR the firmware writes, and finds in it the
\* subject and the public key the firmware put there, byte for byte.
CsrIsRead ==
    at = "ra" =>
        /\ IsCsr(csr)
        /\ SubjectOf(csr) = der_write_subject(Filler(lens[1]))
        /\ SpkiOf(csr) = der_write_subject_public_key_info(Filler(lens[2]))

\* In every response that main can decode the scan finds the certificate, from its
\* first byte to its last, and not one of the sequences around or inside it.
CertIsFound ==
    at = "printed" /\ Len(cert_der_to_pkcs7(cert)) <= DER_DECODE_BUF_SIZE =>
        find_first_der_certificate(cert_der_to_pkcs7(cert)) = cert

\* A request with fields of these lengths, and what it takes for the next property:
\* in no response do the octets of a name, a key or a signature spell a second
\* certificate, and main can decode all of them.
CsrFor(l) == csr_assemble(csr_build_certification_request_info(Filler(l[1]), Filler(l[2])),
                          Filler(l[3]))
FieldsHoldNoCertificate ==
    \A l \in (NameLens \X KeyLens \X SignatureLens) \union ProgramLens, n \in Serials :
        IsCsr(CsrFor(l)) =>
            LET der == cert_der_to_pkcs7(build_mldsa44_certificate(CsrFor(l), n))
            IN  Len(der) <= DER_DECODE_BUF_SIZE /\ OneCertificate(der)

\* In a response of which the end is missing it finds none: neither a certificate
\* that is cut off nor some other object inside it.
CutCertIsNotFound ==
    at = "printed" =>
        LET der == cert_der_to_pkcs7(cert)
        IN  \A n \in CutWindow : find_first_der_certificate(SubSeq(der, 1, Len(der) - n)) = <<>>

=============================================================================
