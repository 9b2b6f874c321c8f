------------------------ MODULE CertRoundTrip_proofs ------------------------
(***************************************************************************)
(* The firmware writes requests the RA reads, and finds the certificate in *)
(* the RA's responses, and nothing in those that were cut: for names, keys *)
(* and signatures of every length the length fields can hold.              *)
(***************************************************************************)
EXTENDS CertRoundTrip, MessageLemmas

(***************************************************************************)
(* The round trip.                                                         *)
(***************************************************************************)

\* The request is what the firmware makes of fields of these lengths, in whichever
\* of the two ways; the certificate is what the RA makes of this request.
RoundTripInv ==
    /\ lens \in (NameLens \X KeyLens \X SignatureLens) \union ProgramLens
    /\ serial \in Serials /\ serial \in Nat
    /\ at \in {"ra", "printed"} => csr = csr_assemble(Cri, Filler(lens[3]))
    /\ at = "printed" => cert = build_mldsa44_certificate(csr, serial)
    /\ at \in {"board", "ra", "printed"}

\* A field has the length it should have.
LEMMA FillerType ==
    ASSUME NEW n \in Nat
    PROVE  Filler(n) \in Seq(Nat) /\ Len(Filler(n)) = n
<1> DEFINE f == Filler(n)
<1>1. Len(Misleading) = 14 /\ Misleading \in Seq(Nat)
  BY DEF Misleading
<1>2. \A i \in 1..n : ((i - 1) % 14) + 1 \in 1..14
  OBVIOUS
<1>3. \A i \in 1..n : Misleading[((i - 1) % 14) + 1] \in Nat
  BY <1>1, <1>2, SeqElt
<1>4. f = [i \in 1..n |-> Misleading[((i - 1) % 14) + 1]]
  BY <1>1 DEF Filler
<1> HIDE DEF f
<1>5. f \in [1..n -> Nat]
  BY <1>3, <1>4
<1>6. f \in Seq(Nat) /\ Len(f) = n
  BY <1>5, SeqMake
<1> QED
  BY <1>6 DEF f

\* The lengths are numbers, and their sum fits.
LEMMA LensFit ==
    ASSUME RoundTripInv
    PROVE  /\ lens[1] \in Nat /\ lens[2] \in Nat /\ lens[3] \in Nat
           /\ Fits(lens[1] + lens[2] + lens[3] + 84)
<1>1. CASE lens \in NameLens \X KeyLens \X SignatureLens
  <2>1. lens[1] \in NameLens /\ lens[2] \in KeyLens /\ lens[3] \in SignatureLens
    BY <1>1
  <2>2. lens[1] \in Nat /\ lens[2] \in Nat /\ lens[3] \in Nat
    BY <2>1, RoundTripAssumption
  <2>3. lens[1] + lens[2] + lens[3] + 128 < 256 * 256
    BY <2>1, LengthAssumption
  <2> QED
    BY <2>2, <2>3 DEF Fits
<1>2. CASE lens \in ProgramLens
  <2>1. lens \in Nat \X (Nat \ {0}) \X (Nat \ {0})
    BY <1>2, RoundTripAssumption
  <2>2. lens[1] \in Nat /\ lens[2] \in Nat /\ lens[3] \in Nat
    BY <2>1
  <2>3. lens[1] + lens[2] + lens[3] + 128 <= 4096
    BY <1>2, <2>2, LengthAssumption
  <2> QED
    BY <2>2, <2>3 DEF Fits
<1> QED
  BY <1>1, <1>2 DEF RoundTripInv

LEMMA RoundTripInit == Init => RoundTripInv
BY RoundTripAssumption DEF Init, RoundTripInv

LEMMA RoundTripStep == RoundTripInv /\ [Next]_vars => RoundTripInv'
<1> SUFFICES ASSUME RoundTripInv, [Next]_vars PROVE RoundTripInv'
  OBVIOUS
<1>1. CASE Enroll
  <2>1. csr_generate(Filler(lens[1]), Filler(lens[2]), Filler(lens[3]))
           = csr_assemble(Cri, Filler(lens[3]))
    BY DEF csr_generate, csr_assemble, Cri
  <2>2. csr' = csr_assemble(Cri, Filler(lens[3])) /\ UNCHANGED <<lens, serial>> /\ at' = "ra"
    BY <1>1, <2>1 DEF Enroll
  <2>3. Cri' = Cri
    BY <2>2 DEF Cri
  <2> QED
    BY <2>2, <2>3 DEF RoundTripInv
<1>2. CASE Issue
  <2>1. /\ UNCHANGED <<lens, csr, serial>> /\ at = "ra" /\ at' = "printed"
        /\ cert' = build_mldsa44_certificate(csr, serial)
    BY <1>2 DEF Issue
  <2>2. Cri' = Cri
    BY <2>1 DEF Cri
  <2> QED
    BY <2>1, <2>2 DEF RoundTripInv
<1>3. CASE UNCHANGED vars
  <2>1. UNCHANGED <<lens, csr, at, serial, cert>>
    BY <1>3 DEF vars
  <2>2. Cri' = Cri
    BY <2>1 DEF Cri
  <2> QED
    BY <2>1, <2>2 DEF RoundTripInv
<1> QED
  BY <1>1, <1>2, <1>3 DEF Next

LEMMA RoundTripInvariant == Spec => []RoundTripInv
<1> QED
  BY RoundTripInit, RoundTripStep, PTL DEF Spec

\* What the RA finds in the request, whoever holds it.
LEMMA RequestRead ==
    ASSUME RoundTripInv, at \in {"ra", "printed"}
    PROVE  /\ IsCsr(csr) /\ SubjectOf(csr) = der_write_subject(Filler(lens[1]))
           /\ SpkiOf(csr) = der_write_subject_public_key_info(Filler(lens[2]))
           /\ SubjectOf(csr) \in Seq(Nat) /\ SpkiOf(csr) \in Seq(Nat)
<1> DEFINE x == Filler(lens[1])
           y == Filler(lens[2])
           z == Filler(lens[3])
           m == lens[1]
           n == lens[2]
           l == lens[3]
<1>1. m \in Nat /\ n \in Nat /\ l \in Nat /\ Fits(m + n + l + 84)
  BY LensFit
<1>2. /\ x \in Seq(Nat) /\ Len(x) = m /\ y \in Seq(Nat) /\ Len(y) = n
      /\ z \in Seq(Nat) /\ Len(z) = l
  BY <1>1, FillerType
<1>3. csr = csr_assemble(csr_build_certification_request_info(x, y), z)
  BY DEF RoundTripInv, Cri
<1> HIDE DEF x, y, z, m, n, l
<1>4. Fits(Len(x) + Len(y) + Len(z) + 84)
  BY <1>1, <1>2
<1>5. IsCsr(csr) /\ SubjectOf(csr) = der_write_subject(x)
      /\ SpkiOf(csr) = der_write_subject_public_key_info(y)
  BY <1>2, <1>3, <1>4, CsrAccepted
<1>6. Fits(Len(x) + 19) /\ Fits(Len(y) + 22)
  <2>1. m + n + l + 84 \in Nat /\ m + 19 \in Nat /\ m + 19 <= m + n + l + 84
        /\ n + 22 \in Nat /\ n + 22 <= m + n + l + 84
    BY <1>1
  <2>2. Fits(m + 19) /\ Fits(n + 22)
    BY <1>1, <2>1, FitsLess
  <2> QED
    BY <1>2, <2>2
<1>7. der_write_subject(x) \in Seq(Nat)
  BY <1>2, <1>6, SubjectRead DEF Within
<1>8. der_write_subject_public_key_info(y) \in Seq(Nat)
  BY <1>2, <1>6, SpkiRead DEF Within
<1> QED
  BY <1>5, <1>7, <1>8 DEF x, y

\* The RA's parser, written independently of csr_gen.c, accepts every request of
\* the firmware, and returns as subject and public key the octets the firmware put
\* there: for fields of all lengths, on both sides of every step of the length field.
\* (CsrAccepted, on which it rests, says it for all contents as well.)
THEOREM EveryCsrIsRead == Spec => []CsrIsRead
<1>1. RoundTripInv => CsrIsRead
  BY RequestRead DEF CsrIsRead
<1> QED
  BY <1>1, RoundTripInvariant, PTL

\* csr_gen.c writes backwards from the end of buffers whose size it does not look
\* at.  It adds at most 62 octets to name and key and 26 to these and the
\* signature, so that with the program's lengths it stays inside both.
THEOREM ProgramCsrFits == Spec => []CsrFits
<1>1. RoundTripInv => CsrFits
  <2> SUFFICES ASSUME RoundTripInv, at # "board", lens \in ProgramLens
               PROVE  Len(Cri) <= CSR_CRI_BUF_SIZE /\ Len(csr) <= CSR_DER_BUF_SIZE
    BY DEF CsrFits
  <2> DEFINE x == Filler(lens[1])
             y == Filler(lens[2])
             z == Filler(lens[3])
             m == lens[1]
             n == lens[2]
             l == lens[3]
  <2>1. m \in Nat /\ n \in Nat /\ l \in Nat /\ Fits(m + n + l + 84)
    BY LensFit
  <2>2. /\ x \in Seq(Nat) /\ Len(x) = m /\ y \in Seq(Nat) /\ Len(y) = n
        /\ z \in Seq(Nat) /\ Len(z) = l
    BY <2>1, FillerType
  <2>3. Cri = csr_build_certification_request_info(x, y)
    BY DEF Cri
  <2>4. csr = csr_assemble(Cri, z)
    BY DEF RoundTripInv
  <2>5. m + n + 64 <= 2048 /\ m + n + l + 128 <= 4096
    BY <2>1, LengthAssumption
  <2> HIDE DEF x, y, z, m, n, l
  <2>6. Fits(Len(x) + Len(y) + Len(z) + 84)
    BY <2>1, <2>2
  <2>7. Fits(Len(x) + Len(y) + 58)
    <3>1. m + n + l + 84 \in Nat /\ m + n + 58 \in Nat /\ m + n + 58 <= m + n + l + 84
      BY <2>1
    <3>2. Fits(m + n + 58)
      BY <2>1, <3>1, FitsLess
    <3> QED
      BY <2>2, <3>2
  <2>8. Len(Cri) <= m + n + 62
    BY <2>2, <2>3, <2>7, InfoRead DEF Within
  <2>9. Len(csr) <= m + n + l + 88
    BY <2>2, <2>3, <2>4, <2>6, CsrRead DEF Within
  <2>10. Len(Cri) \in Nat /\ Len(csr) \in Nat
    <3>1. Cri \in Seq(Nat) /\ csr \in Seq(Nat)
      BY <2>2, <2>3, <2>4, <2>6, <2>7, InfoRead, CsrRead DEF Within
    <3> QED
      BY <3>1, SeqDomain
  <2>11. Len(Cri) <= 2048 /\ Len(csr) <= 4096
    BY <2>1, <2>5, <2>8, <2>9, <2>10
  <2> QED
    BY <2>11 DEF CSR_CRI_BUF_SIZE, CSR_DER_BUF_SIZE
<1> QED
  BY <1>1, RoundTripInvariant, PTL

\* main.c does not parse the PKCS#7 object: it scans the decoded response for the
\* first SEQUENCE that looks like a certificate.  Whatever its fields and their
\* lengths, that is the certificate itself, from its first octet to its last.  (In a
\* response longer than main's buffer the octets of a length could spell a look-alike.)
THEOREM ScanFindsCertificate == Spec => []CertIsFound
<1>1. RoundTripInv => CertIsFound
  <2> SUFFICES ASSUME RoundTripInv, at = "printed", Len(cert_der_to_pkcs7(cert)) <= 8192
               PROVE  find_first_der_certificate(cert_der_to_pkcs7(cert)) = cert
    BY DEF CertIsFound, DER_DECODE_BUF_SIZE
  <2>1. SubjectOf(csr) \in Seq(Nat) /\ SpkiOf(csr) \in Seq(Nat)
    BY RequestRead
  <2>2. serial \in Nat /\ cert = build_mldsa44_certificate(csr, serial)
    BY DEF RoundTripInv
  <2>3. cert \in Seq(Nat) /\ IsCertificate(cert)
    BY <2>1, <2>2, CertificateParts
  <2> QED
    BY <2>3, ResponseScanned
<1> QED
  BY <1>1, RoundTripInvariant, PTL

\* Of a response whose end is missing it prints nothing: neither a certificate that is
\* cut off nor an object inside it, as long as three octets are missing (the last two
\* come after the certificate) and no field spells a certificate of its own.  What is an
\* object in the part is the same object in the whole, and there is only one.
THEOREM CutCertificateIsNotFound ==
    ASSUME FieldsHoldNoCertificate, \A n \in CutWindow : n >= 3
    PROVE  Spec => []CutCertIsNotFound
<1>1. RoundTripInv => CutCertIsNotFound
  <2> DEFINE der == cert_der_to_pkcs7(cert)
  <2> SUFFICES ASSUME RoundTripInv, at = "printed", NEW n \in CutWindow
               PROVE  find_first_der_certificate(SubSeq(der, 1, Len(der) - n)) = <<>>
    BY DEF CutCertIsNotFound
  <2>1. IsCsr(csr) /\ SubjectOf(csr) \in Seq(Nat) /\ SpkiOf(csr) \in Seq(Nat)
    BY RequestRead
  <2>2. /\ serial \in Nat /\ serial \in Serials /\ cert = build_mldsa44_certificate(csr, serial)
        /\ lens \in (NameLens \X KeyLens \X SignatureLens) \union ProgramLens
        /\ csr = CsrFor(lens)
    BY DEF RoundTripInv, CsrFor, Cri
  <2>3. cert \in Seq(Nat) /\ IsCertificate(cert)
    BY <2>1, <2>2, CertificateParts
  <2>4. Len(der) <= DER_DECODE_BUF_SIZE /\ OneCertificate(der)
    BY <2>1, <2>2 DEF FieldsHoldNoCertificate
  <2>5. der \in Seq(Nat) /\ Len(der) \in Nat
    BY <2>3, Pkcs7Fact, SeqDomain
  <2>6. Small(der)
    BY <2>4, <2>5 DEF Small, DER_DECODE_BUF_SIZE
  <2>7. n \in Nat /\ n >= 3
    BY RoundTripAssumption
  <2> HIDE DEF der
  <2>8. CASE n <= Len(der)
    <3> DEFINE k == Len(der) - n
    <3>1. k \in 0..Len(der) /\ k + 2 < Len(der) /\ k \in Nat
      BY <2>5, <2>7, <2>8
    <3> SUFFICES ASSUME find_first_der_certificate(SubSeq(der, 1, k)) # <<>> PROVE FALSE
      OBVIOUS
    <3> HIDE DEF k
    <3>2. Len(der) <= k + 2
      BY <2>3, <2>4, <2>6, <3>1, CutScanned DEF der
    <3> QED
      BY <2>5, <3>1, <3>2
  <2>9. CASE n > Len(der)
    <3>1. SubSeq(der, 1, Len(der) - n) = <<>>
      BY <2>5, <2>7, <2>9
    <3>2. CertPositions(<<>>) = {}
      <4>1. Len(<<>>) = 0
        OBVIOUS
      <4> QED
        BY <4>1 DEF CertPositions
    <3>3. find_first_der_certificate(<<>>) = <<>>
      BY <3>2, Zenon DEF find_first_der_certificate
    <3> QED
      BY <3>1, <3>3
  <2> QED
    BY <2>5, <2>7, <2>8, <2>9
<1> QED
  BY <1>1, RoundTripInvariant, PTL

=============================================================================
