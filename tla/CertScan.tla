------------------------------ MODULE CertScan ------------------------------
(***************************************************************************)
(* How main.c finds the issued certificate in a decoded EST response: it   *)
(* tries every offset that holds a SEQUENCE tag, with a TLV reader of its  *)
(* own.  Offsets of the code are 0-based, positions here start at 1.       *)
(*                                                                         *)
(* size_t has 32 bits, and the reader adds a header to a length before it  *)
(* compares: the largest lengths wrap around.  They are written here as    *)
(* the negative numbers they add up as.                                    *)
(***************************************************************************)
EXTENDS Naturals, Sequences, SequencesExt

\* Longer responses are not decoded.
DER_DECODE_BUF_SIZE == 8192

\* 06 09 <id-ml-dsa-44>
oid_tlv == <<6, 9, 96, 134, 72, 1, 101, 3, 4, 3, 17>>

\* Octets of the length field after the first one.
LenBytes(buf) == IF buf[2] < 128 THEN 0 ELSE buf[2] - 128

Huge == 256 * 256 * 256     \* stands for every length from 2^24 to 2^32 - 257
BigEndian(bytes) ==
    LET value[i \in 0..Len(bytes)] ==
            IF i = 0 THEN 0
            ELSE IF value[i - 1] >= 256 * 256 THEN Huge
            ELSE value[i - 1] * 256 + bytes[i]
    IN  IF Len(bytes) = 4 /\ SubSeq(bytes, 1, 3) = <<255, 255, 255>>
        THEN bytes[4] - 256 ELSE value[Len(bytes)]

HeaderLen(buf)  == 2 + LenBytes(buf)
ContentLen(buf) == IF buf[2] < 128 THEN buf[2] ELSE BigEndian(SubSeq(buf, 3, HeaderLen(buf)))

\* asn1_get_tlv returned 0
IsTlv(buf) ==
    /\ Len(buf) >= 2 /\ buf[2] # 128 /\ LenBytes(buf) <= 4
    /\ HeaderLen(buf) <= Len(buf)
    /\ HeaderLen(buf) + ContentLen(buf) \in 0..Len(buf)

TlvLen(buf) == HeaderLen(buf) + ContentLen(buf)

\* asn1_get_object_total_len returned 0
IsObject(buf) == IsTlv(buf) /\ buf[1] = 48

From(buf, i) == SubSeq(buf, i, Len(buf))

der_contains_mldsa44_oid(buf) ==
    \E i \in 1..(Len(buf) + 1 - Len(oid_tlv)) :
        SubSeq(buf, i, i + Len(oid_tlv) - 1) = oid_tlv

\* Exactly a SEQUENCE of a SEQUENCE, a SEQUENCE and a BIT STRING, the first two
\* of which mention ML-DSA-44.
is_mldsa44_certificate_like(buf) ==
    /\ IsObject(buf) /\ TlvLen(buf) = Len(buf)
    /\ LET tbs == From(buf, HeaderLen(buf) + 1)
       IN  /\ IsObject(tbs)
           /\ LET alg == From(tbs, TlvLen(tbs) + 1)
              IN  /\ IsObject(alg)
                  /\ LET sig == From(alg, TlvLen(alg) + 1)
                     IN  IsTlv(sig) /\ TlvLen(sig) = Len(sig) /\ sig[1] = 3
                  /\ der_contains_mldsa44_oid(SubSeq(alg, 1, TlvLen(alg)))
           /\ der_contains_mldsa44_oid(SubSeq(tbs, 1, TlvLen(tbs)))

\* mbedtls_x509_crt_parse_der knows no ML-DSA, so of what this RA sends it
\* accepts nothing, and only the look-alike test counts.
ObjectAt(buf, i) == SubSeq(buf, i, i + TlvLen(From(buf, i)) - 1)

IsCertAt(buf, i) ==
    buf[i] = 48 /\ IsObject(From(buf, i)) /\ is_mldsa44_certificate_like(ObjectAt(buf, i))

CertPositions(buf) == {i \in 1..(Len(buf) - 4) : IsCertAt(buf, i)}

\* No second object looks like a certificate.
OneCertificate(buf) == \A i \in CertPositions(buf), j \in CertPositions(buf) : i = j

\* Mutant of find_first_der_certificate: a SEQUENCE that mentions ML-DSA-44, as
\* long as the response goes on.
find_first_der_certificate_open(buf) ==
    LET starts == {i \in 8..Len(buf) : buf[i] = 48 /\ der_contains_mldsa44_oid(From(buf, i))}
    IN  IF starts = {} THEN <<>> ELSE From(buf, CHOOSE i \in starts : \A j \in starts : i <= j)

\* find_first_der_certificate: the certificate, or <<>> when it returns -1.
find_first_der_certificate(buf) ==
    IF CertPositions(buf) = {} THEN <<>>
    ELSE ObjectAt(buf, CHOOSE i \in CertPositions(buf) :
                           \A j \in CertPositions(buf) : i <= j)

=============================================================================
