------------------------------- MODULE RaDer -------------------------------
(***************************************************************************)
(* The DER writer and reader of EST_Python/adhoc_ra/adhoc_est_ra.py: how   *)
(* the RA takes a PKCS#10 request apart and makes a certificate of it.     *)
(* Positions start at 1.  Lengths are below 2^16.                          *)
(***************************************************************************)
EXTENDS Naturals, Sequences, SequencesExt

CONSTANTS
    TimeByte,   \* the content of a UTCTime
    SigBytes    \* the digest that stands for a signature

ASSUME DerAssumption == TimeByte \in 0..255 /\ SigBytes \in Seq(0..255)

MLDSA44_OID         == <<96, 134, 72, 1, 101, 3, 4, 3, 17>>
CN_OID              == <<85, 4, 3>>
PKCS7_SIGNED_DATA_OID == <<42, 134, 72, 134, 247, 13, 1, 7, 2>>
PKCS7_DATA_OID      == <<42, 134, 72, 134, 247, 13, 1, 7, 1>>

-----------------------------------------------------------------------------
\* The DER writer.
ToBytes(n) == IF n < 256 THEN <<n>> ELSE <<n \div 256, n % 256>>

der_len(n) == IF n < 128 THEN <<n>> ELSE <<128 + Len(ToBytes(n))>> \o ToBytes(n)
der_tlv(tag, content) == <<tag>> \o der_len(Len(content)) \o content
der_seq(items) == der_tlv(48, FlattenSeq(items))
der_set(items) == der_tlv(49, FlattenSeq(items))
der_ctx(no, content) == der_tlv(160 + no, content)
der_oid(oid) == der_tlv(6, oid)
der_int(n) ==
    LET data == ToBytes(n)
    IN  der_tlv(2, IF data[1] >= 128 THEN <<0>> \o data ELSE data)
der_utf8(value) == der_tlv(12, value)
der_utctime(t) == der_tlv(23, <<t>>)
der_bit_string(payload) == der_tlv(3, <<0>> \o payload)
mldsa44_algorithm_identifier == der_seq(<<der_oid(MLDSA44_OID)>>)

-----------------------------------------------------------------------------
\* The DER reader.  parse_tlv raises unless an object stands at `pos`.
LenLen(data, pos) == IF data[pos + 1] < 128 THEN 0 ELSE data[pos + 1] - 128
ContentStart(data, pos) == pos + 2 + LenLen(data, pos)

\* int.from_bytes(bytes, "big"); values from 2^24 on, which no caller tells
\* apart, are 2^24.
FromBytes(bytes) ==
    LET value[i \in 0..Len(bytes)] ==
            IF i = 0 THEN 0
            ELSE IF value[i - 1] >= 256 * 256 THEN 256 * 256 * 256
            ELSE value[i - 1] * 256 + bytes[i]
    IN  value[Len(bytes)]

ContentLength(data, pos) ==
    IF data[pos + 1] < 128 THEN data[pos + 1]
    ELSE FromBytes(SubSeq(data, pos + 2, ContentStart(data, pos) - 1))

ParsesAt(data, pos) ==
    /\ pos + 1 <= Len(data) /\ data[pos + 1] # 128 /\ LenLen(data, pos) <= 4
    /\ ContentStart(data, pos) <= Len(data) + 1
    /\ ContentStart(data, pos) + ContentLength(data, pos) <= Len(data) + 1

\* Position of the byte after the object.
EndOf(data, pos) == ContentStart(data, pos) + ContentLength(data, pos)

\* The objects from pos to the end of data; an empty one where parse_tlv raises.
Objects(data) ==
    LET from[pos \in 1..(Len(data) + 1)] ==
            IF pos = Len(data) + 1 THEN <<>>
            ELSE IF ~ParsesAt(data, pos) THEN <<<<>>>>
            ELSE <<SubSeq(data, pos, EndOf(data, pos) - 1)>> \o from[EndOf(data, pos)]
    IN  from

\* Mutant of der_children: a slice that overruns the input just ends early.
der_children_slice(der, tag) ==
    LET End(pos) == IF EndOf(der, pos) > Len(der) + 1 THEN Len(der) + 1 ELSE EndOf(der, pos)
        from[pos \in 1..(Len(der) + 1)] ==
            IF pos >= Len(der) THEN <<>>
            ELSE <<SubSeq(der, pos, End(pos) - 1)>> \o from[End(pos)]
    IN  IF Len(der) > 2 /\ der[1] = tag THEN from[ContentStart(der, 1)] ELSE <<>>

\* der_children: <<>> also stands for a ValueError, as every caller raises one
\* itself when it finds no child.
der_children(der, tag) ==
    IF der # <<>> /\ der[1] = tag /\ ParsesAt(der, 1) /\ EndOf(der, 1) = Len(der) + 1
       /\ <<>> \notin ToSet(Objects(der)[ContentStart(der, 1)])
    THEN Objects(der)[ContentStart(der, 1)]
    ELSE <<>>

\* der_oid_content: <<>> when it raises.
der_oid_content(oid_der) ==
    IF ParsesAt(oid_der, 1) /\ oid_der[1] = 6 /\ EndOf(oid_der, 1) = Len(oid_der) + 1
    THEN SubSeq(oid_der, ContentStart(oid_der, 1), Len(oid_der)) ELSE <<>>

HasAlgorithm(alg_der) ==
    LET children == der_children(alg_der, 48)
    IN  children # <<>> /\ der_oid_content(children[1]) = MLDSA44_OID

\* parse_mldsa44_csr does not raise.
IsCsr(der) ==
    LET csr_children == der_children(der, 48)
    IN  /\ Len(csr_children) = 3 /\ HasAlgorithm(csr_children[2])
        /\ LET cri_children == der_children(csr_children[1], 48)
           IN  /\ Len(cri_children) >= 3
               /\ LET spki_children == der_children(cri_children[3], 48)
                  IN  Len(spki_children) = 2 /\ HasAlgorithm(spki_children[1])

CriOf(der)     == der_children(der_children(der, 48)[1], 48)
SubjectOf(der) == CriOf(der)[2]
SpkiOf(der)    == CriOf(der)[3]

build_mldsa44_certificate(der, n) ==
    LET issuer   == der_seq(<<der_set(<<der_seq(<<der_oid(CN_OID), der_utf8(<<82>>)>>)>>)>>)
        validity == der_seq(<<der_utctime(TimeByte), der_utctime(TimeByte)>>)
        tbs == der_seq(<<der_ctx(0, der_int(2)), der_int(n), mldsa44_algorithm_identifier,
                         issuer, validity, SubjectOf(der), SpkiOf(der)>>)
    IN  der_seq(<<tbs, mldsa44_algorithm_identifier, der_bit_string(SigBytes)>>)

cert_der_to_pkcs7(cert) ==
    LET signed_data == der_seq(<<der_int(1), der_set(<<>>), der_seq(<<der_oid(PKCS7_DATA_OID)>>),
                                 der_ctx(0, cert), der_set(<<>>)>>)
    IN  der_seq(<<der_oid(PKCS7_SIGNED_DATA_OID), der_ctx(0, signed_data)>>)

=============================================================================
