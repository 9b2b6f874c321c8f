------------------------------- MODULE CmsPqc -------------------------------
(***************************************************************************)
(* STEP 4 of the firmware, Core/EST/cms_pqc.c: a CMS SignedData with an    *)
(* ML-DSA signature and an EnvelopedData with an ML-KEM recipient are      *)
(* written, searched for their parts, and opened again.                    *)
(*                                                                         *)
(* The writer goes forward, so that every length is computed before what   *)
(* it is the length of is written.  The searches know no structure: one    *)
(* tries every offset, the other looks for the bytes of an OID.            *)
(*                                                                         *)
(* Signatures, ciphertexts and keys are bytes nobody looks into; a         *)
(* primitive works on exactly what the matching one made, and may fail.    *)
(***************************************************************************)
EXTENDS Integers, Sequences, SequencesExt

CONSTANTS
    Builds,         \* lengths of signature, KEM ciphertext, plaintext and g_cms_buf
    Filling         \* bytes signatures and ciphertexts are made of

MaxLen == 256 * 256 * 256 - 1  \* no sum of lengths wraps around in a size_t of 32 bits

ASSUME CmsAssumption ==
    /\ \A build \in Builds : /\ build.sig \in 1..MaxLen /\ build.ct \in 0..MaxLen
                              /\ build.plain \in 0..MaxLen /\ build.size \in 0..MaxLen
    /\ Filling \in Seq(0..255) /\ Filling # <<>>

TagLen    == 16     \* CMS_PQC_AES_GCM_TAG_LEN
ParamsMax == 32     \* aes_gcm_params

OID_CMS_DATA           == <<42, 134, 72, 134, 247, 13, 1, 7, 1>>
OID_CMS_SIGNED_DATA    == <<42, 134, 72, 134, 247, 13, 1, 7, 2>>
OID_CMS_ENVELOPED_DATA == <<42, 134, 72, 134, 247, 13, 1, 7, 3>>
OID_ORI_KEM            == <<42, 134, 72, 134, 247, 13, 1, 9, 16, 13, 3>>
OID_MLKEM512           == <<96, 134, 72, 1, 101, 3, 4, 4, 1>>
OID_MLDSA44            == <<96, 134, 72, 1, 101, 3, 4, 3, 17>>
OID_HKDF_SHA256        == <<42, 134, 72, 134, 247, 13, 1, 9, 16, 3, 28>>
OID_AES128_WRAP        == <<96, 134, 72, 1, 101, 3, 4, 1, 5>>
OID_AES128_GCM         == <<96, 134, 72, 1, 101, 3, 4, 1, 6>>

-----------------------------------------------------------------------------
(* The writer.  A der_put_ operator is the sequence of its calls of der_put. *)

\* Nothing is written past the end, and after one failure nothing at all.
der_put(w, bytes) ==
    IF w.ok /\ Len(w.buf) + Len(bytes) <= w.size
    THEN [w EXCEPT !.buf = @ \o bytes] ELSE [w EXCEPT !.ok = FALSE]

Written(size, calls) ==
    LET w[n \in 0..Len(calls)] ==
            IF n = 0 THEN [buf |-> <<>>, size |-> size, ok |-> TRUE]
            ELSE der_put(w[n - 1], calls[n])
    IN  w[Len(calls)]

\* der_put_len, the short form and the long one.
Octets(len) ==
    SubSeq(<<len \div (256 * 256 * 256), (len \div (256 * 256)) % 256, (len \div 256) % 256,
             len % 256>>,
           IF len < 256 THEN 4 ELSE IF len < 256 * 256 THEN 3 ELSE IF len <= MaxLen THEN 2 ELSE 1,
           4)
LenField(len) == IF len < 128 THEN <<len>> ELSE <<128 + Len(Octets(len))>> \o Octets(len)

der_put_tlv_header(tag, len) == <<<<tag>>, LenField(len)>>
der_put_oid(oid)             == der_put_tlv_header(6, Len(oid)) \o <<oid>>
der_put_integer_u8(value)    == der_put_tlv_header(2, 1) \o <<<<value>>>>
der_put_octet_string(buf)    == der_put_tlv_header(4, Len(buf)) \o <<buf>>

\* Mutant of der_len_len: the short form up to 128.
der_len_len_128(len) == IF len <= 128 THEN 1 ELSE 1 + Len(Octets(len))

der_len_len(len)  == IF len < 128 THEN 1 ELSE 1 + Len(Octets(len))
der_tlv_len(content_len) == 1 + der_len_len(content_len) + content_len
der_alg_id_len(oid) == der_tlv_len(der_tlv_len(Len(oid)))

der_put_algorithm_identifier(oid) ==
    der_put_tlv_header(48, der_tlv_len(Len(oid))) \o der_put_oid(oid)

der_put_algorithm_identifier_params(oid, params) ==
    der_put_tlv_header(48, der_tlv_len(Len(oid)) + Len(params))
        \o der_put_oid(oid) \o <<params>>

cms_pqc_build_signed_data(content, signature, size) ==
    LET alg == der_alg_id_len(OID_MLDSA44)
        econtent == der_tlv_len(Len(content))
        encap == der_tlv_len(Len(OID_CMS_DATA)) + der_tlv_len(econtent)
        signer_info == der_tlv_len(1) + der_tlv_len(0) + alg + alg + der_tlv_len(Len(signature))
        signed_data == der_tlv_len(1) + der_tlv_len(alg) + der_tlv_len(encap)
                           + der_tlv_len(der_tlv_len(signer_info))
    IN  Written(size,
            der_put_tlv_header(48, der_tlv_len(Len(OID_CMS_SIGNED_DATA))
                                       + der_tlv_len(der_tlv_len(signed_data)))
            \o der_put_oid(OID_CMS_SIGNED_DATA)
            \o der_put_tlv_header(160, der_tlv_len(signed_data))
            \o der_put_tlv_header(48, signed_data)
            \o der_put_integer_u8(1)
            \o der_put_tlv_header(49, alg) \o der_put_algorithm_identifier(OID_MLDSA44)
            \o der_put_tlv_header(48, encap) \o der_put_oid(OID_CMS_DATA)
            \o der_put_tlv_header(160, econtent) \o der_put_octet_string(content)
            \o der_put_tlv_header(49, der_tlv_len(signer_info))
            \o der_put_tlv_header(48, signer_info)
            \o der_put_integer_u8(1) \o der_put_tlv_header(128, 0)
            \o der_put_algorithm_identifier(OID_MLDSA44)
            \o der_put_algorithm_identifier(OID_MLDSA44)
            \o der_put_octet_string(signature))

cms_pqc_write_aes_gcm_params(nonce) ==
    Written(ParamsMax,
        der_put_tlv_header(48, der_tlv_len(Len(nonce)) + der_tlv_len(1))
        \o der_put_octet_string(nonce) \o der_put_integer_u8(TagLen))

cms_pqc_build_enveloped_data(kem_ct, encrypted, params, size) ==
    LET content_alg == der_tlv_len(der_tlv_len(Len(OID_AES128_GCM)) + Len(params))
        kemri == der_tlv_len(1) + der_tlv_len(0) + der_alg_id_len(OID_MLKEM512)
                     + der_tlv_len(Len(kem_ct)) + der_alg_id_len(OID_HKDF_SHA256)
                     + der_tlv_len(1) + der_alg_id_len(OID_AES128_WRAP) + der_tlv_len(0)
        ori == der_tlv_len(Len(OID_ORI_KEM)) + der_tlv_len(kemri)
        eci == der_tlv_len(Len(OID_CMS_DATA)) + content_alg + der_tlv_len(Len(encrypted))
        enveloped_data == der_tlv_len(1) + der_tlv_len(der_tlv_len(ori)) + der_tlv_len(eci)
    IN  Written(size,
            der_put_tlv_header(48, der_tlv_len(Len(OID_CMS_ENVELOPED_DATA))
                                       + der_tlv_len(der_tlv_len(enveloped_data)))
            \o der_put_oid(OID_CMS_ENVELOPED_DATA)
            \o der_put_tlv_header(160, der_tlv_len(enveloped_data))
            \o der_put_tlv_header(48, enveloped_data)
            \o der_put_integer_u8(2)
            \o der_put_tlv_header(49, der_tlv_len(ori))
            \o der_put_tlv_header(164, ori) \o der_put_oid(OID_ORI_KEM)
            \o der_put_tlv_header(48, kemri)
            \o der_put_integer_u8(0) \o der_put_tlv_header(128, 0)
            \o der_put_algorithm_identifier(OID_MLKEM512) \o der_put_octet_string(kem_ct)
            \o der_put_algorithm_identifier(OID_HKDF_SHA256) \o der_put_integer_u8(16)
            \o der_put_algorithm_identifier(OID_AES128_WRAP) \o der_put_octet_string(<<>>)
            \o der_put_tlv_header(48, eci) \o der_put_oid(OID_CMS_DATA)
            \o der_put_algorithm_identifier_params(OID_AES128_GCM, params)
            \o der_put_tlv_header(128, Len(encrypted)) \o <<encrypted>>)

-----------------------------------------------------------------------------
(* The searches.  Offsets are the code's, 0-based.  A result <<>> is -1,     *)
(* <<content>> a pointer into the message and a length.                      *)

LenLen(buf, off) == IF buf[off + 2] < 128 THEN 0 ELSE buf[off + 2] - 128
HdrLen(buf, off) == 2 + LenLen(buf, off)

\* Huge stands for every length above MaxLen.  In a size_t of 32 bits the code's sum
\* of offset, header and length wraps around for the largest of these; the searches
\* come upon one only inside a signature or a ciphertext that spells it.
Huge == 256 * 256 * 256
ContentLen(buf, off) ==
    LET value[i \in 0..LenLen(buf, off)] ==
            IF i = 0 THEN 0
            ELSE IF value[i - 1] >= 256 * 256 THEN Huge
            ELSE value[i - 1] * 256 + buf[off + 2 + i]
    IN  IF buf[off + 2] < 128 THEN buf[off + 2] ELSE value[LenLen(buf, off)]

\* Mutant of IsTlvAt: the last object of the message is not one.
IsTlvAt_before(buf, off) ==
    /\ off + 2 <= Len(buf) /\ buf[off + 2] # 128 /\ LenLen(buf, off) <= 4
    /\ off + HdrLen(buf, off) <= Len(buf)
    /\ off + HdrLen(buf, off) + ContentLen(buf, off) < Len(buf)

\* der_read_tlv returned 0
IsTlvAt(buf, off) ==
    /\ off + 2 <= Len(buf) /\ buf[off + 2] # 128 /\ LenLen(buf, off) <= 4
    /\ off + HdrLen(buf, off) <= Len(buf)
    /\ off + HdrLen(buf, off) + ContentLen(buf, off) <= Len(buf)

EndAt(buf, off) == off + HdrLen(buf, off) + ContentLen(buf, off)
ContentAt(buf, off) == SubSeq(buf, off + HdrLen(buf, off) + 1, EndAt(buf, off))

First(offsets) == CHOOSE i \in offsets : \A j \in offsets : i <= j

OidOffsets(cms, oid) ==
    {i \in 0..(Len(cms) - 3 - Len(oid)) :
        cms[i + 1] = 6 /\ cms[i + 2] = Len(oid) /\ SubSeq(cms, i + 3, i + 2 + Len(oid)) = oid}

\* From one place where the OID stands: objects are skipped until the tag is
\* right.  An object that cannot be read ends the whole search, the end of the
\* message only this place.
cms_find_tlv_after_oid(cms, oid, tag) ==
    LET stop[off \in 0..Len(cms)] ==
            IF IsTlvAt(cms, off) /\ cms[off + 1] # tag THEN stop[EndAt(cms, off)] ELSE off
        places == {i \in OidOffsets(cms, oid) : stop[i + 2 + Len(oid)] # Len(cms)}
        at == stop[First(places) + 2 + Len(oid)]
    IN  IF places = {} \/ ~IsTlvAt(cms, at) THEN <<>> ELSE <<ContentAt(cms, at)>>

\* Any offset at which an OCTET STRING of that length could begin.
OctetStrings(cms, wanted_len) ==
    {off \in 0..(Len(cms) - 1) :
        cms[off + 1] = 4 /\ IsTlvAt(cms, off) /\ ContentLen(cms, off) = wanted_len}

cms_find_octet_string_by_len(cms, wanted_len) ==
    LET places == OctetStrings(cms, wanted_len)
    IN  IF places = {} THEN <<>> ELSE <<ContentAt(cms, First(places))>>

=============================================================================
