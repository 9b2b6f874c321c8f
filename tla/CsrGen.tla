------------------------------- MODULE CsrGen -------------------------------
(***************************************************************************)
(* Core/EST/csr_gen.c: the PKCS#10 request, written backwards from the end *)
(* of a buffer.  A der_write_ operator returns the bytes in front of p;    *)
(* what the code writes before it stands after it.                         *)
(***************************************************************************)
EXTENDS Naturals, Sequences

OID_MLDSA_44    == <<96, 134, 72, 1, 101, 3, 4, 3, 17>>
OID_COMMON_NAME == <<85, 4, 3>>

\* Mutant of der_write_len: the short form up to 128.
der_write_len_128(len) ==
    IF len <= 128 THEN <<len>>
    ELSE IF len <= 255 THEN <<129, len>>
    ELSE <<130, len \div 256, len % 256>>

\* DER: the short form below 128, then as few octets as the length needs.
\* Lengths up to 2^16 are modelled; the code goes on to 2^32.
der_write_len(len) ==
    IF len < 128 THEN <<len>>
    ELSE IF len <= 255 THEN <<129, len>>
    ELSE <<130, len \div 256, len % 256>>

der_wrap(tag, content) == <<tag>> \o der_write_len(Len(content)) \o content

der_write_integer_zero == der_wrap(2, <<0>>)
der_write_oid(oid)     == der_wrap(6, oid)
der_write_utf8_string(s) == der_wrap(12, s)

\* Mutant of der_write_bit_string: the unused-bits octet is not counted.
der_write_bit_string_short(buf) == <<3>> \o der_write_len(Len(buf)) \o <<0>> \o buf

\* The unused-bits octet is counted in the length.
der_write_bit_string(buf) == der_wrap(3, <<0>> \o buf)

der_write_algorithm_identifier == der_wrap(48, der_write_oid(OID_MLDSA_44))

der_write_subject(common_name) ==
    der_wrap(48, der_wrap(49,
        der_wrap(48, der_write_oid(OID_COMMON_NAME) \o der_write_utf8_string(common_name))))

der_write_subject_public_key_info(pubkey) ==
    der_wrap(48, der_write_algorithm_identifier \o der_write_bit_string(pubkey))

der_write_empty_attributes == der_wrap(160, <<>>)

csr_build_certification_request_info(common_name, pubkey) ==
    der_wrap(48, der_write_integer_zero \o der_write_subject(common_name)
                    \o der_write_subject_public_key_info(pubkey)
                    \o der_write_empty_attributes)

\* Mutant of CSR_CRI_BUF_SIZE: as long as the public key it is for.
CSR_CRI_BUF_SIZE_key == 1312

\* The buffers main gives the writers, which take their size for granted.
CSR_CRI_BUF_SIZE == 2048
CSR_DER_BUF_SIZE == 4096

csr_assemble(cri, signature) ==
    der_wrap(48, cri \o der_write_algorithm_identifier \o der_write_bit_string(signature))

\* The same in one go; main does not use it.
csr_generate(common_name, pubkey, signature) ==
    der_wrap(48, csr_build_certification_request_info(common_name, pubkey)
                    \o der_write_algorithm_identifier \o der_write_bit_string(signature))

=============================================================================
