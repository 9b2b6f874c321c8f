---------------------------- MODULE CmsSelfTest ----------------------------
(***************************************************************************)
(* cms_pqc_self_test: the two self-tests of cms_pqc.c, one after the       *)
(* other.  Each ends at the first step that fails.                         *)
(***************************************************************************)
EXTENDS CmsPqc

VARIABLES
    pc,         \* the next step
    lens,       \* CMS_PQC_MLDSA44_SIG_LEN and the other lengths of this build
    cms,        \* g_cms_buf up to cms_len
    sig, ct, encrypted,     \* parsed_sig, parsed_ct, parsed_encrypted: <<>> or <<bytes>>
    key,        \* what g_aes_key and g_aes_nonce are derived from
    broken      \* a primitive has failed

vars == <<pc, lens, cms, sig, ct, encrypted, key, broken>>

Bytes(n) == [i \in 1..n |-> Filling[1 + (i % Len(Filling))]]
g_mldsa_sig == Bytes(lens.sig)
g_kem_ct    == Bytes(lens.ct)
Letters(n, first) == [i \in 1..n |-> first + ((i - 1) % 26)]
Plaintext(first) == Letters(lens.plain, first)
Nonce == [i \in 1..12 |-> 4]

\* The secret crypto_kem_dec makes of a ciphertext: the originator's only for the
\* one ciphertext it was sent in.
Secret(c) == IF c = g_kem_ct THEN "originator" ELSE "rejected"

\* cms_pqc_derive_aes_material
Material(ss, c) == <<ss, c>>

\* cms_pqc_aes_gcm_encrypt: ciphertext and tag.
g_encrypted == Bytes(lens.plain + TagLen)

Init ==
    /\ lens \in Builds /\ pc = "sign" /\ broken = FALSE
    /\ cms = <<>> /\ sig = <<>> /\ ct = <<>> /\ encrypted = <<>> /\ key = <<>>

Fail == pc' = "failed"

\* Key generation, signing, encapsulation, the AES calls: ret # 0.
PrimitiveFails ==
    /\ pc \in {"sign", "encapsulate", "encrypt", "decapsulate", "decrypt"}
    /\ Fail /\ broken' = TRUE
    /\ UNCHANGED <<lens, cms, sig, ct, encrypted, key>>

Sign == pc = "sign" /\ pc' = "build_signed" /\ UNCHANGED <<lens, cms, sig, ct, encrypted, key, broken>>

Build(w, next) ==
    /\ IF w.ok THEN cms' = w.buf /\ pc' = next ELSE Fail /\ UNCHANGED cms
    /\ UNCHANGED <<lens, sig, ct, encrypted, key, broken>>

BuildSigned ==
    /\ pc = "build_signed"
    /\ Build(cms_pqc_build_signed_data(Plaintext(97), g_mldsa_sig, lens.size), "find_signature")

FindSignature ==
    /\ pc = "find_signature"
    /\ sig' = cms_find_octet_string_by_len(cms, lens.sig)
    /\ IF sig' = <<>> THEN Fail ELSE pc' = "verify"
    /\ UNCHANGED <<lens, cms, ct, encrypted, key, broken>>

Verify ==
    /\ pc = "verify"
    /\ IF sig = <<g_mldsa_sig>> THEN pc' = "encapsulate" ELSE Fail
    /\ UNCHANGED <<lens, cms, sig, ct, encrypted, key, broken>>

\* Key pair, encapsulation and key derivation of the originator.
Encapsulate ==
    /\ pc = "encapsulate" /\ pc' = "encrypt"
    /\ key' = Material("originator", g_kem_ct)
    /\ UNCHANGED <<lens, cms, sig, ct, encrypted, broken>>

\* The content is encrypted, and the parameters of the algorithm encoded.
Encrypt ==
    /\ pc = "encrypt"
    /\ IF cms_pqc_write_aes_gcm_params(Nonce).ok THEN pc' = "build_enveloped" ELSE Fail
    /\ UNCHANGED <<lens, cms, sig, ct, encrypted, key, broken>>

BuildEnveloped ==
    /\ pc = "build_enveloped"
    /\ Build(cms_pqc_build_enveloped_data(g_kem_ct, g_encrypted,
                 cms_pqc_write_aes_gcm_params(Nonce).buf, lens.size), "find_ciphertext")

FindCiphertext ==
    /\ pc = "find_ciphertext"
    /\ ct' = cms_find_tlv_after_oid(cms, OID_MLKEM512, 4)
    /\ IF ct' = <<>> \/ Len(ct'[1]) # lens.ct THEN Fail ELSE pc' = "find_content"
    /\ UNCHANGED <<lens, cms, sig, encrypted, key, broken>>

FindContent ==
    /\ pc = "find_content"
    /\ encrypted' = cms_find_tlv_after_oid(cms, OID_AES128_GCM, 128)
    /\ IF encrypted' = <<>> \/ Len(encrypted'[1]) # lens.plain + TagLen
       THEN Fail ELSE pc' = "decapsulate"
    /\ UNCHANGED <<lens, cms, sig, ct, key, broken>>

\* Decapsulation, the comparison of the secrets, the recipient's key derivation.
Decapsulate ==
    /\ pc = "decapsulate"
    /\ IF Secret(ct[1]) = "originator"
       THEN pc' = "decrypt" /\ key' = Material("originator", ct[1])
       ELSE Fail /\ UNCHANGED key
    /\ UNCHANGED <<lens, cms, sig, ct, encrypted, broken>>

Decrypt ==
    /\ pc = "decrypt"
    /\ IF encrypted[1] = g_encrypted /\ key = Material("originator", g_kem_ct)
       THEN pc' = "passed" ELSE Fail
    /\ UNCHANGED <<lens, cms, sig, ct, encrypted, key, broken>>

Next ==
    \/ PrimitiveFails \/ Sign \/ BuildSigned \/ FindSignature \/ Verify
    \/ Encapsulate \/ Encrypt \/ BuildEnveloped \/ FindCiphertext \/ FindContent
    \/ Decapsulate \/ Decrypt

Spec == Init /\ [][Next]_vars

-----------------------------------------------------------------------------
(* The reference: DER as it is defined, from the inside out, where a length  *)
(* is the length of what there is.                                           *)
Tlv(tag, content) == <<tag>> \o LenField(Len(content)) \o content
Alg(oid) == Tlv(48, Tlv(6, oid))

SignedOf(content, signature) ==
    Tlv(48, Tlv(6, OID_CMS_SIGNED_DATA) \o Tlv(160, Tlv(48,
        Tlv(2, <<1>>) \o Tlv(49, Alg(OID_MLDSA44))
        \o Tlv(48, Tlv(6, OID_CMS_DATA) \o Tlv(160, Tlv(4, content)))
        \o Tlv(49, Tlv(48, Tlv(2, <<1>>) \o Tlv(128, <<>>) \o Alg(OID_MLDSA44)
                               \o Alg(OID_MLDSA44) \o Tlv(4, signature))))))

ParamsOf(nonce) == Tlv(48, Tlv(4, nonce) \o Tlv(2, <<TagLen>>))

EnvelopedOf(kem_ct, encrypted_content, params) ==
    LET kemri == Tlv(48, Tlv(2, <<0>>) \o Tlv(128, <<>>) \o Alg(OID_MLKEM512)
                     \o Tlv(4, kem_ct) \o Alg(OID_HKDF_SHA256) \o Tlv(2, <<16>>)
                     \o Alg(OID_AES128_WRAP) \o Tlv(4, <<>>))
    IN  Tlv(48, Tlv(6, OID_CMS_ENVELOPED_DATA) \o Tlv(160, Tlv(48,
            Tlv(2, <<2>>) \o Tlv(49, Tlv(164, Tlv(6, OID_ORI_KEM) \o kemri))
            \o Tlv(48, Tlv(6, OID_CMS_DATA) \o Tlv(48, Tlv(6, OID_AES128_GCM) \o params)
                           \o Tlv(128, encrypted_content)))))

SignedDer    == SignedOf(Plaintext(97), g_mldsa_sig)
EnvelopedDer == EnvelopedOf(g_kem_ct, g_encrypted, ParamsOf(Nonce))

\* What is written is the DER of the CMS structure: each of the lengths that are
\* computed beforehand, level by level, is the length of what is then written.
CmsIsDer ==
    /\ pc = "find_signature" => cms = SignedDer
    /\ pc = "find_ciphertext" => cms = EnvelopedDer

\* The self-tests fail only if a primitive fails or a message does not fit into
\* g_cms_buf: whatever the lengths, the searches find the signature, the KEM
\* ciphertext and the encrypted content, and not something that looks like them.
FailsForAReason ==
    pc = "failed" => broken \/ Len(SignedDer) > lens.size \/ Len(EnvelopedDer) > lens.size

\* What the searches rely on: no second place looks like the one they look for.
AtMostOne(offsets) == \A i \in offsets, j \in offsets : i = j
NothingLooksAlike ==
    \A build \in Builds :
        LET signed    == SignedOf(Letters(build.plain, 97), Bytes(build.sig))
            enveloped == EnvelopedOf(Bytes(build.ct), Bytes(build.plain + TagLen), ParamsOf(Nonce))
        IN  /\ AtMostOne(OctetStrings(signed, build.sig))
            /\ AtMostOne(OidOffsets(enveloped, OID_MLKEM512))
            /\ AtMostOne(OidOffsets(enveloped, OID_AES128_GCM))

=============================================================================
