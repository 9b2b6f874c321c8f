----------------------------- MODULE EstClient -----------------------------
(***************************************************************************)
(* The firmware above the transport: the four steps of main.c and          *)
(* est_https_request of est_client.c, which handles one request from       *)
(* connect to cleanup.                                                     *)
(***************************************************************************)
EXTENDS EstMessage, CsrGen, CertScan

CONSTANTS
    EST_HTTP_RESPONSE_MAX,  \* size of g_http_response_buf
    EST_RX_CHUNK_SIZE,      \* size of rx_chunk
    CommonName,             \* EST_DEVICE_COMMON_NAME
    KeyLen,                 \* bytes of an ML-DSA public key
    SignatureLen,           \* bytes of an ML-DSA signature
    MaxBoots                \* bound: times the board is started

ASSUME ClientAssumption ==
    /\ EST_HTTP_RESPONSE_MAX \in Nat /\ EST_RX_CHUNK_SIZE \in Nat \ {0}
    /\ CommonName \in Seq(0..255) /\ KeyLen \in Nat \ {0} /\ SignatureLen \in Nat \ {0}
    /\ MaxBoots \in 1..255

\* The CSR is shorter than 2^16 bytes, as in CsrGen.
ASSUME LengthAssumption == Len(CommonName) + KeyLen + SignatureLen + 128 < 256 * 256

VARIABLES
    aps,        \* EST_APS_ID of the profile the firmware is built for
    boots,      \* times the board has been started
    step,       \* the step of main
    phase,      \* where est_https_request is, "idle" outside
    conn,       \* the connection it uses, 0 before the first
    ret,        \* what it returned: TRUE for 0
    resp,       \* g_http_response_buf[0 .. resp_len)
    body,       \* [step -> Seq]: g_cacerts_buf and g_enroll_buf up to their length
    csr,        \* g_csr_der
    printed     \* the certificate in print_raw_certificate_pem, <<>> for none

clientVars == <<aps, boots, step, phase, conn, ret, resp, body, csr, printed>>

Step  == {"cacerts", "csr", "enroll", "extract", "selftest", "finished", "halted"}
Phase == {"idle", "connect", "handshake", "headers", "body", "read", "parse", "cleanup"}

ClientTypeOK ==
    /\ aps \in {EST_RA, DMS} /\ boots \in 1..MaxBoots /\ ret \in BOOLEAN
    /\ step \in Step /\ phase \in Phase
    /\ phase # "idle" => step \in {"cacerts", "enroll"}
    /\ Len(resp) <= EST_HTTP_RESPONSE_MAX
    /\ \A s \in {"cacerts", "enroll"} : Len(body[s]) <= EST_HTTP_RESPONSE_MAX
    /\ printed # <<>> => step \in {"selftest", "finished"}

ClientInit ==
    /\ aps \in {EST_RA, DMS} /\ boots = 1 /\ step = "cacerts" /\ phase = "idle" /\ conn = 0
    /\ ret = FALSE /\ resp = <<>>
    /\ body = [s \in {"cacerts", "enroll"} |-> <<>>] /\ csr = <<>> /\ printed = <<>>

Enter(p) == phase' = p
Return(ok) == ret' = ok /\ Enter("cleanup")

-----------------------------------------------------------------------------
\* Mutant of StartRequest: resp_len keeps its value.
StartRequest_keep ==
    /\ phase = "idle" /\ step \in {"cacerts", "enroll"}
    /\ body' = [body EXCEPT ![step] = <<>>]
    /\ Enter("connect")
    /\ UNCHANGED <<aps, boots, step, conn, ret, resp, csr, printed>>

\* est_client_get_cacerts, est_client_simpleenroll: up to tls_port_connect.
StartRequest ==
    /\ phase = "idle" /\ step \in {"cacerts", "enroll"}
    /\ body' = [body EXCEPT ![step] = <<>>] /\ resp' = <<>>
    /\ Enter("connect")
    /\ UNCHANGED <<aps, boots, step, conn, ret, csr, printed>>

\* PSA, a PEM, the TLS setup, the transport or a TLS record is not in order.
RequestFails ==
    /\ phase \in {"connect", "handshake", "headers", "body", "read"}
    /\ Return(FALSE)
    /\ UNCHANGED <<aps, boots, step, conn, resp, body, csr, printed>>

Connected(c) ==
    /\ phase = "connect" /\ conn' = c /\ Enter("handshake")
    /\ UNCHANGED <<aps, boots, step, ret, resp, body, csr, printed>>

HandshakeDone ==
    /\ phase = "handshake" /\ Enter("headers")
    /\ UNCHANGED <<aps, boots, step, conn, ret, resp, body, csr, printed>>

\* The base64 text of the CSR, and the request headers that announce it.
CsrText == Base64(csr)
Headers == IF step = "cacerts" THEN Request("GET", aps, 0)
           ELSE Request("POST", aps, Len(CsrText))

SendHeaders ==
    /\ phase = "headers"
    /\ Enter(IF step = "cacerts" THEN "read" ELSE "body")
    /\ UNCHANGED <<aps, boots, step, conn, ret, resp, body, csr, printed>>

SendBody ==
    /\ phase = "body" /\ Enter("read")
    /\ UNCHANGED <<aps, boots, step, conn, ret, resp, body, csr, printed>>

\* Mutant of ReadChunk: the size is not checked.
ReadChunk_unchecked(data) ==
    /\ phase = "read"
    /\ resp' = resp \o data
    /\ UNCHANGED <<aps, boots, step, phase, conn, ret, body, csr, printed>>

\* mbedtls_ssl_read returned data; "response too large" ends the request.
ReadChunk(data) ==
    /\ phase = "read"
    /\ IF Len(resp) + Len(data) > EST_HTTP_RESPONSE_MAX
       THEN Return(FALSE) /\ UNCHANGED resp
       ELSE resp' = resp \o data /\ UNCHANGED <<phase, ret>>
    /\ UNCHANGED <<aps, boots, step, conn, body, csr, printed>>

\* The end of the connection is the end of the response, with or without a
\* close_notify before it.
ReadEnd ==
    /\ phase = "read" /\ Enter("parse")
    /\ UNCHANGED <<aps, boots, step, conn, ret, resp, body, csr, printed>>

\* find_header_body_split: position of the blank line, 0 when there is none.
find_header_body_split(buf) == SelectInSeq(buf, LAMBDA s : s = Split)

\* parse_http_status_code looks at the first line.
parse_http_status_code(buf) == buf[1].val

IsSuccess(buf) ==
    /\ buf # <<>> /\ find_header_body_split(buf) # 0
    /\ parse_http_status_code(buf) \in 200..299

ParseResponse ==
    /\ phase = "parse"
    /\ Return(IsSuccess(resp))
    /\ body' = IF IsSuccess(resp)
               THEN [body EXCEPT ![step] = From(resp, find_header_body_split(resp) + 1)]
               ELSE body
    /\ UNCHANGED <<aps, boots, step, conn, resp, csr, printed>>

\* tls_port_close; main goes on, whatever the result.
Cleanup ==
    /\ phase = "cleanup" /\ Enter("idle")
    /\ step' = IF step = "cacerts" THEN "csr" ELSE IF ret THEN "extract" ELSE "selftest"
    /\ UNCHANGED <<aps, boots, conn, ret, resp, body, csr, printed>>

-----------------------------------------------------------------------------
\* The key pair and the signature of this boot.
Key       == [i \in 1..KeyLen |-> boots]
Signature == [i \in 1..SignatureLen |-> boots]

BuildCsr ==
    /\ step = "csr"
    /\ csr' = csr_assemble(csr_build_certification_request_info(CommonName, Key), Signature)
    /\ step' = "enroll"
    /\ UNCHANGED <<aps, boots, phase, conn, ret, resp, body, printed>>

\* Each failure of STEP 2 is final.
CsrFails ==
    /\ step = "csr" /\ step' = "halted"
    /\ UNCHANGED <<aps, boots, phase, conn, ret, resp, body, csr, printed>>

\* print_certificate_from_est_body
Extract ==
    /\ step = "extract"
    /\ LET text == Compact(body["enroll"])
       IN  printed' = IF /\ text # <<>> /\ Len(text) <= DER_DECODE_BUF_SIZE
                         /\ Decodes(text)
                      THEN find_first_der_certificate(Decoded(text)) ELSE <<>>
    /\ step' = "selftest"
    /\ UNCHANGED <<aps, boots, phase, conn, ret, resp, body, csr>>

SelfTest ==
    /\ step = "selftest" /\ step' = "finished"
    /\ UNCHANGED <<aps, boots, phase, conn, ret, resp, body, csr, printed>>

\* A reset: RAM is cleared, the connection is the proxy's and stays.
Reset ==
    /\ boots < MaxBoots /\ boots' = boots + 1
    /\ step' = "cacerts" /\ phase' = "idle" /\ ret' = FALSE /\ resp' = <<>>
    /\ body' = [s \in {"cacerts", "enroll"} |-> <<>>] /\ csr' = <<>> /\ printed' = <<>>
    /\ UNCHANGED <<aps, conn>>

MainStep == BuildCsr \/ Extract \/ SelfTest

=============================================================================
