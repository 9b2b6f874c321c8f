------------------------------ MODULE AdhocRa ------------------------------
(***************************************************************************)
(* The server of EST_Python/adhoc_ra/adhoc_est_ra.py: a                    *)
(* ThreadingHTTPServer whose listening socket is wrapped by TLS, so that   *)
(* the accepting thread also does the handshake, and one thread for each   *)
(* accepted connection.                                                    *)
(***************************************************************************)
EXTENDS RaDer, EstMessage

CONSTANTS
    MaxConns,       \* bound: TCP connections to the RA
    CacertsDer      \* cacerts_body before base64

ASSUME RaAssumption == MaxConns \in Nat /\ CacertsDer \in Seq(0..255)

VARIABLES
    link,       \* [Conn -> LinkState]: the TCP connection
    c2s, s2c,   \* what has been sent on a connection and not been read
    shut,       \* connections the RA has closed its side of
    accepting,  \* the connection whose handshake the accepting thread does, or 0
    serial,     \* self._serial
    th,         \* [Conn -> ThreadPc]: the thread of a connection
    csr_der, mine, cert_der     \* [Conn -> ...]: local variables of do_POST

connVars == <<link, c2s, s2c, shut>>
raVars   == <<accepting, serial, th, csr_der, mine, cert_der>>

Conn == 1..MaxConns
LinkState == {"none", "tcp", "tls", "cut"}
ThreadPc  == {"none", "request", "serial", "increment", "build", "write", "done"}

RaTypeOK ==
    /\ link \in [Conn -> LinkState] /\ shut \subseteq Conn
    /\ \A c \in Conn : link[c] = "none" => c2s[c] = <<>> /\ s2c[c] = <<>> /\ th[c] = "none"
    /\ accepting \in 0..MaxConns /\ serial \in 1..(MaxConns + 1)
    /\ th \in [Conn -> ThreadPc] /\ mine \in [Conn -> 0..MaxConns]
    /\ \A c \in Conn : cert_der[c] # <<>> => csr_der[c] # <<>> /\ mine[c] > 0

RaInit ==
    /\ link = [c \in Conn |-> "none"] /\ shut = {}
    /\ c2s = [c \in Conn |-> <<>>] /\ s2c = [c \in Conn |-> <<>>]
    /\ accepting = 0 /\ serial = 1
    /\ th = [c \in Conn |-> "none"] /\ mine = [c \in Conn |-> 0]
    /\ csr_der = [c \in Conn |-> <<>>] /\ cert_der = [c \in Conn |-> <<>>]

-----------------------------------------------------------------------------
\* The accepting thread takes the oldest connection and waits for a ClientHello.
Accept(c) ==
    /\ accepting = 0 /\ link[c] # "none" /\ th[c] = "none" /\ c \notin shut
    /\ \A d \in Conn : d < c => th[d] # "none" \/ d \in shut
    /\ accepting' = c
    /\ UNCHANGED <<connVars, serial, th, csr_der, mine, cert_der>>

\* get_request raised an OSError: the connection is gone.
AcceptFails ==
    /\ accepting # 0 /\ link[accepting] = "cut"
    /\ accepting' = 0 /\ shut' = shut \union {accepting}
    /\ UNCHANGED <<link, c2s, s2c, serial, th, csr_der, mine, cert_der>>

\* The handshake is done, process_request starts a thread.
Accepted(c) ==
    /\ accepting = c /\ link[c] = "tcp"
    /\ accepting' = 0
    /\ link' = [link EXCEPT ![c] = "tls"]
    /\ th' = [th EXCEPT ![c] = "request"]
    /\ UNCHANGED <<c2s, s2c, shut, serial, csr_der, mine, cert_der>>

-----------------------------------------------------------------------------
Ended(c) == link[c] = "cut"

Continue(c, l) == th' = [th EXCEPT ![c] = l]

\* The thread writes; on a connection that is gone nothing arrives.
Respond(c, symbols) ==
    s2c' = IF link[c] = "tls" THEN [s2c EXCEPT ![c] = @ \o symbols] ELSE s2c

\* The thread ends, and HTTP/1.0 closes the connection: a TCP shutdown, without
\* a TLS close_notify.
Finish(c) == Continue(c, "done") /\ shut' = shut \union {c}

RequestLost(c) ==
    /\ th[c] = "request" /\ c2s[c] = <<>> /\ Ended(c)
    /\ Finish(c)
    /\ UNCHANGED <<link, c2s, s2c, accepting, serial, csr_der, mine, cert_der>>

NotFound(c) ==
    /\ th[c] = "request" /\ c2s[c] # <<>> /\ Head(c2s[c]).bytes # EST_RA
    /\ Respond(c, <<Status(404), Split, Html>>) /\ Finish(c)
    /\ UNCHANGED <<link, c2s, accepting, serial, csr_der, mine, cert_der>>

do_GET(c) ==
    /\ th[c] = "request" /\ c2s[c] # <<>> /\ Head(c2s[c]) = Request("GET", EST_RA, 0)
    /\ Respond(c, <<Status(200), Split>>) /\ Continue(c, "write")
    /\ UNCHANGED <<link, c2s, shut, accepting, serial, csr_der, mine, cert_der>>

\* do_POST: rfile.read(content_length) waits for the whole body, or the end.
BodyRead(c) ==
    /\ th[c] = "request" /\ c2s[c] # <<>>
    /\ Head(c2s[c]).kind = "POST" /\ Head(c2s[c]).bytes = EST_RA
    /\ Len(c2s[c]) - 1 >= Head(c2s[c]).val \/ Ended(c)

\* b64decode raises outside the try block: the thread dies without an answer.
DecodeRaises(c) ==
    /\ BodyRead(c) /\ ~Decodes(Compact(Tail(c2s[c])))
    /\ Finish(c)
    /\ UNCHANGED <<link, c2s, s2c, accepting, serial, csr_der, mine, cert_der>>

Decode(c) ==
    /\ BodyRead(c) /\ Decodes(Compact(Tail(c2s[c])))
    /\ csr_der' = [csr_der EXCEPT ![c] = Decoded(Compact(Tail(c2s[c])))]
    /\ c2s' = [c2s EXCEPT ![c] = <<>>]
    /\ Continue(c, "serial")
    /\ UNCHANGED <<link, s2c, shut, accepting, serial, mine, cert_der>>

\* next_serial takes no lock: another thread may run between its statements.
NextSerial(c) ==
    /\ th[c] = "serial"
    /\ mine' = [mine EXCEPT ![c] = serial] /\ Continue(c, "increment")
    /\ UNCHANGED <<connVars, accepting, serial, csr_der, cert_der>>

Increment(c) ==
    /\ th[c] = "increment"
    /\ serial' = serial + 1 /\ Continue(c, "build")
    /\ UNCHANGED <<connVars, accepting, csr_der, mine, cert_der>>

\* The serial is spent although the CSR is refused.
Refuse(c) ==
    /\ th[c] = "build" /\ ~IsCsr(csr_der[c])
    /\ Respond(c, <<Status(400), Split, Html>>) /\ Finish(c)
    /\ UNCHANGED <<link, c2s, accepting, serial, csr_der, mine, cert_der>>

Issue(c) ==
    /\ th[c] = "build" /\ IsCsr(csr_der[c])
    /\ cert_der' = [cert_der EXCEPT ![c] = build_mldsa44_certificate(csr_der[c], mine[c])]
    /\ Respond(c, <<Status(200), Split>>) /\ Continue(c, "write")
    /\ UNCHANGED <<link, c2s, shut, accepting, serial, csr_der, mine>>

\* send_est_pkcs7: wfile.write(body)
WriteBody(c) ==
    /\ th[c] = "write"
    /\ Respond(c, LineBreaks(Base64(IF cert_der[c] = <<>> THEN CacertsDer
                                    ELSE cert_der_to_pkcs7(cert_der[c]))))
    /\ Finish(c)
    /\ UNCHANGED <<link, c2s, accepting, serial, csr_der, mine, cert_der>>

ThreadStep(c) ==
    \/ RequestLost(c) \/ NotFound(c) \/ do_GET(c)
    \/ DecodeRaises(c) \/ Decode(c) \/ NextSerial(c) \/ Increment(c)
    \/ Refuse(c) \/ Issue(c) \/ WriteBody(c)

RaStep == AcceptFails \/ \E c \in Conn : Accept(c) \/ ThreadStep(c)

=============================================================================
