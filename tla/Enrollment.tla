----------------------------- MODULE Enrollment -----------------------------
(***************************************************************************)
(* The EST client and the ad-hoc RA, joined by TLS connections over the    *)
(* proxy.  What Transport establishes is taken for granted here: on a      *)
(* connection each side reads a prefix of what the other has sent.         *)
(***************************************************************************)
EXTENDS EstClient, AdhocRa

CONSTANT CutGrain   \* bound: a stream is cut at multiples of CutGrain symbols

ASSUME CutAssumption == CutGrain \in Nat \ {0}

vars == <<clientVars, connVars, raVars>>

Init == ClientInit /\ RaInit

-----------------------------------------------------------------------------
\* Mutant of DropOld: the old connection stays open.
DropOld_keep(l) == l

\* handle_connect_command closes the active connection before it opens one.
DropOld(l) == [c \in Conn |-> IF l[c] = "none" THEN "none" ELSE "cut"]

Connect ==
    /\ conn < MaxConns
    /\ Connected(conn + 1)
    /\ link' = [DropOld(link) EXCEPT ![conn + 1] = "tcp"]
    /\ UNCHANGED <<c2s, s2c, shut, raVars>>

\* The proxy answers ERR; the old connection is gone all the same.
Refused ==
    /\ phase = "connect"
    /\ RequestFails
    /\ link' = DropOld(link)
    /\ UNCHANGED <<c2s, s2c, shut, raVars>>

Handshake == HandshakeDone /\ Accepted(conn) /\ UNCHANGED <<c2s, s2c, shut>>

\* The client reads the end of the connection in its handshake.
HandshakeEnds ==
    /\ phase = "handshake" /\ link[conn] = "cut"
    /\ RequestFails
    /\ UNCHANGED <<connVars, raVars>>

\* tls_port_send does not notice that the proxy has no connection any more.
Transmit(symbols) ==
    /\ c2s' = IF link[conn] = "tls" /\ conn \notin shut
              THEN [c2s EXCEPT ![conn] = @ \o symbols] ELSE c2s
    /\ UNCHANGED <<link, s2c, shut, raVars>>

Send ==
    \/ SendHeaders /\ Transmit(<<Headers>>)
    \/ SendBody /\ Transmit(CsrText)

Read ==
    LET n == IF Len(s2c[conn]) < EST_RX_CHUNK_SIZE THEN Len(s2c[conn]) ELSE EST_RX_CHUNK_SIZE
    IN  /\ phase = "read" /\ s2c[conn] # <<>>
        /\ ReadChunk(SubSeq(s2c[conn], 1, n))
        /\ s2c' = [s2c EXCEPT ![conn] = From(@, n + 1)]
        /\ UNCHANGED <<link, c2s, shut, raVars>>

ReadEof ==
    /\ phase = "read" /\ s2c[conn] = <<>> /\ (conn \in shut \/ link[conn] = "cut")
    /\ ReadEnd
    /\ UNCHANGED <<connVars, raVars>>

\* The connection breaks: of what is under way a prefix arrives.
Cut(c) ==
    /\ link[c] \in {"tcp", "tls"}
    /\ link' = [link EXCEPT ![c] = "cut"]
    /\ \E n \in 0..Len(c2s[c]), m \in 0..Len(s2c[c]) :
          /\ (n % CutGrain = 0 \/ n = Len(c2s[c])) /\ (m % CutGrain = 0 \/ m = Len(s2c[c]))
          /\ c2s' = [c2s EXCEPT ![c] = SubSeq(@, 1, n)]
          /\ s2c' = [s2c EXCEPT ![c] = SubSeq(@, 1, m)]
    /\ UNCHANGED <<shut, clientVars, raVars>>

-----------------------------------------------------------------------------
ClientStep ==
    \/ Connect \/ Refused \/ Handshake \/ HandshakeEnds \/ Send \/ Read \/ ReadEof
    \/ (StartRequest \/ ParseResponse \/ Cleanup \/ MainStep) /\ UNCHANGED <<connVars, raVars>>

\* The program may give up where it checks a result, but it need not.
ClientFails == (RequestFails \/ CsrFails) /\ UNCHANGED <<connVars, raVars>>

Finished == step \in {"finished", "halted"} /\ UNCHANGED vars

Next ==
    \/ ClientStep \/ ClientFails
    \/ Reset /\ UNCHANGED <<connVars, raVars>>
    \/ RaStep /\ UNCHANGED clientVars
    \/ \E c \in Conn : Cut(c)
    \/ Finished

Spec == Init /\ [][Next]_vars

-----------------------------------------------------------------------------
\* Every variable has its type, and no response outgrows its buffer.
TypeOK == ClientTypeOK /\ RaTypeOK /\ conn \in 0..MaxConns

\* What BuildCsr makes when the board has been started b times.
CsrOf(b) == csr_assemble(csr_build_certification_request_info(CommonName,
                             [i \in 1..KeyLen |-> b]), [i \in 1..SignatureLen |-> b])

\* What it takes for the next property: main can decode every response, and in none
\* do the octets of a name, a key or a signature spell a second certificate.
FieldsHoldNoCertificate ==
    \A b \in 1..MaxBoots, n \in 1..MaxConns :
        IsCsr(CsrOf(b)) =>
            LET der == cert_der_to_pkcs7(build_mldsa44_certificate(CsrOf(b), n))
            IN  Len(der) <= DER_DECODE_BUF_SIZE /\ OneCertificate(der)

\* A certificate that is printed is one the RA issued, whole, for the CSR of this
\* boot: est_https_request takes any end of the connection for the end of the
\* response, and ignores Content-Length, so only the DER scan stands between a
\* response that was cut anywhere and a certificate that is not one.
PrintedIsIssued ==
    printed # <<>> =>
        \E c \in Conn : printed = cert_der[c] /\ csr_der[c] = csr

\* When est_client_simpleenroll returns 0, the RA has issued a certificate for
\* this very CSR on this connection: no answer to another request, of another
\* boot or left in the response buffer, is taken for it.
EnrollOkIsIssued ==
    step = "extract" => cert_der[conn] # <<>> /\ csr_der[conn] = csr

\* The board never reads a 400: what csr_gen.c writes the RA's parser accepts,
\* for every length field, and a CSR that was cut on its way is answered, if at
\* all, on a connection nobody reads any more.
NeverRefused ==
    \A i \in DOMAIN resp : resp[i] # Status(400)

\* The RA issues certificates only for what a board has signed, whole: a prefix
\* of a CSR that happens to end between two base64 groups gets none.
IssuedForWhole ==
    \A c \in Conn : cert_der[c] # <<>> => \E b \in 1..boots : csr_der[c] = CsrOf(b)

\* The board never waits for an RA that waits for the board, or for somebody who
\* will not come: the RA does the handshake of a connection in the one thread
\* that accepts, so a client that went away in its middle would hold up all
\* others, were it not for the proxy, which closes the old connection before it
\* opens the next; and it answers a POST only when it has read as much as
\* Content-Length said.
NobodyWaitsForEver ==
    /\ phase = "handshake" /\ link[conn] # "cut" =>
          accepting \in {0, conn} \/ link[accepting] = "cut"
    /\ phase = "read" /\ link[conn] # "cut" /\ conn \notin shut /\ s2c[conn] = <<>> =>
          \/ th[conn] # "request"
          \/ c2s[conn] # <<>> /\ Len(c2s[conn]) > Head(c2s[conn]).val

=============================================================================
