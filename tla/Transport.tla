----------------------------- MODULE Transport -----------------------------
(***************************************************************************)
(* The firmware's transport and the proxy joined by the UART link.         *)
(***************************************************************************)
EXTENDS TlsPort, EstProxy

vars == <<linkVars, portVars, proxyVars>>

Init ==
    /\ up = <<>> /\ down = <<>> /\ rdr = <<>>
    /\ PortInit /\ ProxyInit

\* The response is complete: close_notify, or all the peer had to say.
ResponseRead == attempt > 0 /\ Len(rcvd[attempt]) >= Len(ServerStream[attempt])

\* est_https_request cleans up after recv has failed, at the end of the
\* response, or early: setting up TLS failed before a byte was sent, or it does
\* not like what it has read.  It never gives up waiting.
ClientCloses ==
    /\ Close
    /\ \/ pc = "closing" \/ ResponseRead
       \/ "early_close" \in Faults /\ (sent[attempt] = 0 \/ rcvd[attempt] # <<>>)

\* What the code above tls_port calls next, and the timeouts.
Caller ==
    \/ StartCommand
    \/ RecvHeader
    \/ \E len \in 1..MaxRead : RecvCopy(len)
    \/ \E n \in 1..ClientLen : Send(n)
    \/ ClientCloses

Timer == LineTimeout \/ RecvWantRead

Wire == Receive \/ (MayOverrun /\ LoseByte)

\* main's final while(1), or the one after a failed certificate fetch.
Finished ==
    /\ pc = "halted" \/ (pc = "closed" /\ (todo = <<>> \/ attempt = MaxAttempts))
    /\ UNCHANGED vars

Next ==
    \/ (PortStep \/ Caller \/ Timer \/ Reboot) /\ UNCHANGED proxyVars
    \/ (ReadUart \/ Serve \/ ReadNet) /\ UNCHANGED portVars
    \/ (\E n \in 0..Len(down) : Restart(n)) /\ UNCHANGED portVars
    \/ Wire /\ UNCHANGED <<portVars, proxyVars>>
    \/ Finished

Spec == Init /\ [][Next]_vars

-----------------------------------------------------------------------------
\* Every variable has its type; in particular the reads of uart_read_exact fit
\* the buffers of tls_port.c, and the proxy is never connected while it serves a
\* command.
TypeOK == LinkTypeOK /\ PortTypeOK /\ ProxyTypeOK

\* Every TCP connection receives exactly the bytes the TLS client sent in the
\* attempt that opened it, from the first one on and with none missing, repeated
\* or taken from another session: handle_uart_frame forwards to whatever socket
\* is open, and nothing in a DATA frame says which session it belongs to.
UplinkInOrder ==
    \A c \in Attempt : \A i \in DOMAIN delivered[c] : delivered[c][i] = <<c, i>>

\* What tls_port_recv returns is, byte for byte, what the TCP peer of this
\* attempt sent: a frame is never cut at the wrong place, taken from the previous
\* connection, or made of a late reply line that recv reads as a header.  (Where
\* sessions are given up early, for streams in which no "OK" and newline stand
\* before what looks like a frame: see Paced in Downlink, and the README.)
DownlinkInOrder ==
    \A c \in Attempt : \A i \in DOMAIN rcvd[c] :
        rcvd[c][i].kind = "data" /\ rcvd[c][i].conn = c /\ rcvd[c][i].pos = i

\* Across a reset, tls_port_connect may take for its reply an OK that the command
\* before it, or one of the boot before, has left on the way; its session then
\* reads the connection that this OK belongs to.  But it reads one connection only,
\* from its first byte on and in order: what the reset has left of the old
\* connection, its data, its EOF, its part of a frame, is never joined to it.
OneConnection ==
    \A c \in Attempt : \E d \in 1..c : \A i \in DOMAIN rcvd[c] :
        rcvd[c][i].kind = "data" /\ rcvd[c][i].conn = d /\ rcvd[c][i].pos = i

\* Even when bytes are lost because they arrive while the firmware is busy, and
\* recv cuts frames at the wrong place, it returns nothing of another attempt's
\* connection: the drain, the reply line and the proxy's silent close keep the
\* sessions apart, not the framing.
NoForeignBytes ==
    \A c \in Attempt : \A i \in DOMAIN rcvd[c] : rcvd[c][i].conn = c

\* A reply that says OK is not turned down: what is left on the line from the
\* previous session, at most the EOF of a connection the server closed after the
\* client had stopped reading, does not spoil the next reply.
OkIsAccepted ==
    pc = "reply" /\ op = "CONNECT" /\ conn = attempt => IsOK(resp)

\* While every reply comes in time and the line loses nothing, recv finds a
\* well-formed frame every time: the only way a session fails below TLS is EOF.
FramesWellFormed == ~(pc = "closing" /\ connected)

\* A certificate that tls_port_fetch_server_cert returns is one the proxy
\* fetched, whole and unmixed with stale replies or frames: the reply line is
\* read with the same reader as a CONNECT reply, and may belong to one.
CertIntact ==
    cert # <<>> =>
        /\ Len(cert) = PemLen
        /\ \A i \in DOMAIN cert :
              cert[i].kind = "data" /\ cert[i].conn = cert[1].conn /\ cert[i].pos = i

-----------------------------------------------------------------------------
\* Why UplinkInOrder holds: an inductive invariant.  Item u can be the next one
\* after n bytes of attempt c: a later command, or the same attempt going on.
Follows(c, n, u) ==
    \/ u.type \in CommandName /\ u.attempt > c /\ u.from = 1 /\ u.upto = 0
    \/ u.type \in {"LOG", "DATA"} /\ u.attempt = c /\ u.from = n + 1
       /\ (u.type = "LOG" => u.upto = n)

\* The items of s follow one another, and a command is later than all before it.
Chain(s) ==
    /\ \A i \in 1..(Len(s) - 1) : Follows(s[i].attempt, s[i].upto, s[i + 1])
    /\ \A i, j \in DOMAIN s :
          i < j /\ s[j].type \in CommandName => s[i].attempt < s[j].attempt

\* What the board has not delivered yet begins after n bytes of attempt c.
Expected(c, n) ==
    IF up = <<>> THEN c = attempt /\ n = sent[c] ELSE Follows(c, n, up[1])

BoardSide ==
    /\ Chain(up)
    /\ up # <<>> => up[Len(up)].attempt = attempt /\ up[Len(up)].upto = sent[attempt]
    /\ \A i \in DOMAIN up : up[i].attempt <= attempt
    /\ \A i \in DOMAIN up : up[i].type \in CommandName =>
          /\ up[i].upto = 0 /\ delivered[up[i].attempt] = <<>>
          /\ conn < up[i].attempt /\ busy.attempt < up[i].attempt
    /\ \A c \in Attempt : c > attempt => sent[c] = 0 /\ delivered[c] = <<>>

HostSide ==
    /\ conn <= attempt /\ busy.attempt <= attempt
    /\ conn # 0 => Expected(conn, Len(delivered[conn]))
    /\ busy # NoCommand => delivered[busy.attempt] = <<>> /\ Expected(busy.attempt, 0)

\* The line holds an unbroken run of the session's bytes, which starts where the
\* open connection, or the one being opened, stands: uart_write_all has no gap
\* and handle_uart_frame forwards, or ignores, in order.
UplinkInv == BoardSide /\ HostSide /\ UplinkInOrder

-----------------------------------------------------------------------------
\* The service the TLS client gets, under the names of SessionStream: bytes are
\* named by the connection and the position they really come from.
Stream == INSTANCE SessionStream WITH
    MaxBytes <- ClientLen + NetChunk + MaxRead,
    session  <- IF connected THEN attempt ELSE 0,
    put      <- [c \in Attempt |-> sent[c]],
    arrived  <- delivered,
    offered  <- fwd,
    taken    <- [c \in Attempt |->
                    [i \in DOMAIN rcvd[c] |-> <<rcvd[c][i].conn, rcvd[c][i].pos>>]]

\* The transport implements two ordered byte streams per session, the peer's
\* strictly after the client's first byte, whatever the proxy's connection and
\* the reply lines went through in between.
StreamSpec == Stream!Spec

-----------------------------------------------------------------------------
\* Fairness: the host runs the proxy's loop and the line moves bytes; the
\* firmware is one thread that never blocks forever, est_https_request calls
\* recv until it fails or the response is complete, and then cleans up.  The
\* TCP peer owes nothing.
Fairness ==
    /\ WF_vars(Receive /\ UNCHANGED <<portVars, proxyVars>>)
    /\ WF_vars(PortStep /\ UNCHANGED proxyVars)
    /\ WF_vars((RecvHeader \/ \E len \in 1..MaxRead : RecvCopy(len)) /\ UNCHANGED proxyVars)
    /\ WF_vars(ClientCloses /\ pc = "closing" /\ UNCHANGED proxyVars)
    /\ WF_vars(LineTimeout /\ UNCHANGED proxyVars)
    /\ WF_vars(ReadUart /\ UNCHANGED portVars)
    /\ WF_vars(Serve /\ UNCHANGED portVars)

FairSpec == Spec /\ Fairness

\* When the proxy has told the board that the connection of this attempt is gone,
\* the session ends: the EOF frame is found behind whatever data precedes it,
\* although recv answers every silence with WANT_READ and the caller loops.
EofEndsSession ==
    \A c \in Attempt : (attempt = c /\ connected /\ c \in eof) ~> ~connected

\* A command comes to an end: the drain, which starts over with every byte, the
\* reply line and the proxy's blocking connect cannot keep each other waiting.
CommandEnds ==
    pc \in {"drain", "command", "line", "reply", "certlen", "certbody"}
        ~> pc \in {"app", "closed", "halted"}

\* No session outlives the proxy's connection: once the proxy has no connection
\* and nothing left to do for the board, the board leaves the session.  (This is
\* what send_fail breaks: close_socket() after a failed sendall sends no EOF.)
LostConnectionEndsSession ==
    (connected /\ conn = 0 /\ Idle /\ up = <<>>) ~> ~connected

=============================================================================
