------------------------------ MODULE TlsPort ------------------------------
(***************************************************************************)
(* The firmware's end of the UART link: Core/TLS/tls_port.c, driven by the *)
(* TLS client above it.  The firmware is one thread that polls the UART,   *)
(* so pc tells which loop it is in; everything it does between two polls   *)
(* is "busy" time, in which an arriving byte may overrun the register.     *)
(***************************************************************************)
EXTENDS UartLink

CONSTANTS
    Commands,           \* what main asks of the proxy after a boot, in order
    TLS_FRAME_MAX,      \* size of frame_buf
    UART_TX_CHUNK_MAX,  \* largest payload of a DATA frame
    CertBufSize,        \* out_size of tls_port_fetch_server_cert
    ClientLen,          \* bound: bytes the TLS client sends in one session
    MaxBoots,           \* bound: times the board is started
    MaxRead             \* bound: bytes the TLS client asks for in one recv

ASSUME PortAssumption ==
    /\ Commands \in Seq(CommandName)
    /\ TLS_FRAME_MAX \in Nat /\ ClientLen \in Nat
    /\ UART_TX_CHUNK_MAX \in Nat \ {0} /\ CertBufSize \in Nat \ {0}
    /\ MaxBoots \in Nat \ {0} /\ MaxRead \in Nat \ {0}

VARIABLES
    boots,      \* times the board has been started
    pc,         \* where the firmware is, see PcValues
    op,         \* the command in progress, "CONNECT" or "CERT"
    todo,       \* the commands main has not issued yet
    attempt,    \* commands issued so far; the attempt in progress
    resp,       \* the reply line read so far
    got, want,  \* uart_read_exact: bytes read, bytes asked for
    connected,  \* sock->connected
    frame_buf,  \* the frame_len valid bytes of frame_buf
    frame_off,  \* how many of them recv has handed out
    sent,       \* how many bytes tls_port_send was given in each attempt
    rcvd,       \* the bytes tls_port_recv returned in each attempt
    cert        \* out_pem, once tls_port_fetch_server_cert has returned 0

cmdVars   == <<boots, op, todo, attempt>>
readVars  == <<got, want>>
frameVars == <<frame_buf, frame_off>>
portVars  == <<pc, cmdVars, resp, readVars, connected, frameVars, sent, rcvd, cert>>

-----------------------------------------------------------------------------
PcValues == {
    "closed",   \* no request in progress
    "drain",    \* uart_drain_rx
    "command",  \* printing, then transmitting the command line
    "line",     \* uart_read_line
    "reply",    \* looking at the reply line
    "certlen", "certbody",  \* uart_read_exact in tls_port_fetch_server_cert
    "app",      \* connected, in the TLS client, outside tls_port
    "header", "payload",    \* uart_read_exact in tls_port_recv
    "copy",     \* end of tls_port_recv, a new frame in frame_buf
    "closing",  \* recv has returned 0 or an error: the client cleans up
    "halted" }  \* while(1) in main after a failed certificate fetch

\* Outside a session nothing paces the bytes that arrive; inside one the
\* proxy's 10 ms pause between chunks does, unless "overrun" is a fault.
MayOverrun ==
    \/ pc \in {"closed", "command", "closing", "halted"}
    \/ "overrun" \in Faults /\ pc \in {"reply", "app", "copy"}

LF == 10
OK == <<79, 75>>
\* Mutant of IsOK: any reply will do.
IsOK_any(line) == Len(line) > 0

IsOK(line) == Len(line) >= 2 /\ SubSeq(line, 1, 2) = OK

\* char resp[16] in tls_port_connect, char resp[32] in ..._fetch_server_cert
RespMax == IF op = "CONNECT" THEN 15 ELSE 31

\* sscanf(resp, "OK %u", &pem_len): the digit, or 0 when there is no number
HasNumber(line) == Len(line) >= 4 /\ line[3] = 32 /\ line[4] \in 48..57
Number(line)    == line[4] - 48

HeaderValue(h) == h[1].val * 256 + h[2].val

Log == [type |-> "LOG", attempt |-> attempt,
        from |-> sent[attempt] + 1, upto |-> sent[attempt]]

Command(o, c) == [type |-> o, attempt |-> c, from |-> 1, upto |-> 0]

InSession == pc \in {"app", "header", "payload", "copy", "closing"}

CmdTypeOK ==
    /\ boots \in 1..MaxBoots /\ pc \in PcValues /\ op \in CommandName
    /\ todo \in Seq(CommandName) /\ resp \in Seq(ByteValue)
    /\ attempt \in 0..MaxAttempts
    /\ connected \/ InSession \/ pc \in {"line", "reply", "certlen", "certbody"}
          => attempt \in Attempt
    /\ pc \in {"drain", "command"} => attempt < MaxAttempts

\* uart_read_exact never runs past the object it fills.
ReadTypeOK ==
    /\ got \in Seq(Byte) /\ want \in Nat /\ Len(got) <= want
    /\ pc \in {"header", "certlen"} => want = 2
    /\ pc = "payload" => want <= TLS_FRAME_MAX
    /\ pc = "certbody" => want < CertBufSize

FrameTypeOK ==
    /\ connected \in BOOLEAN
    /\ frame_buf \in Seq(Byte) /\ Len(frame_buf) <= TLS_FRAME_MAX
    /\ frame_off \in 0..Len(frame_buf)

StreamTypeOK ==
    /\ sent \in [0..MaxAttempts -> 0..ClientLen]
    /\ rcvd \in [Attempt -> Seq(Byte)]
    /\ cert \in Seq(Byte) /\ Len(cert) < CertBufSize

PortTypeOK == CmdTypeOK /\ ReadTypeOK /\ FrameTypeOK /\ StreamTypeOK

-----------------------------------------------------------------------------
PortInit ==
    /\ boots = 1 /\ pc = "closed" /\ op = "CONNECT" /\ todo = Commands /\ attempt = 0
    /\ resp = <<>> /\ got = <<>> /\ want = 0
    /\ connected = FALSE /\ frame_buf = <<>> /\ frame_off = 0
    /\ sent = [c \in 0..MaxAttempts |-> 0]
    /\ rcvd = [c \in Attempt |-> <<>>] /\ cert = <<>>

Goto(l) == pc' = l

PrintLog == up' = Append(up, Log)

-----------------------------------------------------------------------------
\* tls_port_connect and tls_port_fetch_server_cert announce themselves, then
\* drain the receiver.
StartCommand ==
    /\ pc = "closed" /\ todo # <<>> /\ attempt < MaxAttempts
    /\ op' = Head(todo) /\ todo' = Tail(todo)
    /\ PrintLog /\ Goto("drain")
    /\ UNCHANGED <<down, rdr, boots, attempt, resp, readVars, connected, frameVars, sent, rcvd, cert>>

DrainByte ==
    /\ pc = "drain" /\ TakeByte
    /\ UNCHANGED portVars

\* 25 ms without a byte: what the host wrote before has arrived.
DrainDone ==
    /\ pc = "drain" /\ Silent /\ Goto("command")
    /\ UNCHANGED <<linkVars, cmdVars, resp, readVars, connected, frameVars, sent, rcvd, cert>>

SendCommand ==
    /\ pc = "command"
    /\ up' = up \o <<Log, Command(op, attempt + 1)>>
    /\ attempt' = attempt + 1 /\ resp' = <<>>
    /\ Goto("line")
    /\ UNCHANGED <<down, rdr, boots, op, todo, readVars, connected, frameVars, sent, rcvd, cert>>

-----------------------------------------------------------------------------
\* Mutant of LineByte: NUL is kept.
LineByte_nul ==
    /\ pc = "line" /\ TakeByte
    /\ resp' = Append(resp, ch.val)
    /\ IF ch.val = LF \/ Len(resp') = RespMax THEN Goto("reply") ELSE UNCHANGED pc
    /\ UNCHANGED <<cmdVars, readVars, connected, frameVars, sent, rcvd, cert>>

\* uart_read_line skips NUL, and stops at the newline or when resp is full.
LineByte ==
    /\ pc = "line" /\ TakeByte
    /\ resp' = IF ch.val = 0 THEN resp ELSE Append(resp, ch.val)
    /\ IF ch.val = LF \/ Len(resp') = RespMax THEN Goto("reply") ELSE UNCHANGED pc
    /\ UNCHANGED <<cmdVars, readVars, connected, frameVars, sent, rcvd, cert>>

\* The overall timeout; whatever was read is the reply.
LineTimeout ==
    /\ pc = "line" /\ "slow_reply" \in Faults /\ Goto("reply")
    /\ Silent \/ "split_line" \in Faults
    /\ UNCHANGED <<linkVars, cmdVars, resp, readVars, connected, frameVars, sent, rcvd, cert>>

ConnectAccepted ==
    /\ pc = "reply" /\ op = "CONNECT" /\ IsOK(resp)
    /\ connected' = TRUE /\ frame_buf' = <<>> /\ frame_off' = 0
    /\ PrintLog /\ Goto("app")
    /\ UNCHANGED <<down, rdr, cmdVars, resp, readVars, sent, rcvd, cert>>

ConnectRejected ==
    /\ pc = "reply" /\ op = "CONNECT" /\ ~IsOK(resp)
    /\ connected' = FALSE
    /\ PrintLog /\ Goto("closed")
    /\ UNCHANGED <<down, rdr, cmdVars, resp, readVars, frameVars, sent, rcvd, cert>>

-----------------------------------------------------------------------------
\* uart_read_exact: one more of the wanted bytes.
ReadExact ==
    /\ pc \in {"header", "payload", "certlen", "certbody"}
    /\ Len(got) < want /\ TakeByte
    /\ got' = Append(got, ch)
    /\ UNCHANGED <<pc, cmdVars, resp, want, connected, frameVars, sent, rcvd, cert>>

StartRead(l, n) == got' = <<>> /\ want' = n /\ Goto(l)
ReadComplete(l) == pc = l /\ Len(got) = want
ReadTimedOut(l) == pc = l /\ Len(got) < want /\ Silent

\* The failure is printed by tls_port.c, and by main before its while(1).
CertFails ==
    /\ PrintLog /\ Goto("halted")
    /\ UNCHANGED <<down, rdr, cmdVars, resp, readVars, connected, frameVars, sent, rcvd, cert>>

\* Mutant of CertBody: room is kept for the NUL that tls_port.c adds itself.
CertBody_nul(n) ==
    IF n = 0 \/ n >= CertBufSize THEN CertFails
    ELSE /\ StartRead("certbody", n - 1)
         /\ UNCHANGED <<linkVars, cmdVars, resp, connected, frameVars, sent, rcvd, cert>>

CertBody(n) ==
    IF n = 0 \/ n >= CertBufSize THEN CertFails
    ELSE /\ StartRead("certbody", n)
         /\ UNCHANGED <<linkVars, cmdVars, resp, connected, frameVars, sent, rcvd, cert>>

CertRejected == pc = "reply" /\ op = "CERT" /\ ~IsOK(resp) /\ CertFails

CertAccepted ==
    /\ pc = "reply" /\ op = "CERT" /\ IsOK(resp)
    /\ \/ HasNumber(resp) /\ CertBody(Number(resp))
       \/ /\ ~HasNumber(resp) /\ StartRead("certlen", 2)
          /\ UNCHANGED <<linkVars, cmdVars, resp, connected, frameVars, sent, rcvd, cert>>

CertLength == ReadComplete("certlen") /\ CertBody(HeaderValue(got))

CertTimeout == (ReadTimedOut("certlen") \/ ReadTimedOut("certbody")) /\ CertFails

CertDone ==
    /\ ReadComplete("certbody")
    /\ cert' = got /\ PrintLog /\ Goto("closed")
    /\ UNCHANGED <<down, rdr, cmdVars, resp, readVars, connected, frameVars, sent, rcvd>>

-----------------------------------------------------------------------------
\* tls_port_recv with nothing buffered: read a frame header.
RecvHeader ==
    /\ pc = "app" /\ connected /\ frame_off >= Len(frame_buf)
    /\ StartRead("header", 2)
    /\ UNCHANGED <<linkVars, cmdVars, resp, connected, frameVars, sent, rcvd, cert>>

\* 5 s of silence: MBEDTLS_ERR_SSL_WANT_READ, and a first header byte is gone.
RecvWantRead ==
    /\ ReadTimedOut("header") /\ Goto("app")
    /\ UNCHANGED <<linkVars, cmdVars, resp, readVars, connected, frameVars, sent, rcvd, cert>>

\* Mutant of RecvEof: an empty frame like any other.
RecvEof_empty ==
    /\ ReadComplete("header") /\ HeaderValue(got) = 0
    /\ PrintLog /\ Goto("app")
    /\ UNCHANGED <<down, rdr, cmdVars, resp, readVars, connected, frameVars, sent, rcvd, cert>>

RecvEof ==
    /\ ReadComplete("header") /\ HeaderValue(got) = 0
    /\ connected' = FALSE /\ PrintLog /\ Goto("closing")
    /\ UNCHANGED <<down, rdr, cmdVars, resp, readVars, frameVars, sent, rcvd, cert>>

RecvBadLength ==
    /\ ReadComplete("header") /\ HeaderValue(got) > TLS_FRAME_MAX
    /\ PrintLog /\ Goto("closing")
    /\ UNCHANGED <<down, rdr, cmdVars, resp, readVars, connected, frameVars, sent, rcvd, cert>>

RecvPayload ==
    /\ ReadComplete("header") /\ HeaderValue(got) \in 1..TLS_FRAME_MAX
    /\ StartRead("payload", HeaderValue(got))
    /\ UNCHANGED <<linkVars, cmdVars, resp, connected, frameVars, sent, rcvd, cert>>

RecvTruncated ==
    /\ ReadTimedOut("payload") /\ Goto("closing")
    /\ UNCHANGED <<linkVars, cmdVars, resp, readVars, connected, frameVars, sent, rcvd, cert>>

RecvFrame ==
    /\ ReadComplete("payload")
    /\ frame_buf' = got /\ frame_off' = 0 /\ PrintLog /\ Goto("copy")
    /\ UNCHANGED <<down, rdr, cmdVars, resp, readVars, connected, sent, rcvd, cert>>

\* Mutant of RecvCopy: frame_off advances by what was asked for.
RecvCopy_asked(len) ==
    LET avail == Len(frame_buf) - frame_off
        take  == IF len < avail THEN len ELSE avail
    IN  /\ pc = "copy" \/ (pc = "app" /\ connected)
        /\ frame_off < Len(frame_buf)
        /\ rcvd' = [rcvd EXCEPT ![attempt] =
                       @ \o SubSeq(frame_buf, frame_off + 1, frame_off + take)]
        /\ frame_off' = frame_off + len
        /\ Goto("app")
        /\ UNCHANGED <<linkVars, cmdVars, resp, readVars, connected, frame_buf, sent, cert>>

\* Mutant of RecvCopy: memcpy from the start of frame_buf.
RecvCopy_start(len) ==
    LET avail == Len(frame_buf) - frame_off
        take  == IF len < avail THEN len ELSE avail
    IN  /\ pc = "copy" \/ (pc = "app" /\ connected)
        /\ frame_off < Len(frame_buf)
        /\ rcvd' = [rcvd EXCEPT ![attempt] = @ \o SubSeq(frame_buf, 1, take)]
        /\ frame_off' = frame_off + take
        /\ Goto("app")
        /\ UNCHANGED <<linkVars, cmdVars, resp, readVars, connected, frame_buf, sent, cert>>

\* Hand out at most len of the buffered bytes.
RecvCopy(len) ==
    LET avail == Len(frame_buf) - frame_off
        take  == IF len < avail THEN len ELSE avail
    IN  /\ pc = "copy" \/ (pc = "app" /\ connected)
        /\ frame_off < Len(frame_buf)
        /\ rcvd' = [rcvd EXCEPT ![attempt] =
                       @ \o SubSeq(frame_buf, frame_off + 1, frame_off + take)]
        /\ frame_off' = frame_off + take
        /\ Goto("app")
        /\ UNCHANGED <<linkVars, cmdVars, resp, readVars, connected, frame_buf, sent, cert>>

-----------------------------------------------------------------------------
\* Mutant of Chunks: every frame is taken from the start of buf.
Chunks_start(n) ==
    [i \in 1..((n + UART_TX_CHUNK_MAX - 1) \div UART_TX_CHUNK_MAX) |->
        [type |-> "DATA", attempt |-> attempt, from |-> sent[attempt] + 1,
         upto |-> sent[attempt] + (IF UART_TX_CHUNK_MAX < n THEN UART_TX_CHUNK_MAX ELSE n)]]

\* The DATA frames of tls_port_send for n bytes: full chunks, then the rest.
Chunks(n) ==
    [i \in 1..((n + UART_TX_CHUNK_MAX - 1) \div UART_TX_CHUNK_MAX) |->
        [type |-> "DATA", attempt |-> attempt,
         from |-> sent[attempt] + (i - 1) * UART_TX_CHUNK_MAX + 1,
         upto |-> sent[attempt] + (IF i * UART_TX_CHUNK_MAX < n
                                   THEN i * UART_TX_CHUNK_MAX ELSE n)]]

Send(n) ==
    /\ pc = "app" /\ connected /\ sent[attempt] + n <= ClientLen
    /\ up' = up \o Chunks(n)
    /\ sent' = [sent EXCEPT ![attempt] = @ + n]
    /\ UNCHANGED <<pc, down, rdr, cmdVars, resp, readVars, connected, frameVars, rcvd, cert>>

\* tls_port_close: nothing is said to the proxy.
Close ==
    /\ pc \in {"app", "closing"}
    /\ connected' = FALSE /\ frame_buf' = <<>> /\ frame_off' = 0
    /\ Goto("closed")
    /\ UNCHANGED <<linkVars, cmdVars, resp, readVars, sent, rcvd, cert>>

\* The reset button or the CLI's st-flash reset: RAM and UART start anew.
Reboot ==
    /\ "reboot" \in Faults /\ boots < MaxBoots /\ boots' = boots + 1
    /\ todo' = Commands /\ connected' = FALSE /\ frame_buf' = <<>> /\ frame_off' = 0
    /\ rdr' = <<>> /\ cert' = <<>> /\ Goto("closed")
    /\ UNCHANGED <<up, down, op, attempt, resp, readVars, sent, rcvd>>

-----------------------------------------------------------------------------
PortStep ==
    \/ DrainByte \/ DrainDone \/ SendCommand \/ LineByte \/ ReadExact
    \/ ConnectAccepted \/ ConnectRejected
    \/ CertRejected \/ CertAccepted \/ CertLength \/ CertTimeout \/ CertDone
    \/ RecvEof \/ RecvBadLength \/ RecvPayload \/ RecvTruncated \/ RecvFrame

=============================================================================
