------------------------------ MODULE EstProxy ------------------------------
(***************************************************************************)
(* The host's end of the UART link: EST_Python/EST_networking.py, a single *)
(* loop that relays between the serial port and at most one TCP            *)
(* connection, together with the TCP peers, of which only the byte streams *)
(* and the ways a connection ends are modelled.                            *)
(***************************************************************************)
EXTENDS UartLink

CONSTANTS
    ServerStream,   \* [Attempt -> Seq(ByteValue)]: what the TCP peer sends
    PemByte,        \* a byte of a PEM certificate
    PemLen,         \* length of the certificate the proxy fetches
    NetChunk        \* largest sock.recv(...)

ASSUME ProxyAssumption ==
    /\ ServerStream \in [Attempt -> Seq(ByteValue)]
    /\ PemByte \in ByteValue /\ PemLen \in 1..9
    /\ NetChunk \in Nat \ {0}

VARIABLES
    conn,       \* attempt whose TCP connection is active, 0 when disconnected
    busy,       \* the command being served: item of `up`, or NoCommand
    fwd,        \* bytes read from each TCP connection and written to the UART
    eof,        \* connections whose end the proxy has written to the UART
    delivered   \* bytes written to each TCP connection, named <<attempt, position>>

proxyVars == <<conn, busy, fwd, eof, delivered>>

NoCommand == [type |-> "LOG", attempt |-> 0, from |-> 1, upto |-> 0]

\* Mutant of OkLine: without the newline.
OkLine_bare(c) == ReplyLine(<<79, 75>>, c)

\* b"OK\n", b"ERR\n", f"OK {len(pem_cert)}\n"
OkLine(c)  == ReplyLine(<<79, 75, 10>>, c)
ErrLine(c) == ReplyLine(<<69, 82, 82, 10>>, c)
OkPem(c)   == ReplyLine(<<79, 75, 32, 48 + PemLen, 10>>, c)
                \o Payload([i \in 1..PemLen |-> PemByte], c, 0, PemLen)

Write(bytes) == down' = down \o bytes

\* close_socket(notify_uart)
CloseSocket == conn' = 0
CloseAndNotify ==
    /\ CloseSocket
    /\ Write(FrameHeader(0, conn, fwd[conn]))
    /\ eof' = eof \union {conn}

ProxyInit ==
    /\ conn = 0 /\ busy = NoCommand /\ eof = {}
    /\ fwd = [c \in Attempt |-> 0] /\ delivered = [c \in Attempt |-> <<>>]

Idle == busy = NoCommand

ProxyTypeOK ==
    /\ conn \in 0..MaxAttempts
    /\ busy \in UpItem
    /\ busy = NoCommand \/ (busy.type \in CommandName /\ busy.attempt \in Attempt /\ conn = 0)
    /\ fwd \in [Attempt -> Nat] /\ eof \subseteq Attempt
    /\ \A c \in Attempt : fwd[c] <= Len(ServerStream[c])
    /\ delivered \in [Attempt -> Seq(Attempt \X Nat)]

-----------------------------------------------------------------------------
\* The loop has read a whole frame or command line from the UART.
Item == Head(up)
TakeItem == Idle /\ up # <<>> /\ up' = Tail(up)

ReadLog ==
    /\ TakeItem /\ Item.type = "LOG"
    /\ UNCHANGED <<down, rdr, proxyVars>>

IgnoreData ==
    /\ TakeItem /\ Item.type = "DATA" /\ conn = 0
    /\ UNCHANGED <<down, rdr, proxyVars>>

\* What sendall writes of the frame when it stops after the first n bytes.
Written(n) == [i \in 1..n |-> <<Item.attempt, Item.from + i - 1>>]
Size == Item.upto + 1 - Item.from

RelayData ==
    /\ TakeItem /\ Item.type = "DATA" /\ conn # 0
    /\ delivered' = [delivered EXCEPT ![conn] = @ \o Written(Size)]
    /\ UNCHANGED <<down, rdr, conn, busy, fwd, eof>>

\* Mutant of SendFails: the socket stays open.
SendFails_open(n) ==
    /\ "send_fail" \in Faults /\ n < Size
    /\ TakeItem /\ Item.type = "DATA" /\ conn # 0
    /\ delivered' = [delivered EXCEPT ![conn] = @ \o Written(n)]
    /\ UNCHANGED <<down, rdr, conn, busy, fwd, eof>>

\* sendall raised, perhaps after some bytes: close_socket() says nothing.
SendFails(n) ==
    /\ "send_fail" \in Faults /\ n < Size
    /\ TakeItem /\ Item.type = "DATA" /\ conn # 0
    /\ delivered' = [delivered EXCEPT ![conn] = @ \o Written(n)]
    /\ CloseSocket
    /\ UNCHANGED <<down, rdr, busy, fwd, eof>>

\* Mutant of StartServing: the active connection is kept.
StartServing_keep ==
    /\ TakeItem /\ Item.type \in CommandName
    /\ busy' = Item
    /\ UNCHANGED <<down, rdr, conn, fwd, eof, delivered>>

\* handle_connect_command, handle_cert_command: drop the active connection,
\* then block in socket.create_connection.
StartServing ==
    /\ TakeItem /\ Item.type \in CommandName
    /\ busy' = Item /\ CloseSocket
    /\ UNCHANGED <<down, rdr, fwd, eof, delivered>>

ConnectOk ==
    /\ busy.type = "CONNECT"
    /\ conn' = busy.attempt /\ busy' = NoCommand
    /\ Write(OkLine(busy.attempt))
    /\ UNCHANGED <<up, rdr, fwd, eof, delivered>>

CertOk ==
    /\ busy.type = "CERT" /\ busy' = NoCommand
    /\ Write(OkPem(busy.attempt))
    /\ UNCHANGED <<up, rdr, conn, fwd, eof, delivered>>

\* Mutant of CommandFails: nothing is said.
CommandFails_silent ==
    /\ "refused" \in Faults /\ ~Idle
    /\ busy' = NoCommand /\ CloseSocket
    /\ UNCHANGED <<linkVars, fwd, eof, delivered>>

CommandFails ==
    /\ "refused" \in Faults /\ ~Idle
    /\ busy' = NoCommand /\ CloseSocket
    /\ Write(ErrLine(busy.attempt))
    /\ UNCHANGED <<up, rdr, fwd, eof, delivered>>

-----------------------------------------------------------------------------
\* The socket is read only in a turn of the loop that found no UART byte.
PollNet == Idle /\ conn # 0 /\ up = <<>>

\* A TLS server has nothing to say before the ClientHello.
PeerSpeaks == delivered[conn] # <<>>

Relay(n) ==
    /\ PollNet /\ PeerSpeaks /\ fwd[conn] + n <= Len(ServerStream[conn])
    /\ Write(FrameHeader(n, conn, fwd[conn]) \o Payload(ServerStream[conn], conn, fwd[conn], n))
    /\ fwd' = [fwd EXCEPT ![conn] = @ + n]
    /\ UNCHANGED <<up, rdr, conn, busy, eof, delivered>>

\* Mutant of RemoteClosed: close_socket() without notify_uart.
RemoteClosed_silent ==
    /\ PollNet /\ fwd[conn] = Len(ServerStream[conn])
    /\ CloseSocket
    /\ UNCHANGED <<linkVars, busy, fwd, eof, delivered>>

\* recv returned b"": the peer has sent everything and closed.
RemoteClosed ==
    /\ PollNet /\ fwd[conn] = Len(ServerStream[conn])
    /\ CloseAndNotify
    /\ UNCHANGED <<up, rdr, busy, fwd, delivered>>

RecvFails ==
    /\ "peer_reset" \in Faults /\ PollNet /\ fwd[conn] < Len(ServerStream[conn])
    /\ CloseAndNotify
    /\ UNCHANGED <<up, rdr, busy, fwd, delivered>>

-----------------------------------------------------------------------------
\* The process dies, with its connection and what it was writing, and a new one
\* opens the port: reset_input_buffer and reset_output_buffer drop what the host
\* has not read, and all but the first n bytes of what it has not transmitted.
\* Nothing is said to the board.
Restart(n) ==
    /\ "proxy_restart" \in Faults
    /\ conn' = 0 /\ busy' = NoCommand
    /\ up' = <<>> /\ down' = SubSeq(down, 1, n)
    /\ UNCHANGED <<rdr, fwd, eof, delivered>>

-----------------------------------------------------------------------------
ReadUart ==
    \/ ReadLog \/ IgnoreData \/ RelayData \/ StartServing
    \/ up # <<>> /\ \E n \in 0..Size : SendFails(n)

Serve == ConnectOk \/ CertOk \/ CommandFails

ReadNet == (\E n \in 1..NetChunk : Relay(n)) \/ RemoteClosed \/ RecvFails

=============================================================================
