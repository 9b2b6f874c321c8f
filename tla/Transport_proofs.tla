-------------------------- MODULE Transport_proofs --------------------------
(***************************************************************************)
(* Theorems about Transport for every value of its constants: types and    *)
(* the way up first; then what tls_port_recv returns is what the TCP peer  *)
(* of the session sent, whatever that is: DownlinkInv is inductive when    *)
(* nothing disturbs the timing of the conversation, and with it the        *)
(* transport implements SessionStream.  At the end, without that           *)
(* condition: which connection the bytes of a session are of.              *)
(***************************************************************************)
EXTENDS Downlink, SeqLemmas

\* tls_port_connect and tls_port_close empty frame_buf: no frame is held.
LEMMA FrameEmpty ==
    ASSUME connected' \in BOOLEAN, frame_buf' = <<>>, frame_off' = 0
    PROVE  FrameTypeOK'
<1>1. frame_buf' \in Seq(Byte) /\ Len(frame_buf') = 0
  BY SeqNone
<1>2. Len(frame_buf') <= TLS_FRAME_MAX /\ frame_off' \in 0..Len(frame_buf')
  BY <1>1, PortAssumption
<1>. QED  BY <1>1, <1>2 DEF FrameTypeOK

\* What log_raw prints is an item of the line towards the host.
LEMMA LogType ==
    ASSUME TypeOK
    PROVE  Log \in UpItem /\ Log.type = "LOG" /\ WellTagged(Log)
<1>1. attempt \in 0..MaxAttempts /\ sent[attempt] \in Nat
  BY LinkAssumption, PortAssumption DEF TypeOK, PortTypeOK, CmdTypeOK, StreamTypeOK
<1>2. sent[attempt] + 1 \in Nat
  BY <1>1
<1>. QED  BY <1>1, <1>2 DEF Log, UpItem, WellTagged

\* A reply of the proxy is a sequence of line bytes.
LEMMA ReplyLineType ==
    ASSUME NEW c \in Attempt, NEW text \in Seq(ByteValue)
    PROVE  ReplyLine(text, c) \in Seq(Byte)
<1>1. ASSUME NEW i \in 1..Len(text)
      PROVE  [val |-> text[i], kind |-> "reply", conn |-> c, pos |-> 0,
              left |-> Len(text) - i] \in Byte
  <2>1. text[i] \in ByteValue
    BY SeqElt
  <2>2. Len(text) - i \in Nat
    OBVIOUS
  <2>. QED  BY <2>1, <2>2 DEF Byte
<1>2. Len(text) \in Nat
  OBVIOUS
<1>. QED  BY <1>1, <1>2 DEF ReplyLine

\* A piece of a stream of the peer is a sequence of line bytes.
LEMMA PayloadType ==
    ASSUME NEW c \in Attempt, NEW stream \in Seq(ByteValue), NEW done \in Nat,
           NEW n \in Nat, done + n <= Len(stream)
    PROVE  Payload(stream, c, done, n) \in Seq(Byte)
<1>1. ASSUME NEW i \in 1..n
      PROVE  [val |-> stream[done + i], kind |-> "data", conn |-> c,
              pos |-> done + i, left |-> n - i] \in Byte
  <2>1. Len(stream) \in Nat
    OBVIOUS
  <2>2. done + i \in 1..Len(stream) /\ done + i \in Nat /\ n - i \in Nat
    BY <2>1
  <2>3. stream[done + i] \in ByteValue
    BY <2>2, SeqElt
  <2>. QED  BY <2>2, <2>3 DEF Byte
<1>2. Payload(stream, c, done, n) \in [1..n -> Byte]
  BY <1>1 DEF Payload
<1>. QED  BY <1>2, SeqMake

\* So is the header of a DATA frame,
LEMMA HeaderType ==
    ASSUME NEW c \in Attempt, NEW done \in Nat, NEW n \in Nat
    PROVE  FrameHeader(n, c, done) \in Seq(Byte)
<1>1. ASSUME NEW i \in 1..2
      PROVE  [val |-> IF i = 1 THEN (n \div 256) % 256 ELSE n % 256,
              kind |-> IF i = 1 THEN "high" ELSE "low",
              conn |-> c, pos |-> done, left |-> n + 2 - i] \in Byte
  <2>1. (n \div 256) % 256 \in ByteValue /\ n % 256 \in ByteValue /\ n + 2 - i \in Nat
    BY DEF ByteValue
  <2>. QED  BY <2>1 DEF Byte
<1>. QED  BY <1>1 DEF FrameHeader

\* and every line and answer handle_uart_frame writes.
LEMMA ReplyType ==
    ASSUME NEW c \in Attempt
    PROVE  OkLine(c) \in Seq(Byte) /\ ErrLine(c) \in Seq(Byte) /\ OkPem(c) \in Seq(Byte)
<1>1. 48 + PemLen \in ByteValue /\ PemLen \in Nat
  BY ProxyAssumption DEF ByteValue
<1>2. /\ <<79, 75, 10>> \in Seq(ByteValue)
      /\ <<69, 82, 82, 10>> \in Seq(ByteValue)
      /\ <<79, 75, 32, 48 + PemLen, 10>> \in Seq(ByteValue)
  BY <1>1 DEF ByteValue
<1>. DEFINE pem == [i \in 1..PemLen |-> PemByte]
<1>3. pem \in Seq(ByteValue) /\ Len(pem) = PemLen
  <2>1. pem \in [1..PemLen -> ByteValue]
    BY ProxyAssumption
  <2>. QED  BY <1>1, <2>1, SeqMake
<1>. HIDE DEF pem
<1>4. Payload(pem, c, 0, PemLen) \in Seq(Byte)
  <2>1. 0 \in Nat /\ 0 + PemLen <= Len(pem)
    BY <1>1, <1>3
  <2>. QED  BY <1>1, <1>3, <2>1, PayloadType
<1>5. /\ ReplyLine(<<79, 75, 10>>, c) \in Seq(Byte)
      /\ ReplyLine(<<69, 82, 82, 10>>, c) \in Seq(Byte)
      /\ ReplyLine(<<79, 75, 32, 48 + PemLen, 10>>, c) \in Seq(Byte)
  BY <1>2, ReplyLineType
<1>6. ReplyLine(<<79, 75, 32, 48 + PemLen, 10>>, c) \o Payload(pem, c, 0, PemLen) \in Seq(Byte)
  BY <1>4, <1>5, SeqConcat
<1>. QED  BY <1>5, <1>6 DEF OkLine, ErrLine, OkPem, pem

\* The loop of tls_port_send: the number of chunks is the least that covers n bytes.
LEMMA ChunkCount ==
    ASSUME NEW n \in Nat, NEW k, k = (n + UART_TX_CHUNK_MAX - 1) \div UART_TX_CHUNK_MAX
    PROVE  /\ k \in Nat /\ n <= k * UART_TX_CHUNK_MAX
           /\ \A i \in 1..k : (i - 1) * UART_TX_CHUNK_MAX < n
           /\ n > 0 => k > 0
<1>. DEFINE M == UART_TX_CHUNK_MAX
<1>1. M \in Nat /\ M > 0 /\ n + M - 1 \in Nat
  BY PortAssumption
<1>. HIDE DEF M
<1>2. k \in Nat /\ k * M <= n + M - 1 /\ n + M - 1 < (k + 1) * M
  BY <1>1 DEF M
<1>3. (k + 1) * M = k * M + M
  BY <1>1, <1>2
<1>4. n <= k * M
  BY <1>1, <1>2, <1>3
<1>5. ASSUME NEW i \in 1..k
      PROVE  (i - 1) * M < n
  <2>1. i * M <= k * M
    BY <1>1, <1>2
  <2>2. (i - 1) * M = i * M - M
    BY <1>1
  <2>. QED  BY <1>1, <1>2, <2>1, <2>2
<1>6. n > 0 => k > 0
  BY <1>1, <1>2
<1>. QED  BY <1>2, <1>4, <1>5, <1>6 DEF M

\* The frames of one tls_port_send are items of the line, of the current connection.
LEMMA ChunksType ==
    ASSUME TypeOK, attempt \in Attempt, NEW n \in Nat
    PROVE  Chunks(n) \in Seq(UpItem) /\ \A i \in DOMAIN Chunks(n) : WellTagged(Chunks(n)[i])
<1>. DEFINE M == UART_TX_CHUNK_MAX
            k == (n + M - 1) \div M
            item(i) == [type |-> "DATA", attempt |-> attempt,
                        from |-> sent[attempt] + (i - 1) * M + 1,
                        upto |-> sent[attempt] + (IF i * M < n THEN i * M ELSE n)]
<1>1. attempt \in 0..MaxAttempts /\ sent[attempt] \in Nat /\ M \in Nat
  BY LinkAssumption, PortAssumption DEF TypeOK, PortTypeOK, CmdTypeOK, StreamTypeOK
<1>2. k \in Nat /\ \A i \in 1..k : (i - 1) * M < n
  BY ChunkCount
<1>3. Chunks(n) = [i \in 1..k |-> item(i)]
  BY DEF Chunks
<1>. HIDE DEF k
<1>4. ASSUME NEW i \in 1..k
      PROVE  item(i) \in UpItem /\ WellTagged(item(i))
  <2>1. (i - 1) * M \in Nat /\ i * M \in Nat
    BY <1>1
  <2>2. (i - 1) * M <= i * M
    BY <1>1, <2>1
  <2>. DEFINE a == (i - 1) * M
              b == i * M
  <2>. HIDE DEF a, b
  <2>3. /\ sent[attempt] + a + 1 \in Nat /\ sent[attempt] + (IF b < n THEN b ELSE n) \in Nat
        /\ sent[attempt] + a + 1 <= sent[attempt] + (IF b < n THEN b ELSE n) + 1
    BY <1>1, <1>2, <2>1, <2>2 DEF a, b
  <2>. QED  BY <1>1, <2>3 DEF a, b, UpItem, WellTagged
<1>. HIDE DEF item
<1>5. Chunks(n) \in [1..k -> UpItem]
  BY <1>3, <1>4
<1>6. Chunks(n) \in Seq(UpItem) /\ Len(Chunks(n)) = k
  BY <1>2, <1>5, SeqMake
<1>. QED  BY <1>3, <1>4, <1>6

-----------------------------------------------------------------------------
\* The board after reset and the proxy after its start have the right types.
LEMMA TypeInit == Init => TypeOK
<1>. SUFFICES ASSUME Init PROVE TypeOK
  OBVIOUS
<1>. USE LinkAssumption, PortAssumption, ProxyAssumption
<1>1. LinkTypeOK
  BY DEF Init, LinkTypeOK
<1>2. CmdTypeOK
  BY DEF Init, PortInit, CmdTypeOK, PcValues, CommandName, InSession
<1>4. ReadTypeOK
  BY SeqNone DEF Init, PortInit, ReadTypeOK
<1>6. FrameTypeOK
  <2>1. frame_buf \in Seq(Byte) /\ Len(frame_buf) = 0
    BY SeqNone DEF Init, PortInit
  <2>2. Len(frame_buf) <= TLS_FRAME_MAX /\ frame_off \in 0..Len(frame_buf)
    BY <2>1 DEF Init, PortInit
  <2>. QED  BY <2>1, <2>2 DEF Init, PortInit, FrameTypeOK
<1>5. StreamTypeOK
  BY SeqNone DEF Init, PortInit, StreamTypeOK
<1>3. ProxyTypeOK
  BY SeqNone DEF Init, ProxyInit, ProxyTypeOK, NoCommand, UpItem
<1>. QED  BY <1>1, <1>2, <1>3, <1>4, <1>5, <1>6 DEF TypeOK, PortTypeOK

\* The parts of the type invariant whose variables a step leaves alone.
LEMMA CmdSame   == ASSUME CmdTypeOK, UNCHANGED <<boots, op, todo, attempt, resp, connected, pc>>
                   PROVE  CmdTypeOK'
BY DEF CmdTypeOK, InSession
\* the frame recv hands out,
LEMMA FrameSame == ASSUME FrameTypeOK, UNCHANGED <<connected, frame_buf, frame_off>>
                   PROVE  FrameTypeOK'
BY DEF FrameTypeOK
\* the streams of the TLS client and the certificate,
LEMMA StreamSame == ASSUME StreamTypeOK, UNCHANGED <<sent, rcvd, cert>>
                    PROVE  StreamTypeOK'
BY DEF StreamTypeOK
\* the read in progress, once the step is outside of it,
LEMMA ReadSame == ASSUME ReadTypeOK, UNCHANGED <<got, want>>,
                         pc' \in PcValues \ {"header", "payload", "certlen", "certbody"}
                  PROVE  ReadTypeOK'
BY DEF ReadTypeOK
\* the line and the receive register,
LEMMA LinkSame == ASSUME LinkTypeOK, UNCHANGED linkVars PROVE LinkTypeOK'
BY DEF LinkTypeOK, linkVars
\* and all of the transport of the firmware.
LEMMA PortSame == ASSUME PortTypeOK, UNCHANGED portVars PROVE PortTypeOK'
<1>1. CmdTypeOK'
  BY DEF PortTypeOK, portVars, cmdVars, CmdTypeOK, InSession
<1>2. ReadTypeOK' /\ FrameTypeOK' /\ StreamTypeOK'
  BY DEF PortTypeOK, portVars, cmdVars, readVars, frameVars, ReadTypeOK, FrameTypeOK, StreamTypeOK
<1>. QED  BY <1>1, <1>2 DEF PortTypeOK

\* A step that takes the waiting byte, and one that prints.
LEMMA LinkTake == ASSUME LinkTypeOK, TakeByte
                  PROVE  LinkTypeOK' /\ ch \in Byte
<1>1. rdr' \in Seq(Byte) /\ Len(rdr') <= 1
  BY SeqNone DEF TakeByte
<1>2. ch \in Byte
  BY SeqElt, SeqEmpty DEF LinkTypeOK, TakeByte, ch
<1>. QED  BY <1>1, <1>2 DEF LinkTypeOK, TakeByte
\* A step that only prints keeps the line well typed.
LEMMA LinkPrint == ASSUME TypeOK, UNCHANGED <<down, rdr>>, PrintLog
                   PROVE  LinkTypeOK'
<1>1. /\ up' \in Seq(UpItem) /\ Len(up') = Len(up) + 1
      /\ \A i \in 1..Len(up) : up'[i] = up[i]
      /\ up'[Len(up) + 1] = Log
  BY LogType, SeqAppend DEF PrintLog, TypeOK, LinkTypeOK
<1>2. Len(up) \in Nat
  BY DEF TypeOK, LinkTypeOK
<1>3. ASSUME NEW i \in DOMAIN up'
      PROVE  WellTagged(up'[i])
  <2>1. CASE i \in 1..Len(up)
    BY <1>1, <1>2, <2>1 DEF TypeOK, LinkTypeOK
  <2>2. CASE i = Len(up) + 1
    BY <1>1, <2>2, LogType
  <2>. QED  BY <1>1, <1>2, <2>1, <2>2
<1>. QED  BY <1>1, <1>3 DEF TypeOK, LinkTypeOK

\* A step that sends items of the current connection keeps the line well typed.
LEMMA LinkSend ==
    ASSUME LinkTypeOK, NEW items \in Seq(UpItem), up' = up \o items, UNCHANGED <<down, rdr>>,
           \A i \in DOMAIN items : WellTagged(items[i])
    PROVE  LinkTypeOK'
<1>1. /\ up' \in Seq(UpItem) /\ Len(up') = Len(up) + Len(items)
      /\ \A i \in 1..Len(up) : up'[i] = up[i]
      /\ \A i \in 1..(Len(up) + Len(items)) : i > Len(up) => up'[i] = items[i - Len(up)]
  BY SeqConcat DEF LinkTypeOK
<1>2. Len(up) \in Nat /\ Len(items) \in Nat
  BY DEF LinkTypeOK
<1>3. ASSUME NEW i \in DOMAIN up'
      PROVE  WellTagged(up'[i])
  <2>1. CASE i <= Len(up)
    BY <1>1, <1>2, <2>1 DEF LinkTypeOK
  <2>2. CASE i > Len(up)
    BY <1>1, <1>2, <2>2
  <2>. QED  BY <1>1, <1>2, <2>1, <2>2
<1>. QED  BY <1>1, <1>3 DEF LinkTypeOK

\* A two-byte header is a number.
LEMMA HeaderNat ==
    ASSUME TypeOK, Len(got) = 2
    PROVE  HeaderValue(got) \in Nat
<1>1. got[1] \in Byte /\ got[2] \in Byte
  BY SMTT(60), SeqElt DEF TypeOK, PortTypeOK, ReadTypeOK
<1>2. got[1].val \in Nat /\ got[2].val \in Nat
  BY <1>1 DEF Byte, ByteValue
<1>. QED  BY <1>2 DEF HeaderValue

\* The ways tls_port_fetch_server_cert goes on after the reply line.
LEMMA TypeCertFails ==
    ASSUME TypeOK, pc \in {"reply", "certlen", "certbody"}, CertFails
    PROVE  LinkTypeOK' /\ PortTypeOK'
<1>. USE DEF TypeOK, PortTypeOK, Goto, cmdVars, readVars, frameVars
<1>1. CmdTypeOK' /\ ReadTypeOK'
  BY DEF CertFails, CmdTypeOK, ReadTypeOK, PcValues, InSession
<1>. QED  BY <1>1, LinkPrint, FrameSame, StreamSame DEF CertFails

\* tls_port_receive_credentials with the length it was told.
LEMMA TypeCertBody ==
    ASSUME TypeOK, pc \in {"reply", "certlen"}, NEW n \in Nat, CertBody(n)
    PROVE  LinkTypeOK' /\ PortTypeOK'
<1>. USE DEF TypeOK, PortTypeOK, Goto, cmdVars, readVars, frameVars
<1>1. CASE CertFails
  BY <1>1, TypeCertFails
<1>2. CASE ~CertFails
  <2>1. /\ StartRead("certbody", n) /\ n < CertBufSize
        /\ UNCHANGED <<linkVars, cmdVars, resp, connected, frameVars, sent, rcvd, cert>>
    BY <1>2, PortAssumption DEF CertBody
  <2>2. CmdTypeOK' /\ ReadTypeOK'
    BY <2>1, SeqNone DEF StartRead, CmdTypeOK, ReadTypeOK, PcValues, InSession
  <2>. QED  BY <2>1, <2>2, LinkSame, FrameSame, StreamSame
<1>. QED  BY <1>1, <1>2

-----------------------------------------------------------------------------
\* No step of the firmware breaks a type.
LEMMA TypePortStep ==
    ASSUME TypeOK, PortStep, UNCHANGED proxyVars
    PROVE  LinkTypeOK' /\ PortTypeOK'
<1>. USE PortAssumption, LinkAssumption
<1>. USE DEF TypeOK, PortTypeOK, Goto, cmdVars, readVars, frameVars
<1>1. CASE DrainByte
  <2>1. LinkTypeOK'
    BY <1>1, LinkTake DEF DrainByte
  <2>. QED  BY <1>1, <2>1, CmdSame, FrameSame, StreamSame DEF DrainByte, portVars, ReadTypeOK
<1>2. CASE DrainDone
  <2>1. CmdTypeOK' /\ ReadTypeOK'
    BY <1>2 DEF DrainDone, CmdTypeOK, ReadTypeOK, PcValues, InSession
  <2>. QED  BY <1>2, <2>1, LinkSame, FrameSame, StreamSame DEF DrainDone
<1>3. CASE SendCommand
  <2>0. attempt + 1 \in Attempt /\ attempt + 1 \in 0..MaxAttempts
    BY <1>3 DEF SendCommand, CmdTypeOK, Attempt
  <2>1. CmdTypeOK' /\ ReadTypeOK'
    BY <1>3, <2>0, SeqNone DEF SendCommand, CmdTypeOK, ReadTypeOK, PcValues, InSession
  <2>. DEFINE items == <<Log, Command(op, attempt + 1)>>
  <2>4. Command(op, attempt + 1) \in UpItem /\ WellTagged(Command(op, attempt + 1))
    BY <2>0 DEF Command, UpItem, CmdTypeOK, Attempt, WellTagged
  <2>5. /\ items \in Seq(UpItem) /\ Len(items) = 2
        /\ items[1] = Log /\ items[2] = Command(op, attempt + 1)
    BY <2>4, LogType, SeqSmall
  <2>6. \A i \in DOMAIN items : WellTagged(items[i])
    BY <2>4, <2>5, LogType
  <2>. HIDE DEF items
  <2>7. up' = up \o items /\ UNCHANGED <<down, rdr>>
    BY <1>3 DEF SendCommand, items
  <2>2. LinkTypeOK'
    BY <2>5, <2>6, <2>7, LinkSend
  <2>. QED  BY <1>3, <2>1, <2>2, FrameSame, StreamSame DEF SendCommand
<1>4. CASE LineByte
  <2>1. LinkTypeOK' /\ ch \in Byte
    BY <1>4, LinkTake DEF LineByte
  <2>2. resp' \in Seq(ByteValue)
    BY <1>4, <2>1, SeqAppend DEF LineByte, CmdTypeOK, Byte
  <2>3. CmdTypeOK' /\ ReadTypeOK'
    BY <1>4, <2>2 DEF LineByte, CmdTypeOK, ReadTypeOK, PcValues, InSession
  <2>. QED  BY <1>4, <2>1, <2>3, FrameSame, StreamSame DEF LineByte
<1>5. CASE ReadExact
  <2>1. LinkTypeOK' /\ ch \in Byte
    BY <1>5, LinkTake DEF ReadExact
  <2>2. ReadTypeOK'
    BY <1>5, <2>1, SeqAppend DEF ReadExact, ReadTypeOK
  <2>. QED  BY <1>5, <2>1, <2>2, CmdSame, FrameSame, StreamSame DEF ReadExact
<1>6. CASE ConnectAccepted
  <2>1. LinkTypeOK'
    BY <1>6, LinkPrint DEF ConnectAccepted
  <2>2. CmdTypeOK' /\ ReadTypeOK' /\ FrameTypeOK'
    BY <1>6 DEF ConnectAccepted, CmdTypeOK, ReadTypeOK, FrameTypeOK, PcValues, InSession
  <2>. QED  BY <1>6, <2>1, <2>2, StreamSame DEF ConnectAccepted
<1>7. CASE ConnectRejected
  <2>1. LinkTypeOK'
    BY <1>7, LinkPrint DEF ConnectRejected
  <2>2. CmdTypeOK' /\ ReadTypeOK' /\ FrameTypeOK'
    BY <1>7 DEF ConnectRejected, CmdTypeOK, ReadTypeOK, FrameTypeOK, PcValues, InSession
  <2>. QED  BY <1>7, <2>1, <2>2, StreamSame DEF ConnectRejected
<1>8. CASE CertRejected
  BY <1>8, TypeCertFails DEF CertRejected
<1>9. CASE CertAccepted
  <2>1. CASE HasNumber(resp) /\ CertBody(Number(resp))
    <3>1. Number(resp) \in Nat
      BY <2>1 DEF HasNumber, Number
    <3>. QED  BY <1>9, <2>1, <3>1, TypeCertBody DEF CertAccepted
  <2>2. CASE ~(HasNumber(resp) /\ CertBody(Number(resp)))
    <3>1. /\ StartRead("certlen", 2) /\ pc = "reply"
          /\ UNCHANGED <<linkVars, cmdVars, resp, connected, frameVars, sent, rcvd, cert>>
      BY <1>9, <2>2 DEF CertAccepted
    <3>2. CmdTypeOK' /\ ReadTypeOK'
      BY <3>1, SeqNone DEF StartRead, CmdTypeOK, ReadTypeOK, PcValues, InSession
    <3>. QED  BY <3>1, <3>2, LinkSame, FrameSame, StreamSame
  <2>. QED  BY <2>1, <2>2
<1>10. CASE CertLength
  <2>0. pc = "certlen" /\ Len(got) = 2 /\ CertBody(HeaderValue(got))
    BY <1>10 DEF CertLength, ReadComplete, ReadTypeOK
  <2>1. HeaderValue(got) \in Nat
    BY <2>0, HeaderNat
  <2>. DEFINE n == HeaderValue(got)
  <2>2. n \in Nat /\ CertBody(n)
    BY <2>0, <2>1
  <2>. HIDE DEF n
  <2>. QED  BY <2>0, <2>2, TypeCertBody
<1>11. CASE CertTimeout
  <2>1. pc \in {"certlen", "certbody"} /\ CertFails
    BY <1>11 DEF CertTimeout, ReadTimedOut
  <2>. QED  BY <2>1, TypeCertFails
<1>12. CASE CertDone
  <2>1. LinkTypeOK'
    BY <1>12, LinkPrint DEF CertDone
  <2>2. CmdTypeOK' /\ ReadTypeOK'
    BY <1>12 DEF CertDone, CmdTypeOK, ReadTypeOK, PcValues, InSession
  <2>3. StreamTypeOK'
    BY <1>12 DEF CertDone, StreamTypeOK, ReadTypeOK, ReadComplete
  <2>. QED  BY <1>12, <2>1, <2>2, <2>3, FrameSame DEF CertDone
<1>13. CASE RecvEof
  <2>1. LinkTypeOK'
    BY <1>13, LinkPrint DEF RecvEof
  <2>2. CmdTypeOK' /\ ReadTypeOK' /\ FrameTypeOK'
    BY <1>13 DEF RecvEof, ReadComplete, CmdTypeOK, ReadTypeOK, FrameTypeOK, PcValues, InSession
  <2>. QED  BY <1>13, <2>1, <2>2, StreamSame DEF RecvEof
<1>14. CASE RecvBadLength
  <2>1. LinkTypeOK'
    BY <1>14, LinkPrint DEF RecvBadLength
  <2>2. CmdTypeOK' /\ ReadTypeOK'
    BY <1>14 DEF RecvBadLength, ReadComplete, CmdTypeOK, ReadTypeOK, PcValues, InSession
  <2>. QED  BY <1>14, <2>1, <2>2, FrameSame, StreamSame DEF RecvBadLength
<1>15. CASE RecvPayload
  <2>1. CmdTypeOK' /\ ReadTypeOK'
    BY <1>15, SeqNone DEF RecvPayload, ReadComplete, StartRead, CmdTypeOK, ReadTypeOK,
                           PcValues, InSession
  <2>. QED  BY <1>15, <2>1, LinkSame, FrameSame, StreamSame DEF RecvPayload
<1>16. CASE RecvTruncated
  <2>1. CmdTypeOK' /\ ReadTypeOK'
    BY <1>16 DEF RecvTruncated, ReadTimedOut, CmdTypeOK, ReadTypeOK, PcValues, InSession
  <2>. QED  BY <1>16, <2>1, LinkSame, FrameSame, StreamSame DEF RecvTruncated
<1>17. CASE RecvFrame
  <2>1. LinkTypeOK'
    BY <1>17, LinkPrint DEF RecvFrame
  <2>2. CmdTypeOK' /\ ReadTypeOK' /\ FrameTypeOK'
    BY <1>17 DEF RecvFrame, ReadComplete, CmdTypeOK, ReadTypeOK, FrameTypeOK, PcValues, InSession
  <2>. QED  BY <1>17, <2>1, <2>2, StreamSame DEF RecvFrame
<1>. QED
  BY <1>1, <1>2, <1>3, <1>4, <1>5, <1>6, <1>7, <1>8, <1>9, <1>10, <1>11, <1>12,
     <1>13, <1>14, <1>15, <1>16, <1>17 DEF PortStep

\* What the caller decides, the timers, and a reset of the board.
LEMMA TypeCaller ==
    ASSUME TypeOK, Caller \/ Timer \/ Reboot
    PROVE  LinkTypeOK' /\ PortTypeOK'
<1>. USE PortAssumption, LinkAssumption
<1>. USE DEF TypeOK, PortTypeOK, Goto, cmdVars, readVars, frameVars
<1>1. CASE StartCommand
  <2>1. LinkTypeOK'
    BY <1>1, LinkPrint DEF StartCommand
  <2>2. op' \in CommandName /\ todo' \in Seq(CommandName)
    BY <1>1, SeqTail DEF StartCommand, CmdTypeOK
  <2>3. CmdTypeOK' /\ ReadTypeOK'
    BY <1>1, <2>2 DEF StartCommand, CmdTypeOK, ReadTypeOK, PcValues, InSession
  <2>. QED  BY <1>1, <2>1, <2>3, FrameSame, StreamSame DEF StartCommand
<1>2. CASE RecvHeader
  <2>1. CmdTypeOK' /\ ReadTypeOK'
    BY <1>2, SeqNone DEF RecvHeader, StartRead, CmdTypeOK, ReadTypeOK, PcValues, InSession
  <2>. QED  BY <1>2, <2>1, LinkSame, FrameSame, StreamSame DEF RecvHeader
<1>3. ASSUME NEW len \in 1..MaxRead, RecvCopy(len)
      PROVE  LinkTypeOK' /\ PortTypeOK'
  <2>. DEFINE avail == Len(frame_buf) - frame_off
              take  == IF len < avail THEN len ELSE avail
              part  == SubSeq(frame_buf, frame_off + 1, frame_off + take)
  <2>1. /\ frame_off \in Nat /\ Len(frame_buf) \in Nat
        /\ take \in Nat /\ frame_off + take <= Len(frame_buf)
    BY <1>3 DEF RecvCopy, FrameTypeOK
  <2>2. part \in Seq(Byte)
    <3>1. /\ frame_off + 1 \in Nat /\ frame_off + take \in Nat
          /\ frame_off + 1 >= 1 /\ frame_off + 1 <= frame_off + take + 1
      BY <2>1
    <3>. HIDE DEF take
    <3>. QED  BY <2>1, <3>1, SeqSegment DEF FrameTypeOK
  <2>. HIDE DEF part, take
  <2>3. /\ rcvd' = [rcvd EXCEPT ![attempt] = @ \o part] /\ frame_off' = frame_off + take
        /\ pc \in {"copy", "app"} /\ pc' = "app"
        /\ UNCHANGED <<linkVars, boots, op, todo, attempt, resp, got, want, connected,
                      frame_buf, sent, cert>>
    BY <1>3 DEF RecvCopy, take, part
  <2>4. attempt \in Attempt
    BY <2>3 DEF CmdTypeOK, InSession
  <2>5. rcvd[attempt] \o part \in Seq(Byte)
    BY <2>2, <2>4, SeqConcat DEF StreamTypeOK
  <2>6. StreamTypeOK'
    BY <2>3, <2>4, <2>5 DEF StreamTypeOK
  <2>7. CmdTypeOK' /\ ReadTypeOK'
    BY <2>3 DEF CmdTypeOK, ReadTypeOK, PcValues, InSession
  <2>8. FrameTypeOK'
    BY <2>1, <2>3 DEF FrameTypeOK
  <2>. QED  BY <2>3, <2>6, <2>7, <2>8, LinkSame
<1>4. ASSUME NEW n \in 1..ClientLen, Send(n)
      PROVE  LinkTypeOK' /\ PortTypeOK'
  <2>1. attempt \in Attempt /\ n \in Nat
    BY <1>4 DEF Send, CmdTypeOK
  <2>2. Chunks(n) \in Seq(UpItem) /\ \A i \in DOMAIN Chunks(n) : WellTagged(Chunks(n)[i])
    BY <2>1, ChunksType
  <2>3. LinkTypeOK'
    <3>. DEFINE items == Chunks(n)
    <3>1. items \in Seq(UpItem) /\ up' = up \o items /\ UNCHANGED <<down, rdr>>
      BY <1>4, <2>2 DEF Send
    <3>2. \A i \in DOMAIN items : WellTagged(items[i])
      BY <2>2
    <3>. HIDE DEF items
    <3>. QED  BY <3>1, <3>2, LinkSend
  <2>4. attempt \in 0..MaxAttempts /\ sent[attempt] + n \in 0..ClientLen
    BY SMTT(60), <1>4, <2>1 DEF Send, CmdTypeOK, StreamTypeOK
  <2>5. StreamTypeOK'
    BY <1>4, <2>4 DEF Send, StreamTypeOK
  <2>. QED  BY <1>4, <2>3, <2>5, CmdSame, FrameSame DEF Send, ReadTypeOK
<1>5. CASE ClientCloses
  <2>1. CmdTypeOK' /\ ReadTypeOK'
    BY <1>5 DEF ClientCloses, Close, CmdTypeOK, ReadTypeOK, PcValues, InSession
  <2>2. FrameTypeOK'
    BY <1>5, FrameEmpty DEF ClientCloses, Close
  <2>. QED  BY <1>5, <2>1, <2>2, LinkSame, StreamSame DEF ClientCloses, Close
<1>6. CASE LineTimeout
  <2>1. CmdTypeOK' /\ ReadTypeOK'
    BY <1>6 DEF LineTimeout, CmdTypeOK, ReadTypeOK, PcValues, InSession
  <2>. QED  BY <1>6, <2>1, LinkSame, FrameSame, StreamSame DEF LineTimeout
<1>7. CASE RecvWantRead
  <2>1. CmdTypeOK' /\ ReadTypeOK'
    BY <1>7 DEF RecvWantRead, ReadTimedOut, CmdTypeOK, ReadTypeOK, PcValues, InSession
  <2>. QED  BY <1>7, <2>1, LinkSame, FrameSame, StreamSame DEF RecvWantRead
<1>8. CASE Reboot
  <2>1. CmdTypeOK' /\ ReadTypeOK'
    BY <1>8 DEF Reboot, CmdTypeOK, ReadTypeOK, PcValues, InSession
  <2>2. FrameTypeOK'
    BY <1>8, FrameEmpty DEF Reboot
  <2>3. <<>> \in Seq(Byte) /\ Len(<<>>) = 0
    BY SeqNone
  <2>4. LinkTypeOK'
    BY <1>8, <2>3 DEF Reboot, LinkTypeOK
  <2>5. StreamTypeOK'
    BY <1>8, <2>3 DEF Reboot, StreamTypeOK
  <2>. QED  BY <2>1, <2>2, <2>4, <2>5
<1>. QED  BY <1>1, <1>2, <1>3, <1>4, <1>5, <1>6, <1>7, <1>8 DEF Caller, Timer

-----------------------------------------------------------------------------
\* The proxy takes an item off the UART, or writes bytes to it.
LEMMA LinkPull == ASSUME TypeOK, TakeItem, UNCHANGED <<down, rdr>>
                  PROVE  LinkTypeOK' /\ Item \in UpItem /\ WellTagged(Item)
<1>. USE DEF TypeOK, LinkTypeOK, TakeItem, Item
<1>1. /\ Len(up) \in Nat \ {0} /\ Head(up) = up[1] /\ Head(up) \in UpItem
      /\ up' \in Seq(UpItem) /\ Len(up') = Len(up) - 1
      /\ \A i \in 1..(Len(up) - 1) : up'[i] = up[i + 1]
  BY SeqTail
<1>2. ASSUME NEW i \in DOMAIN up'
      PROVE  WellTagged(up'[i])
  <2>1. i \in 1..(Len(up) - 1) /\ i + 1 \in DOMAIN up
    BY <1>1
  <2>. QED  BY <1>1, <2>1
<1>. QED  BY <1>1, <1>2

\* A proxy step that only writes to the UART keeps the line well typed.
LEMMA LinkWrite == ASSUME TypeOK, NEW bytes \in Seq(Byte), Write(bytes), UNCHANGED <<up, rdr>>
                   PROVE  LinkTypeOK'
BY SeqConcat DEF TypeOK, LinkTypeOK, Write

\* What sendall writes is named by its attempt and position.
LEMMA WrittenType ==
    ASSUME Item \in UpItem, WellTagged(Item), Item.type = "DATA", NEW n \in Nat, n <= Size
    PROVE  Written(n) \in Seq(Attempt \X Nat) /\ Len(Written(n)) = n
<1>1. Item.from \in Nat /\ Item.attempt \in Attempt
  BY DEF UpItem, WellTagged
<1>2. ASSUME NEW i \in 1..n
      PROVE  <<Item.attempt, Item.from + i - 1>> \in Attempt \X Nat
  BY <1>1
<1>3. Written(n) \in [1..n -> Attempt \X Nat]
  BY <1>2 DEF Written
<1>. QED  BY <1>3, SeqMake

\* What a session's socket is given stays a sequence of bytes of sessions.
LEMMA DeliveredType ==
    ASSUME TypeOK, conn # 0, NEW bytes \in Seq(Attempt \X Nat),
           delivered' = [delivered EXCEPT ![conn] = @ \o bytes]
    PROVE  delivered' \in [Attempt -> Seq(Attempt \X Nat)]
<1>1. conn \in Attempt /\ delivered[conn] \in Seq(Attempt \X Nat)
  BY LinkAssumption DEF TypeOK, ProxyTypeOK, Attempt
<1>2. delivered[conn] \o bytes \in Seq(Attempt \X Nat)
  BY <1>1, SeqConcat
<1>. QED  BY <1>1, <1>2 DEF TypeOK, ProxyTypeOK

\* The proxy's UART handler breaks no type.
LEMMA TypeReadUart ==
    ASSUME TypeOK, ReadUart
    PROVE  LinkTypeOK' /\ ProxyTypeOK'
<1>. USE DEF TypeOK, proxyVars
<1>1. CASE ReadLog
  BY <1>1, LinkPull DEF ReadLog, ProxyTypeOK
<1>2. CASE IgnoreData
  BY <1>2, LinkPull DEF IgnoreData, ProxyTypeOK
<1>3. CASE RelayData
  <2>1. LinkTypeOK' /\ Item \in UpItem /\ WellTagged(Item) /\ Item.type = "DATA"
    BY <1>3, LinkPull DEF RelayData
  <2>2. Size \in Nat
    BY <2>1 DEF Size, UpItem, WellTagged
  <2>3. delivered' \in [Attempt -> Seq(Attempt \X Nat)]
    <3>1. Written(Size) \in Seq(Attempt \X Nat)
      BY <2>1, <2>2, WrittenType
    <3>. QED  BY <1>3, <3>1, DeliveredType DEF RelayData
  <2>. QED  BY <1>3, <2>1, <2>3 DEF RelayData, ProxyTypeOK
<1>4. ASSUME NEW n \in 0..Size, SendFails(n)
      PROVE  LinkTypeOK' /\ ProxyTypeOK'
  <2>1. LinkTypeOK' /\ Item \in UpItem /\ WellTagged(Item) /\ Item.type = "DATA"
    BY <1>4, LinkPull DEF SendFails
  <2>2. n \in Nat /\ n <= Size
    BY <2>1 DEF Size, UpItem, WellTagged
  <2>3. delivered' \in [Attempt -> Seq(Attempt \X Nat)]
    BY <1>4, <2>1, <2>2, WrittenType, DeliveredType DEF SendFails
  <2>. QED  BY <1>4, <2>1, <2>3, LinkAssumption DEF SendFails, CloseSocket, ProxyTypeOK
<1>5. CASE StartServing
  <2>1. LinkTypeOK' /\ Item \in UpItem /\ WellTagged(Item) /\ Item.type \in CommandName
    BY <1>5, LinkPull DEF StartServing
  <2>2. Item.attempt \in Attempt
    BY <2>1 DEF CommandName, WellTagged
  <2>3. 0 \in 0..MaxAttempts
    BY LinkAssumption
  <2>4. busy' = Item /\ conn' = 0 /\ UNCHANGED <<fwd, eof, delivered>>
    BY <1>5 DEF StartServing, CloseSocket
  <2>5. ProxyTypeOK'
    BY <2>1, <2>2, <2>3, <2>4 DEF ProxyTypeOK
  <2>. QED  BY <2>1, <2>5
<1>. QED  BY <1>1, <1>2, <1>3, <1>4, <1>5 DEF ReadUart

\* The proxy answers the command it has served.
LEMMA TypeServe ==
    ASSUME TypeOK, Serve
    PROVE  LinkTypeOK' /\ ProxyTypeOK'
<1>1. ~Idle
  BY DEF Serve, ConnectOk, CertOk, CommandFails, Idle, NoCommand
<1>2. busy.attempt \in Attempt /\ busy.type \in CommandName
  BY <1>1 DEF TypeOK, ProxyTypeOK, Idle
<1>3. NoCommand \in UpItem
  BY LinkAssumption DEF NoCommand, UpItem
<1>4. PICK bytes \in Seq(Byte) : Write(bytes) /\ UNCHANGED <<up, rdr>>
  <2>1. OkLine(busy.attempt) \in Seq(Byte) /\ ErrLine(busy.attempt) \in Seq(Byte)
        /\ OkPem(busy.attempt) \in Seq(Byte)
    BY <1>2, ReplyType
  <2>. QED  BY <2>1 DEF Serve, ConnectOk, CertOk, CommandFails
<1>5. LinkTypeOK'
  BY <1>4, LinkWrite
<1>6. busy' = NoCommand /\ conn' \in {0, conn, busy.attempt} /\ UNCHANGED <<fwd, eof, delivered>>
  BY DEF Serve, ConnectOk, CertOk, CommandFails, CloseSocket
<1>7. conn' \in 0..MaxAttempts
  BY <1>2, <1>6, LinkAssumption DEF TypeOK, ProxyTypeOK, Attempt
<1>. QED  BY <1>3, <1>5, <1>6, <1>7 DEF TypeOK, ProxyTypeOK

\* The proxy forwards what it read from the socket, or says that it is closed.
LEMMA TypeReadNet ==
    ASSUME TypeOK, ReadNet
    PROVE  LinkTypeOK' /\ ProxyTypeOK'
<1>1. conn \in Attempt /\ fwd[conn] \in Nat /\ ServerStream[conn] \in Seq(ByteValue)
  BY LinkAssumption, ProxyAssumption
     DEF TypeOK, ProxyTypeOK, ReadNet, Relay, RemoteClosed, RecvFails, PollNet, Attempt
<1>2. ASSUME NEW n \in 1..NetChunk, Relay(n)
      PROVE  LinkTypeOK' /\ ProxyTypeOK'
  <2>1. /\ n \in Nat /\ fwd[conn] + n <= Len(ServerStream[conn])
        /\ Write(FrameHeader(n, conn, fwd[conn]) \o Payload(ServerStream[conn], conn, fwd[conn], n))
        /\ fwd' = [fwd EXCEPT ![conn] = @ + n] /\ UNCHANGED <<up, rdr, conn, busy, eof, delivered>>
    BY <1>2, ProxyAssumption DEF Relay
  <2>2. FrameHeader(n, conn, fwd[conn]) \in Seq(Byte)
    BY <1>1, <2>1, HeaderType
  <2>3. Payload(ServerStream[conn], conn, fwd[conn], n) \in Seq(Byte)
    BY <1>1, <2>1, PayloadType
  <2>4. LinkTypeOK'
    BY <2>1, <2>2, <2>3, SeqConcat, LinkWrite
  <2>5. ProxyTypeOK'
    BY SMTT(60), <1>1, <2>1 DEF TypeOK, ProxyTypeOK
  <2>. QED  BY <2>4, <2>5
<1>3. ASSUME CloseAndNotify, UNCHANGED <<up, rdr, busy, fwd, delivered>>, Idle
      PROVE  LinkTypeOK' /\ ProxyTypeOK'
  <2>1. FrameHeader(0, conn, fwd[conn]) \in Seq(Byte)
    BY <1>1, HeaderType
  <2>2. LinkTypeOK'
    BY <1>3, <2>1, LinkWrite DEF CloseAndNotify
  <2>3. ProxyTypeOK'
    BY <1>1, <1>3, LinkAssumption DEF CloseAndNotify, CloseSocket, Idle, TypeOK, ProxyTypeOK
  <2>. QED  BY <2>2, <2>3
<1>. QED  BY <1>2, <1>3 DEF ReadNet, RemoteClosed, RecvFails, PollNet

\* The proxy is started again; the board does not notice.
LEMMA TypeRestart ==
    ASSUME TypeOK, NEW n \in 0..Len(down), Restart(n)
    PROVE  LinkTypeOK' /\ ProxyTypeOK'
<1>1. down' \in Seq(Byte)
  BY SeqSegment DEF Restart, TypeOK, LinkTypeOK
<1>2. up' = <<>> /\ up' \in Seq(UpItem) /\ DOMAIN up' = {}
  BY SeqNone DEF Restart
<1>3. LinkTypeOK'
  BY <1>1, <1>2 DEF Restart, TypeOK, LinkTypeOK
<1>4. NoCommand \in UpItem /\ 0 \in 0..MaxAttempts
  BY LinkAssumption DEF NoCommand, UpItem
<1>. QED  BY <1>3, <1>4 DEF Restart, TypeOK, ProxyTypeOK

\* The line moves or loses a byte.
LEMMA TypeWire ==
    ASSUME TypeOK, Wire
    PROVE  LinkTypeOK'
<1>1. down \in Seq(Byte) /\ down # <<>>
  BY DEF Wire, Receive, LoseByte, TypeOK, LinkTypeOK
<1>2. Head(down) \in Byte /\ Tail(down) \in Seq(Byte)
  BY <1>1, SeqTail
<1>3. <<Head(down)>> \in Seq(Byte) /\ Len(<<Head(down)>>) = 1
  BY <1>2
<1>4. CASE Receive
  BY <1>2, <1>3, <1>4 DEF Receive, TypeOK, LinkTypeOK
<1>5. CASE LoseByte
  BY <1>2, <1>5 DEF LoseByte, TypeOK, LinkTypeOK
<1>. QED  BY <1>4, <1>5 DEF Wire

-----------------------------------------------------------------------------
\* No step of the firmware, the proxy or the line breaks a type.
LEMMA TypeStep == TypeOK /\ [Next]_vars => TypeOK'
<1>. SUFFICES ASSUME TypeOK, [Next]_vars
              PROVE  TypeOK'
  OBVIOUS
<1>1. CASE (PortStep \/ Caller \/ Timer \/ Reboot) /\ UNCHANGED proxyVars
  <2>1. LinkTypeOK' /\ PortTypeOK'
    BY <1>1, TypePortStep, TypeCaller
  <2>2. ProxyTypeOK'
    BY <1>1 DEF TypeOK, ProxyTypeOK, proxyVars
  <2>. QED  BY <2>1, <2>2 DEF TypeOK
<1>2. CASE (ReadUart \/ Serve \/ ReadNet) /\ UNCHANGED portVars
  <2>1. LinkTypeOK' /\ ProxyTypeOK'
    BY <1>2, TypeReadUart, TypeServe, TypeReadNet
  <2>2. PortTypeOK'
    BY <1>2, PortSame DEF TypeOK
  <2>. QED  BY <2>1, <2>2 DEF TypeOK
<1>3. CASE Wire /\ UNCHANGED <<portVars, proxyVars>>
  <2>1. LinkTypeOK'
    BY <1>3, TypeWire
  <2>2. PortTypeOK'
    BY <1>3, PortSame DEF TypeOK
  <2>3. ProxyTypeOK'
    BY <1>3 DEF TypeOK, ProxyTypeOK, proxyVars
  <2>. QED  BY <2>1, <2>2, <2>3 DEF TypeOK
<1>4. CASE UNCHANGED vars
  <2>1. UNCHANGED linkVars /\ UNCHANGED portVars /\ UNCHANGED proxyVars
    BY <1>4 DEF vars
  <2>2. LinkTypeOK' /\ PortTypeOK'
    BY <2>1, LinkSame, PortSame DEF TypeOK
  <2>3. ProxyTypeOK'
    BY <2>1 DEF TypeOK, ProxyTypeOK, proxyVars
  <2>. QED  BY <2>2, <2>3 DEF TypeOK
<1>5. CASE (\E n \in 0..Len(down) : Restart(n)) /\ UNCHANGED portVars
  <2>1. LinkTypeOK' /\ ProxyTypeOK'
    BY <1>5, TypeRestart
  <2>2. PortTypeOK'
    BY <1>5, PortSame DEF TypeOK
  <2>. QED  BY <2>1, <2>2 DEF TypeOK
<1>. QED  BY <1>1, <1>2, <1>3, <1>4, <1>5 DEF Next, Finished

\* In every execution, for all sizes, bounds, command sequences and faults, every
\* variable keeps its type: uart_read_exact never runs past frame_buf or out_pem
\* (tls_port.c:286, 145), recv never past the valid bytes of frame_buf, and the
\* proxy has no connection while it serves a command.
THEOREM TypeCorrect == Spec => []TypeOK
BY TypeInit, TypeStep, PTL DEF Spec

(***************************************************************************)
(* Every TCP connection receives the bytes of its own session in order:    *)
(* UplinkInv of Transport is inductive, whatever the sizes, the commands   *)
(* and the faults.                                                         *)
(***************************************************************************)

\* The fields of an item of the line.
LEMMA ItemFields ==
    ASSUME NEW u \in UpItem
    PROVE  /\ u.attempt \in 0..MaxAttempts /\ u.attempt \in Nat /\ u.from \in Nat /\ u.upto \in Nat
           /\ u.type \in {"LOG", "DATA"} \union CommandName
BY LinkAssumption DEF UpItem

\* No type of an item is both a command and a frame.
LEMMA ItemKinds == "LOG" \notin CommandName /\ "DATA" \notin CommandName
BY DEF CommandName

\* Two chains make a chain when the second one follows the last item of the first.
LEMMA ChainConcat ==
    ASSUME NEW s \in Seq(UpItem), NEW t \in Seq(UpItem), Chain(s), Chain(t),
           Len(s) > 0, Len(t) > 0, Follows(s[Len(s)].attempt, s[Len(s)].upto, t[1]),
           \A i \in DOMAIN s, j \in DOMAIN t : t[j].type \in CommandName => s[i].attempt < t[j].attempt
    PROVE  Chain(s \o t)
<1>. DEFINE r == s \o t
            m == Len(s)
            n == Len(t)
<1>1. /\ r \in Seq(UpItem) /\ Len(r) = m + n /\ m \in Nat /\ n \in Nat
      /\ \A i \in 1..m : r[i] = s[i]
      /\ \A i \in 1..(m + n) : i > m => r[i] = t[i - m]
  BY SeqConcat
<1>2. ASSUME NEW i \in 1..(m + n - 1)
      PROVE  Follows(r[i].attempt, r[i].upto, r[i + 1])
  <2>1. CASE i < m
    <3>1. i \in 1..(m - 1) /\ r[i] = s[i] /\ r[i + 1] = s[i + 1]
      BY <1>1, <2>1
    <3>. QED  BY <3>1 DEF Chain
  <2>2. CASE i = m
    <3>1. r[i] = s[m] /\ r[i + 1] = t[1]
      BY <1>1, <2>2
    <3>. QED  BY <3>1
  <2>3. CASE i > m
    <3>1. i - m \in 1..(n - 1) /\ r[i] = t[i - m] /\ r[i + 1] = t[(i - m) + 1]
      BY <1>1, <2>3
    <3>. QED  BY <3>1 DEF Chain
  <2>. QED  BY <1>1, <2>1, <2>2, <2>3
<1>3. ASSUME NEW i \in 1..(m + n), NEW j \in 1..(m + n), i < j, r[j].type \in CommandName
      PROVE  r[i].attempt < r[j].attempt
  <2>1. CASE j <= m
    <3>1. i \in DOMAIN s /\ j \in DOMAIN s /\ r[i] = s[i] /\ r[j] = s[j]
      BY <1>1, <1>3, <2>1
    <3>. QED  BY <1>3, <3>1 DEF Chain
  <2>2. CASE i <= m /\ j > m
    <3>1. i \in DOMAIN s /\ j - m \in DOMAIN t /\ r[i] = s[i] /\ r[j] = t[j - m]
      BY <1>1, <2>2
    <3>. QED  BY <1>3, <3>1
  <2>3. CASE i > m
    <3>1. i - m \in DOMAIN t /\ j - m \in DOMAIN t /\ i - m < j - m
          /\ r[i] = t[i - m] /\ r[j] = t[j - m]
      BY <1>1, <1>3, <2>3
    <3>. QED  BY <1>3, <3>1 DEF Chain
  <2>. QED  BY <1>1, <1>3, <2>1, <2>2, <2>3
<1>. HIDE DEF r
<1>4. DOMAIN r = 1..(m + n)
  BY <1>1
<1>. QED  BY SMTT(60), <1>1, <1>2, <1>3, <1>4 DEF Chain, r

\* What is left of a chain without its first item.
LEMMA ChainTail ==
    ASSUME NEW s \in Seq(UpItem), Chain(s), s # <<>>
    PROVE  Chain(Tail(s))
<1>. DEFINE t == Tail(s)
<1>1. /\ t \in Seq(UpItem) /\ Len(t) = Len(s) - 1 /\ Len(s) \in Nat \ {0}
      /\ \A i \in 1..(Len(s) - 1) : t[i] = s[i + 1]
  BY SeqTail
<1>2. ASSUME NEW i \in 1..(Len(t) - 1)
      PROVE  Follows(t[i].attempt, t[i].upto, t[i + 1])
  <2>1. i + 1 \in 1..(Len(s) - 1) /\ t[i] = s[i + 1] /\ t[i + 1] = s[(i + 1) + 1]
    BY <1>1
  <2>. QED  BY <2>1 DEF Chain
<1>3. ASSUME NEW i \in DOMAIN t, NEW j \in DOMAIN t, i < j, t[j].type \in CommandName
      PROVE  t[i].attempt < t[j].attempt
  <2>1. i + 1 \in DOMAIN s /\ j + 1 \in DOMAIN s /\ i + 1 < j + 1
        /\ t[i] = s[i + 1] /\ t[j] = s[j + 1]
    BY <1>1, <1>3
  <2>. QED  BY <1>3, <2>1 DEF Chain
<1>. HIDE DEF t
<1>. QED  BY <1>2, <1>3 DEF Chain, t

-----------------------------------------------------------------------------
\* What an item the board transmits must be for the invariant to survive.
Transmits(items) ==
    /\ items \in Seq(UpItem) /\ Len(items) > 0 /\ Chain(items)
    /\ Follows(attempt, sent[attempt], items[1])
    /\ \A i \in DOMAIN items :
          /\ attempt <= items[i].attempt /\ items[i].attempt <= attempt'
          /\ items[i].type \in CommandName => attempt < items[i].attempt /\ items[i].upto = 0
    /\ items[Len(items)].attempt = attempt'
    /\ items[Len(items)].upto = sent'[attempt']
    /\ up' = up \o items
    /\ attempt' \in 0..MaxAttempts
    /\ \A c \in Attempt : c > attempt' => sent'[c] = 0

\* A step of the board that transmits such items keeps the invariant.
LEMMA BoardSends ==
    ASSUME TypeOK, UplinkInv, NEW items, Transmits(items), UNCHANGED proxyVars
    PROVE  UplinkInv'
<1>. DEFINE m == Len(up)
            n == Len(items)
<1>1. /\ up \in Seq(UpItem) /\ items \in Seq(UpItem) /\ m \in Nat /\ n \in Nat /\ n > 0
      /\ up' \in Seq(UpItem) /\ Len(up') = m + n
      /\ \A i \in 1..m : up'[i] = up[i]
      /\ \A i \in 1..(m + n) : i > m => up'[i] = items[i - m]
  BY SeqConcat DEF Transmits, TypeOK, LinkTypeOK
<1>2. /\ attempt \in Nat /\ attempt' \in Nat /\ attempt <= attempt'
      /\ conn \in Nat /\ busy.attempt \in Nat
  <2>1. /\ attempt \in 0..MaxAttempts /\ conn \in 0..MaxAttempts /\ busy \in UpItem
        /\ attempt' \in 0..MaxAttempts
    BY DEF TypeOK, PortTypeOK, CmdTypeOK, ProxyTypeOK, Transmits
  <2>2. busy.attempt \in Nat
    BY <2>1, ItemFields
  <2>3. attempt <= items[n].attempt /\ items[n].attempt = attempt'
    BY <1>1 DEF Transmits
  <2>. QED  BY <2>1, <2>2, <2>3, LinkAssumption
<1>3. conn' = conn /\ busy' = busy /\ delivered' = delivered
  BY DEF proxyVars
<1>4. ASSUME m > 0
      PROVE  up[m].attempt = attempt /\ up[m].upto = sent[attempt]
  BY <1>1, <1>4, SeqEmpty DEF UplinkInv, BoardSide
<1>5. Chain(up')
  <2>1. CASE m = 0
    <3>1. up' = items
      BY <1>1, <2>1, SeqEmpty DEF Transmits
    <3>. QED  BY <3>1 DEF Transmits
  <2>2. CASE m > 0
    <3>1. Follows(up[m].attempt, up[m].upto, items[1])
      BY <1>4, <2>2 DEF Transmits
    <3>2. ASSUME NEW i \in DOMAIN up, NEW j \in DOMAIN items, items[j].type \in CommandName
          PROVE  up[i].attempt < items[j].attempt
      <4>1. up[i].attempt <= attempt /\ attempt < items[j].attempt
        BY <3>2 DEF UplinkInv, BoardSide, Transmits
      <4>2. up[i] \in UpItem /\ items[j] \in UpItem
        BY <1>1, SeqElt
      <4>3. up[i].attempt \in Nat /\ items[j].attempt \in Nat
        BY <4>2, ItemFields
      <4>. QED  BY <1>2, <4>1, <4>3
    <3>. QED  BY <1>1, <2>2, <3>1, <3>2, ChainConcat DEF UplinkInv, BoardSide, Transmits
  <2>. QED  BY <1>1, <2>1, <2>2
<1>6. ASSUME NEW i \in DOMAIN up'
      PROVE  /\ up'[i].attempt <= attempt'
             /\ up'[i].type \in CommandName =>
                   /\ up'[i].upto = 0 /\ delivered'[up'[i].attempt] = <<>>
                   /\ conn' < up'[i].attempt /\ busy'.attempt < up'[i].attempt
  <2>. DEFINE u == up'[i]
  <2>1. u \in UpItem
    BY <1>1, SeqElt
  <2>2. u.attempt \in 0..MaxAttempts /\ u.attempt \in Nat
    BY <2>1, ItemFields
  <2>3. CASE i <= m
    <3>1. i \in DOMAIN up /\ u = up[i]
      BY <1>1, <2>3
    <3>2. /\ u.attempt <= attempt
          /\ u.type \in CommandName =>
                   /\ u.upto = 0 /\ delivered[u.attempt] = <<>>
                   /\ conn < u.attempt /\ busy.attempt < u.attempt
      BY <3>1 DEF UplinkInv, BoardSide
    <3>. QED  BY <1>2, <1>3, <2>2, <3>2
  <2>4. CASE i > m
    <3>1. i - m \in DOMAIN items /\ u = items[i - m]
      BY <1>1, <2>4
    <3>2. /\ u.attempt <= attempt'
          /\ u.type \in CommandName => attempt < u.attempt /\ u.upto = 0
      BY <3>1 DEF Transmits
    <3>3. u.type \in CommandName => u.attempt \in Attempt /\ delivered[u.attempt] = <<>>
      BY <1>2, <2>2, <3>2 DEF UplinkInv, BoardSide, Attempt
    <3>4. conn <= attempt /\ busy.attempt <= attempt
      BY DEF UplinkInv, HostSide
    <3>. QED  BY <1>2, <1>3, <2>2, <3>2, <3>3, <3>4
  <2>. QED  BY <1>1, <2>3, <2>4
<1>7. up'[Len(up')].attempt = attempt' /\ up'[Len(up')].upto = sent'[attempt']
  <2>1. up'[Len(up')] = items[n]
    BY <1>1
  <2>. QED  BY <2>1 DEF Transmits
<1>8. ASSUME NEW c \in Attempt, c > attempt'
      PROVE  sent'[c] = 0 /\ delivered'[c] = <<>>
  <2>1. sent'[c] = 0
    BY <1>8 DEF Transmits
  <2>2. c > attempt
    BY <1>2, <1>8 DEF Attempt
  <2>. QED  BY <1>3, <2>1, <2>2 DEF UplinkInv, BoardSide
<1>9. BoardSide'
  BY <1>5, <1>6, <1>7, <1>8 DEF BoardSide
<1>10. up' # <<>> /\ \A c, k : Expected(c, k) => Follows(c, k, up'[1])
  <2>1. up' # <<>>
    BY <1>1, SeqEmpty
  <2>2. CASE m = 0
    <3>1. up = <<>> /\ up'[1] = items[1]
      BY <1>1, <2>2, SeqEmpty
    <3>2. \A c, k : Expected(c, k) => c = attempt /\ k = sent[attempt]
      BY <3>1 DEF Expected
    <3>3. Follows(attempt, sent[attempt], up'[1])
      BY <3>1 DEF Transmits
    <3>. QED  BY <2>1, <3>2, <3>3
  <2>3. CASE m > 0
    <3>1. up # <<>> /\ up'[1] = up[1]
      BY <1>1, <2>3, SeqEmpty
    <3>. QED  BY <2>1, <3>1 DEF Expected
  <2>. QED  BY <1>1, <2>2, <2>3
<1>11. HostSide'
  <2>1. conn' <= attempt' /\ busy'.attempt <= attempt'
    BY <1>2, <1>3 DEF UplinkInv, HostSide
  <2>2. ASSUME conn # 0
        PROVE  Follows(conn, Len(delivered[conn]), up'[1])
    BY <1>10, <2>2 DEF UplinkInv, HostSide
  <2>3. ASSUME busy # NoCommand
        PROVE  delivered[busy.attempt] = <<>> /\ Follows(busy.attempt, 0, up'[1])
    BY <1>10, <2>3 DEF UplinkInv, HostSide
  <2>4. /\ conn' # 0 => Expected(conn, Len(delivered[conn]))'
        /\ busy' # NoCommand => delivered'[busy'.attempt] = <<>> /\ Expected(busy.attempt, 0)'
    BY <1>3, <1>10, <2>2, <2>3 DEF Expected
  <2>. QED  BY <2>1, <2>4 DEF HostSide
<1>12. UplinkInOrder'
  BY <1>3 DEF UplinkInv, UplinkInOrder
<1>. QED  BY <1>9, <1>11, <1>12 DEF UplinkInv

-----------------------------------------------------------------------------
\* A LOG frame that is printed in the attempt in progress.
LEMMA PrintTransmits ==
    ASSUME TypeOK, UplinkInv, PrintLog, UNCHANGED <<attempt, sent>>
    PROVE  Transmits(<<Log>>)
<1>1. attempt \in 0..MaxAttempts /\ attempt \in Nat /\ sent[attempt] \in Nat
  BY LinkAssumption, PortAssumption DEF TypeOK, PortTypeOK, CmdTypeOK, StreamTypeOK
<1>2. Log \in UpItem
  BY LogType
<1>3. /\ Log.type = "LOG" /\ Log.attempt = attempt
      /\ Log.from = sent[attempt] + 1 /\ Log.upto = sent[attempt]
  BY DEF Log
<1>. DEFINE items == <<Log>>
<1>4. items \in Seq(UpItem) /\ Len(items) = 1 /\ items[1] = Log
  BY <1>2, SeqSmall
<1>. HIDE DEF items
<1>5. Follows(attempt, sent[attempt], items[1])
  BY <1>3, <1>4 DEF Follows
<1>6. Chain(items)
  BY <1>4 DEF Chain
<1>7. up' = up \o items
  BY <1>2 DEF items, PrintLog, TypeOK, LinkTypeOK
<1>8. \A c \in Attempt : c > attempt => sent[c] = 0
  BY DEF UplinkInv, BoardSide
<1>9. Transmits(items)
  BY <1>1, <1>3, <1>4, <1>5, <1>6, <1>7, <1>8, ItemKinds DEF Transmits
<1>. QED  BY <1>9 DEF items

\* The LOG frame and the command line of a new attempt.
LEMMA CommandTransmits ==
    ASSUME TypeOK, UplinkInv, SendCommand
    PROVE  Transmits(<<Log, Command(op, attempt + 1)>>)
<1>. DEFINE cmd == Command(op, attempt + 1)
            items == <<Log, cmd>>
<1>1. /\ attempt \in 0..MaxAttempts /\ attempt \in Nat /\ sent[attempt] \in Nat
      /\ attempt + 1 \in Attempt /\ attempt + 1 \in 0..MaxAttempts /\ op \in CommandName
  <2>1. attempt \in 0..MaxAttempts /\ op \in CommandName /\ attempt < MaxAttempts
    BY DEF TypeOK, PortTypeOK, CmdTypeOK, SendCommand
  <2>2. sent[attempt] \in Nat
    BY <2>1, PortAssumption DEF TypeOK, PortTypeOK, StreamTypeOK
  <2>. QED  BY <2>1, <2>2, LinkAssumption DEF Attempt
<1>2. Log \in UpItem
  BY LogType
<1>3. /\ Log.type = "LOG" /\ Log.attempt = attempt
      /\ Log.from = sent[attempt] + 1 /\ Log.upto = sent[attempt]
  BY DEF Log
<1>4. cmd.type = op /\ cmd.attempt = attempt + 1 /\ cmd.from = 1 /\ cmd.upto = 0
  BY DEF Command
<1>5. cmd \in UpItem
  BY <1>1 DEF Command, UpItem
<1>. HIDE DEF cmd
<1>6. items \in Seq(UpItem) /\ Len(items) = 2 /\ items[1] = Log /\ items[2] = cmd
  BY <1>2, <1>5, SeqSmall
<1>7. up' = up \o items /\ attempt' = attempt + 1 /\ sent' = sent
  BY DEF SendCommand, items, cmd
<1>. HIDE DEF items
<1>8. Follows(attempt, sent[attempt], items[1])
  BY <1>3, <1>6 DEF Follows
<1>9. Chain(items)
  <2>1. Follows(items[1].attempt, items[1].upto, items[2])
    BY <1>1, <1>3, <1>4, <1>6 DEF Follows
  <2>2. items[1].attempt < items[2].attempt
    BY <1>1, <1>3, <1>4, <1>6
  <2>. QED  BY <1>6, <2>1, <2>2 DEF Chain
<1>10. \A c \in Attempt : c > attempt => sent[c] = 0
  BY DEF UplinkInv, BoardSide
<1>11. sent[attempt + 1] = 0 /\ \A c \in Attempt : c > attempt + 1 => sent[c] = 0
  BY <1>1, <1>10 DEF Attempt
<1>12. \A i \in DOMAIN items :
          /\ attempt <= items[i].attempt /\ items[i].attempt <= attempt'
          /\ items[i].type \in CommandName => attempt < items[i].attempt /\ items[i].upto = 0
  <2>1. /\ attempt <= items[1].attempt /\ items[1].attempt <= attempt'
        /\ items[1].type \notin CommandName
    BY <1>1, <1>3, <1>6, <1>7, ItemKinds
  <2>2. attempt <= items[2].attempt /\ items[2].attempt <= attempt'
        /\ attempt < items[2].attempt /\ items[2].upto = 0
    BY <1>1, <1>4, <1>6, <1>7
  <2>. QED  BY <1>6, <2>1, <2>2
<1>13. Transmits(items)
  BY <1>1, <1>4, <1>6, <1>7, <1>8, <1>9, <1>11, <1>12 DEF Transmits
<1>. QED  BY <1>13 DEF items, cmd

\* The DATA frames of one tls_port_send: together they carry its n bytes, in
\* order, the last one shorter when the chunk size does not divide n.
LEMMA ChunksTransmit ==
    ASSUME TypeOK, UplinkInv, NEW n \in 1..ClientLen, Send(n)
    PROVE  Transmits(Chunks(n))
<1>. DEFINE M == UART_TX_CHUNK_MAX
            k == (n + M - 1) \div M
            s == sent[attempt]
<1>1. /\ attempt \in Attempt /\ attempt \in 0..MaxAttempts /\ attempt \in Nat
      /\ n \in Nat /\ n > 0 /\ s \in Nat /\ M \in Nat /\ M > 0
  BY LinkAssumption, PortAssumption
     DEF TypeOK, PortTypeOK, CmdTypeOK, StreamTypeOK, Send, Attempt
<1>2. k \in Nat /\ n <= k * M /\ k > 0 /\ \A i \in 1..k : (i - 1) * M < n
  BY <1>1, ChunkCount
<1>3. Chunks(n) = [i \in 1..k |->
          [type |-> "DATA", attempt |-> attempt, from |-> s + (i - 1) * M + 1,
           upto |-> s + (IF i * M < n THEN i * M ELSE n)]]
  BY DEF Chunks
<1>4. Chunks(n) \in Seq(UpItem)
  BY <1>1, ChunksType
<1>. DEFINE items == Chunks(n)
<1>5. items \in Seq(UpItem) /\ Len(items) = k
  BY <1>2, <1>3, <1>4
<1>6. ASSUME NEW i \in 1..k
      PROVE  /\ items[i].type = "DATA" /\ items[i].attempt = attempt
             /\ items[i].from = s + (i - 1) * M + 1
             /\ items[i].upto = s + (IF i * M < n THEN i * M ELSE n)
  BY <1>3
<1>7. up' = up \o items /\ attempt' = attempt /\ sent' = [sent EXCEPT ![attempt] = s + n]
  BY DEF Send, cmdVars
<1>. HIDE DEF k, items
<1>8. ASSUME NEW i \in 1..(k - 1)
      PROVE  Follows(items[i].attempt, items[i].upto, items[i + 1])
  <2>1. i \in 1..k /\ i + 1 \in 1..k /\ (i + 1) - 1 = i
    BY <1>2
  <2>2. i * M < n
    BY <1>2, <2>1
  <2>3. items[i].attempt = attempt /\ items[i].upto = s + i * M
    BY <1>6, <2>1, <2>2
  <2>4. items[i + 1].type = "DATA" /\ items[i + 1].attempt = attempt
        /\ items[i + 1].from = s + i * M + 1
    BY <1>6, <2>1
  <2>. QED  BY <2>3, <2>4 DEF Follows
<1>9. Chain(items)
  <2>1. \A j \in DOMAIN items : items[j].type \notin CommandName
    BY <1>2, <1>5, <1>6, ItemKinds
  <2>. QED  BY <1>5, <1>8, <2>1 DEF Chain
<1>10. Follows(attempt, s, items[1])
  <2>1. items[1].type = "DATA" /\ items[1].attempt = attempt /\ items[1].from = s + (1 - 1) * M + 1
    BY <1>2, <1>6
  <2>2. (1 - 1) * M = 0
    BY <1>1
  <2>. QED  BY <1>1, <2>1, <2>2 DEF Follows
<1>11. items[k].attempt = attempt /\ items[k].upto = s + n
  <2>1. k \in 1..k /\ ~(k * M < n)
    <3>1. k * M \in Nat
      BY <1>1, <1>2
    <3>. QED  BY <1>1, <1>2, <3>1
  <2>. QED  BY <1>6, <2>1
<1>12. sent'[attempt] = s + n
  BY <1>1, <1>7 DEF TypeOK, PortTypeOK, StreamTypeOK
<1>13. ASSUME NEW c \in Attempt, c > attempt
       PROVE  sent'[c] = 0
  <2>1. sent[c] = 0
    BY <1>13 DEF UplinkInv, BoardSide
  <2>2. c # attempt /\ c \in 0..MaxAttempts
    BY <1>1, <1>13, LinkAssumption DEF Attempt
  <2>. QED  BY <1>7, <2>1, <2>2 DEF TypeOK, PortTypeOK, StreamTypeOK
<1>14. \A i \in DOMAIN items :
          /\ attempt <= items[i].attempt /\ items[i].attempt <= attempt
          /\ items[i].type \notin CommandName
  BY SMTT(60), <1>1, <1>2, <1>5, <1>6, ItemKinds
<1>15. Len(items) > 0
  BY <1>2, <1>5
<1>16. items[Len(items)].attempt = attempt' /\ items[Len(items)].upto = sent'[attempt']
  BY <1>5, <1>7, <1>11, <1>12
<1>17. Transmits(items)
  BY <1>1, <1>5, <1>7, <1>9, <1>10, <1>13, <1>14, <1>15, <1>16 DEF Transmits
<1>. QED  BY <1>17 DEF items

\* Steps that transmit nothing and reach no connection.
LEMMA UplinkSame ==
    ASSUME UplinkInv, UNCHANGED <<up, attempt, sent, conn, busy, delivered>>
    PROVE  UplinkInv'
<1>1. BoardSide'
  BY DEF UplinkInv, BoardSide, Chain, Follows
<1>2. HostSide'
  BY DEF UplinkInv, HostSide, Expected, Follows
<1>3. UplinkInOrder'
  BY DEF UplinkInv, UplinkInOrder
<1>. QED  BY <1>1, <1>2, <1>3 DEF UplinkInv

\* What the firmware does.
LEMMA UplinkBoard ==
    ASSUME TypeOK, UplinkInv, PortStep \/ Caller \/ Timer \/ Reboot, UNCHANGED proxyVars
    PROVE  UplinkInv'
<1>. USE DEF cmdVars, linkVars
<1>1. ASSUME NEW n \in 1..ClientLen, Send(n)
      PROVE  UplinkInv'
  BY <1>1, ChunksTransmit, BoardSends
<1>2. CASE SendCommand
  BY <1>2, CommandTransmits, BoardSends
<1>3. CASE PrintLog /\ UNCHANGED <<attempt, sent>>
  BY <1>3, PrintTransmits, BoardSends
<1>4. CASE UNCHANGED <<up, attempt, sent>>
  BY <1>4, UplinkSame DEF proxyVars
<1>5. CASE PortStep
  <2>1. CASE DrainByte \/ DrainDone \/ LineByte \/ ReadExact
    BY <1>4, <2>1 DEF DrainByte, DrainDone, LineByte, ReadExact, TakeByte, portVars
  <2>2. CASE ConnectAccepted \/ ConnectRejected \/ CertDone
    BY <1>3, <2>2 DEF ConnectAccepted, ConnectRejected, CertDone
  <2>3. CASE RecvEof \/ RecvBadLength \/ RecvFrame
    BY <1>3, <2>3 DEF RecvEof, RecvBadLength, RecvFrame
  <2>4. CASE CertRejected \/ CertAccepted \/ CertLength \/ CertTimeout
    BY <1>3, <1>4, <2>4
       DEF CertRejected, CertAccepted, CertLength, CertTimeout, CertBody, CertFails
  <2>5. CASE RecvPayload \/ RecvTruncated
    BY <1>4, <2>5 DEF RecvPayload, RecvTruncated
  <2>. QED  BY <1>2, <1>5, <2>1, <2>2, <2>3, <2>4, <2>5 DEF PortStep
<1>6. CASE Caller
  <2>1. CASE StartCommand
    BY <1>3, <2>1 DEF StartCommand
  <2>2. CASE RecvHeader \/ (\E len \in 1..MaxRead : RecvCopy(len)) \/ ClientCloses
    BY <1>4, <2>2 DEF RecvHeader, RecvCopy, ClientCloses, Close
  <2>. QED  BY <1>1, <1>6, <2>1, <2>2 DEF Caller
<1>7. CASE Timer \/ Reboot
  BY <1>4, <1>7 DEF Timer, LineTimeout, RecvWantRead, Reboot
<1>. QED  BY <1>5, <1>6, <1>7

-----------------------------------------------------------------------------
\* What is left of the line, when the proxy has taken an item off it.
LEMMA Taken ==
    ASSUME TypeOK, UplinkInv, TakeItem, UNCHANGED <<attempt, sent>>
    PROVE  /\ Item \in UpItem /\ Item.attempt \in Nat /\ Item.attempt <= attempt
           /\ Chain(up')
           /\ up' # <<>> => up'[Len(up')].attempt = attempt' /\ up'[Len(up')].upto = sent'[attempt']
           /\ \A i \in DOMAIN up' :
                 /\ up'[i] \in UpItem /\ up'[i].attempt <= attempt'
                 /\ up'[i].type \in CommandName =>
                       /\ up'[i].upto = 0 /\ delivered[up'[i].attempt] = <<>>
                       /\ conn < up'[i].attempt /\ busy.attempt < up'[i].attempt
                       /\ Item.attempt < up'[i].attempt
           /\ IF up' = <<>> THEN Item.attempt = attempt' /\ Item.upto = sent'[Item.attempt]
              ELSE Follows(Item.attempt, Item.upto, up'[1])
<1>1. /\ up \in Seq(UpItem) /\ up # <<>> /\ up' \in Seq(UpItem)
      /\ Len(up) \in Nat \ {0} /\ Len(up') = Len(up) - 1
      /\ Item = up[1] /\ Item \in UpItem
      /\ \A i \in 1..(Len(up) - 1) : up'[i] = up[i + 1]
  BY SeqTail DEF TypeOK, LinkTypeOK, TakeItem, Item
<1>2. Item.attempt \in Nat /\ Item.attempt <= attempt
  BY <1>1, ItemFields DEF UplinkInv, BoardSide
<1>3. Chain(up')
  BY <1>1, ChainTail DEF TakeItem, UplinkInv, BoardSide
<1>4. ASSUME up' # <<>>
      PROVE  up'[Len(up')].attempt = attempt' /\ up'[Len(up')].upto = sent'[attempt']
  <2>1. Len(up') \in 1..(Len(up) - 1) /\ Len(up') + 1 = Len(up)
    BY <1>1, <1>4, SeqEmpty
  <2>2. up'[Len(up')] = up[Len(up)]
    BY <1>1, <2>1
  <2>. QED  BY <1>1, <2>2 DEF UplinkInv, BoardSide
<1>5. ASSUME NEW i \in DOMAIN up'
      PROVE  /\ up'[i] \in UpItem /\ up'[i].attempt <= attempt'
             /\ up'[i].type \in CommandName =>
                       /\ up'[i].upto = 0 /\ delivered[up'[i].attempt] = <<>>
                       /\ conn < up'[i].attempt /\ busy.attempt < up'[i].attempt
                       /\ Item.attempt < up'[i].attempt
  <2>1. i + 1 \in DOMAIN up /\ 1 \in DOMAIN up /\ 1 < i + 1 /\ up'[i] = up[i + 1]
    BY <1>1
  <2>2. up[i + 1] \in UpItem
    BY <1>1, <2>1, SeqElt
  <2>3. up[i + 1].type \in CommandName => up[1].attempt < up[i + 1].attempt
    BY <2>1 DEF UplinkInv, BoardSide, Chain
  <2>. QED  BY <1>1, <2>1, <2>2, <2>3 DEF UplinkInv, BoardSide
<1>6. CASE up' = <<>>
  <2>1. Len(up) = 1
    BY <1>1, <1>6, SeqEmpty
  <2>2. Item.attempt = attempt /\ Item.upto = sent[attempt]
    BY <1>1, <2>1 DEF UplinkInv, BoardSide
  <2>. QED  BY <1>1, <1>2, <1>3, <1>4, <1>5, <1>6, <2>2
<1>7. CASE up' # <<>>
  <2>1. 1 \in 1..(Len(up) - 1) /\ up'[1] = up[1 + 1]
    BY <1>1, <1>7, SeqEmpty
  <2>2. Follows(Item.attempt, Item.upto, up'[1])
    BY <1>1, <2>1 DEF UplinkInv, BoardSide, Chain
  <2>. QED  BY <1>1, <1>2, <1>3, <1>4, <1>5, <1>7, <2>2
<1>. QED  BY <1>6, <1>7

\* The proxy takes a frame and keeps, or loses, its connection c, to which it has
\* written the bytes that follow in c's stream.
LEMMA FrameTaken ==
    ASSUME TypeOK, UplinkInv, TakeItem, UNCHANGED <<attempt, sent, busy>>,
           conn' \in {0, conn},
           \A c \in Attempt : c # conn => delivered'[c] = delivered[c],
           conn' # 0 => Item.attempt = conn /\ Len(delivered'[conn]) = Item.upto
    PROVE  BoardSide' /\ HostSide'
<1>1. /\ attempt \in Nat /\ conn \in Nat /\ conn <= attempt /\ busy.attempt <= attempt
  BY LinkAssumption DEF UplinkInv, HostSide, TypeOK, PortTypeOK, CmdTypeOK, ProxyTypeOK
<1>2. busy = NoCommand /\ busy.attempt = 0
  BY DEF TakeItem, Idle, NoCommand
<1>3. ASSUME NEW i \in DOMAIN up', up'[i].type \in CommandName
      PROVE  /\ up'[i].upto = 0 /\ delivered'[up'[i].attempt] = <<>>
             /\ conn' < up'[i].attempt /\ busy'.attempt < up'[i].attempt
  <2>1. up'[i].attempt \in 0..MaxAttempts
    BY <1>3, Taken, ItemFields
  <2>2. /\ up'[i].upto = 0 /\ delivered[up'[i].attempt] = <<>>
        /\ conn < up'[i].attempt /\ 0 < up'[i].attempt
    BY <1>2, <1>3, Taken
  <2>. QED  BY <1>1, <1>2, <2>1, <2>2 DEF Attempt
<1>4. ASSUME NEW c \in Attempt, c > attempt'
      PROVE  sent'[c] = 0 /\ delivered'[c] = <<>>
  <2>1. c # conn
    BY <1>1, <1>4 DEF Attempt
  <2>. QED  BY <1>4, <2>1 DEF UplinkInv, BoardSide
<1>5. BoardSide'
  BY <1>3, <1>4, Taken DEF BoardSide
<1>6. HostSide'
  <2>1. conn' # 0 => Expected(conn, Len(delivered[conn]))'
    <3>1. ASSUME conn' # 0
          PROVE  Item.attempt = conn' /\ Len(delivered'[conn']) = Item.upto
      BY <3>1
    <3>. QED  BY <3>1, Taken DEF Expected
  <2>. QED  BY <1>1, <1>2, <2>1 DEF HostSide
<1>. QED  BY <1>5, <1>6

\* The item that follows n bytes of attempt c, n those its connection received.
LEMMA NextItem ==
    ASSUME TypeOK, UplinkInv, TakeItem, conn # 0, Item.type \in {"LOG", "DATA"}
    PROVE  /\ Item.attempt = conn /\ Item.from = Len(delivered[conn]) + 1
           /\ Item.type = "LOG" => Item.upto = Len(delivered[conn])
           /\ conn \in Attempt /\ delivered[conn] \in Seq(Attempt \X Nat)
<1>1. conn \in Attempt /\ delivered[conn] \in Seq(Attempt \X Nat)
  BY LinkAssumption DEF TypeOK, ProxyTypeOK, Attempt
<1>2. up # <<>> /\ Item = up[1]
  BY SeqTail DEF TakeItem, Item, TypeOK, LinkTypeOK
<1>3. Follows(conn, Len(delivered[conn]), Item)
  BY <1>2 DEF UplinkInv, HostSide, Expected
<1>. QED  BY <1>1, <1>3, ItemKinds DEF Follows

\* What sendall writes, all of it or a part, carries the connection's stream on.
LEMMA WriteInOrder ==
    ASSUME TypeOK, UplinkInv, TakeItem, conn # 0, Item.type = "DATA",
           NEW n \in Nat, n <= Size,
           delivered' = [delivered EXCEPT ![conn] = @ \o Written(n)]
    PROVE  /\ UplinkInOrder'
           /\ \A c \in Attempt : c # conn => delivered'[c] = delivered[c]
           /\ Len(delivered'[conn]) = Len(delivered[conn]) + n
<1>1. /\ Item.attempt = conn /\ Item.from = Len(delivered[conn]) + 1
      /\ conn \in Attempt /\ delivered[conn] \in Seq(Attempt \X Nat)
  BY NextItem
<1>2. Item \in UpItem /\ WellTagged(Item)
  <2>1. up \in Seq(UpItem) /\ up # <<>> /\ Item = up[1] /\ 1 \in DOMAIN up
    BY SeqTail, SeqEmpty DEF TakeItem, Item, TypeOK, LinkTypeOK
  <2>. QED  BY <2>1, SeqElt DEF TypeOK, LinkTypeOK
<1>3. Written(n) \in Seq(Attempt \X Nat) /\ Len(Written(n)) = n
  BY <1>2, WrittenType
<1>. DEFINE old == delivered[conn]
            bytes == Written(n)
<1>4. \A i \in 1..n : bytes[i] = <<conn, Len(old) + 1 + i - 1>>
  BY <1>1 DEF Written
<1>. HIDE DEF old, bytes
<1>5. /\ old \in Seq(Attempt \X Nat) /\ Len(old) \in Nat
      /\ bytes \in Seq(Attempt \X Nat) /\ Len(bytes) = n
  BY <1>1, <1>3 DEF old, bytes
<1>6. /\ old \o bytes \in Seq(Attempt \X Nat) /\ Len(old \o bytes) = Len(old) + n
      /\ \A i \in 1..Len(old) : (old \o bytes)[i] = old[i]
      /\ \A i \in 1..(Len(old) + n) : i > Len(old) => (old \o bytes)[i] = bytes[i - Len(old)]
  BY ZenonT(60), <1>5, SeqConcat
<1>7. delivered'[conn] = old \o bytes /\ \A c \in Attempt : c # conn => delivered'[c] = delivered[c]
  BY <1>1 DEF TypeOK, ProxyTypeOK, old, bytes
<1>8. ASSUME NEW i \in DOMAIN (old \o bytes)
      PROVE  (old \o bytes)[i] = <<conn, i>>
  <2>1. i \in 1..(Len(old) + n)
    BY <1>6, <1>8
  <2>2. CASE i <= Len(old)
    <3>1. i \in DOMAIN delivered[conn]
      BY <1>5, <2>1, <2>2 DEF old
    <3>. QED  BY <1>1, <1>5, <1>6, <2>1, <2>2, <3>1 DEF UplinkInv, UplinkInOrder, old
  <2>3. CASE i > Len(old)
    <3>1. i - Len(old) \in 1..n /\ Len(old) + 1 + (i - Len(old)) - 1 = i
      BY <1>5, <2>1, <2>3
    <3>. QED  BY <1>4, <1>6, <2>1, <2>3, <3>1
  <2>. QED  BY <1>5, <2>1, <2>2, <2>3
<1>9. UplinkInOrder'
  <2>1. ASSUME NEW c \in Attempt, NEW i \in DOMAIN delivered'[c]
        PROVE  delivered'[c][i] = <<c, i>>
    <3>1. CASE c = conn
      BY <1>7, <1>8, <2>1, <3>1
    <3>2. CASE c # conn
      BY <1>7, <2>1, <3>2 DEF UplinkInv, UplinkInOrder
    <3>. QED  BY <3>1, <3>2
  <2>. QED  BY <2>1 DEF UplinkInOrder
<1>. QED  BY <1>6, <1>7, <1>9 DEF old

\* What the proxy reads from the UART.
LEMMA UplinkReadUart ==
    ASSUME TypeOK, UplinkInv, ReadUart, UNCHANGED portVars
    PROVE  UplinkInv'
<1>. USE DEF portVars, cmdVars, proxyVars
<1>1. CASE ReadLog
  <2>1. TakeItem /\ Item.type = "LOG" /\ UNCHANGED <<attempt, sent, conn, busy, delivered>>
    BY <1>1 DEF ReadLog
  <2>2. conn' # 0 => Item.attempt = conn /\ Len(delivered'[conn]) = Item.upto
    BY <2>1, NextItem
  <2>3. BoardSide' /\ HostSide'
    BY <2>1, <2>2, FrameTaken
  <2>. QED  BY <2>1, <2>3 DEF UplinkInv, UplinkInOrder
<1>2. CASE IgnoreData
  <2>1. TakeItem /\ conn = 0 /\ UNCHANGED <<attempt, sent, conn, busy, delivered>>
    BY <1>2 DEF IgnoreData
  <2>2. BoardSide' /\ HostSide'
    BY <2>1, FrameTaken
  <2>. QED  BY <2>1, <2>2 DEF UplinkInv, UplinkInOrder
<1>3. ASSUME Item.type = "DATA", TakeItem
      PROVE  Item.from \in Nat /\ Item.upto \in Nat /\ Item.from <= Item.upto + 1
  <2>1. Item \in UpItem /\ WellTagged(Item)
    <3>1. up \in Seq(UpItem) /\ up # <<>> /\ Item = up[1] /\ 1 \in DOMAIN up
      BY <1>3, SeqTail, SeqEmpty DEF TakeItem, Item, TypeOK, LinkTypeOK
    <3>. QED  BY <3>1, SeqElt DEF TypeOK, LinkTypeOK
  <2>. QED  BY <2>1, ItemFields DEF WellTagged
<1>4. CASE RelayData
  <2>1. /\ TakeItem /\ Item.type = "DATA" /\ conn # 0
        /\ delivered' = [delivered EXCEPT ![conn] = @ \o Written(Size)]
        /\ UNCHANGED <<attempt, sent, conn, busy>>
    BY <1>4 DEF RelayData
  <2>2. Size \in Nat /\ Size <= Size /\ Size = Item.upto + 1 - Item.from
    BY <1>3, <2>1 DEF Size
  <2>3. /\ UplinkInOrder'
        /\ \A c \in Attempt : c # conn => delivered'[c] = delivered[c]
        /\ Len(delivered'[conn]) = Len(delivered[conn]) + Size
    BY <2>1, <2>2, WriteInOrder
  <2>4. Item.attempt = conn /\ Item.from = Len(delivered[conn]) + 1 /\ Len(delivered[conn]) \in Nat
    BY <2>1, NextItem
  <2>5. Len(delivered'[conn]) = Item.upto
    BY <1>3, <2>1, <2>2, <2>3, <2>4
  <2>6. BoardSide' /\ HostSide'
    BY <2>1, <2>3, <2>4, <2>5, FrameTaken
  <2>. QED  BY <2>3, <2>6 DEF UplinkInv
<1>5. ASSUME NEW n \in 0..Size, SendFails(n)
      PROVE  UplinkInv'
  <2>1. /\ TakeItem /\ Item.type = "DATA" /\ conn # 0 /\ conn' = 0
        /\ delivered' = [delivered EXCEPT ![conn] = @ \o Written(n)]
        /\ UNCHANGED <<attempt, sent, busy>>
    BY <1>5 DEF SendFails, CloseSocket
  <2>2. n \in Nat /\ n <= Size
    BY <1>3, <2>1 DEF Size
  <2>3. /\ UplinkInOrder'
        /\ \A c \in Attempt : c # conn => delivered'[c] = delivered[c]
    BY <2>1, <2>2, WriteInOrder
  <2>4. BoardSide' /\ HostSide'
    BY <2>1, <2>3, FrameTaken
  <2>. QED  BY <2>3, <2>4 DEF UplinkInv
<1>6. CASE StartServing
  <2>1. /\ TakeItem /\ Item.type \in CommandName /\ conn' = 0 /\ busy' = Item
        /\ UNCHANGED <<attempt, sent, delivered>>
    BY <1>6 DEF StartServing, CloseSocket
  <2>2. up # <<>> /\ Item = up[1] /\ 1 \in DOMAIN up
    BY <2>1, SeqTail, SeqEmpty DEF TakeItem, Item, TypeOK, LinkTypeOK
  <2>3. Item.upto = 0 /\ delivered[Item.attempt] = <<>>
    BY <2>1, <2>2 DEF UplinkInv, BoardSide
  <2>4. ASSUME NEW i \in DOMAIN up', up'[i].type \in CommandName
        PROVE  /\ up'[i].upto = 0 /\ delivered'[up'[i].attempt] = <<>>
               /\ conn' < up'[i].attempt /\ busy'.attempt < up'[i].attempt
    <3>1. up'[i].attempt \in Nat
      BY <2>1, <2>4, Taken, ItemFields
    <3>2. conn \in Nat /\ conn < up'[i].attempt
      BY <2>1, <2>4, Taken, LinkAssumption DEF TypeOK, ProxyTypeOK
    <3>3. 0 < up'[i].attempt
      BY <3>1, <3>2
    <3>. QED  BY <2>1, <2>4, <3>3, Taken
  <2>5. BoardSide'
    <3>1. \A c \in Attempt : c > attempt' => sent'[c] = 0 /\ delivered'[c] = <<>>
      BY <2>1 DEF UplinkInv, BoardSide
    <3>. QED  BY <2>1, <2>4, <3>1, Taken DEF BoardSide
  <2>6. HostSide'
    <3>1. conn' <= attempt' /\ busy'.attempt <= attempt'
      BY <2>1, Taken, LinkAssumption DEF TypeOK, PortTypeOK, CmdTypeOK
    <3>2. Expected(busy.attempt, 0)'
      BY <2>1, <2>3, Taken DEF Expected
    <3>. QED  BY <2>1, <2>3, <3>1, <3>2 DEF HostSide
  <2>. QED  BY <2>1, <2>5, <2>6 DEF UplinkInv, UplinkInOrder
<1>. QED  BY <1>1, <1>2, <1>4, <1>5, <1>6 DEF ReadUart

\* The proxy answers a command, or reads its socket.
LEMMA UplinkHost ==
    ASSUME TypeOK, UplinkInv, Serve \/ ReadNet, UNCHANGED portVars
    PROVE  UplinkInv'
<1>. USE DEF portVars, cmdVars
<1>1. UNCHANGED <<up, attempt, sent, delivered>>
  BY DEF Serve, ReadNet, ConnectOk, CertOk, CommandFails, Relay, RemoteClosed, RecvFails,
         CloseAndNotify
<1>2. \/ busy' = busy /\ conn' \in {0, conn}
      \/ busy # NoCommand /\ busy' = NoCommand /\ conn' \in {0, busy.attempt, conn}
  BY DEF Serve, ReadNet, ConnectOk, CertOk, CommandFails, Relay, RemoteClosed, RecvFails,
         CloseAndNotify, CloseSocket, Idle, NoCommand
<1>3. attempt \in Nat /\ NoCommand.attempt = 0
  BY LinkAssumption DEF TypeOK, PortTypeOK, CmdTypeOK, NoCommand
<1>4. ASSUME NEW i \in DOMAIN up, up[i].type \in CommandName
      PROVE  conn' < up[i].attempt /\ busy'.attempt < up[i].attempt
  <2>1. conn < up[i].attempt /\ busy.attempt < up[i].attempt
    BY <1>4 DEF UplinkInv, BoardSide
  <2>2. up[i] \in UpItem /\ busy \in UpItem /\ conn \in Nat
    BY SeqElt, LinkAssumption DEF TypeOK, LinkTypeOK, ProxyTypeOK
  <2>3. up[i].attempt \in Nat /\ busy.attempt \in Nat
    BY <2>2, ItemFields
  <2>4. 0 < up[i].attempt
    BY <2>1, <2>2, <2>3
  <2>. QED  BY <1>2, <1>3, <2>1, <2>4
<1>5. BoardSide'
  BY <1>1, <1>4 DEF UplinkInv, BoardSide, Chain, Follows
<1>6. \A c, n : Expected(c, n) => IF up' = <<>> THEN c = attempt' /\ n = sent'[c]
                                 ELSE Follows(c, n, up'[1])
  BY <1>1 DEF Expected
<1>7. conn' <= attempt' /\ busy'.attempt <= attempt'
  BY <1>1, <1>2, <1>3 DEF UplinkInv, HostSide
<1>8. conn' # 0 => Expected(conn, Len(delivered[conn]))'
  <2>1. CASE conn' = conn
    BY <1>1, <1>6, <2>1 DEF UplinkInv, HostSide, Expected
  <2>2. CASE busy # NoCommand /\ conn' = busy.attempt
    <3>1. delivered'[conn'] = <<>> /\ Len(<<>>) = 0
      BY <1>1, <2>2, SeqNone DEF UplinkInv, HostSide
    <3>. QED  BY <1>1, <1>6, <2>2, <3>1 DEF UplinkInv, HostSide, Expected
  <2>. QED  BY <1>2, <2>1, <2>2
<1>9. busy' # NoCommand => delivered'[busy'.attempt] = <<>> /\ Expected(busy.attempt, 0)'
  BY <1>1, <1>2, <1>6 DEF UplinkInv, HostSide, Expected
<1>10. HostSide'
  BY <1>7, <1>8, <1>9 DEF HostSide
<1>. QED  BY <1>1, <1>5, <1>10 DEF UplinkInv, UplinkInOrder

\* A new proxy has neither a connection nor a command, and an empty line: what
\* the board goes on to send in the session it believes in is ignored.
LEMMA UplinkRestart ==
    ASSUME TypeOK, UplinkInv, NEW n \in 0..Len(down), Restart(n), UNCHANGED portVars
    PROVE  UplinkInv'
<1>. USE DEF Restart, portVars, cmdVars
<1>1. up' = <<>> /\ Len(up') = 0 /\ DOMAIN up' = {}
  BY SeqNone
<1>2. attempt \in Nat /\ NoCommand.attempt = 0
  BY LinkAssumption DEF TypeOK, PortTypeOK, CmdTypeOK, NoCommand
<1>3. BoardSide'
  <2>1. Chain(up')
    BY <1>1 DEF Chain
  <2>2. \A c \in Attempt : c > attempt' => sent'[c] = 0 /\ delivered'[c] = <<>>
    BY DEF UplinkInv, BoardSide
  <2>. QED  BY <1>1, <2>1, <2>2 DEF BoardSide
<1>4. HostSide'
  BY <1>2 DEF HostSide
<1>. QED  BY <1>3, <1>4 DEF UplinkInv, UplinkInOrder

-----------------------------------------------------------------------------
\* The invariant holds before the first command.
LEMMA UplinkInit == Init => UplinkInv
<1>. SUFFICES ASSUME Init PROVE UplinkInv
  OBVIOUS
<1>. USE DEF Init, PortInit, ProxyInit
<1>1. up = <<>> /\ Len(<<>>) = 0 /\ DOMAIN up = {}
  BY SeqNone
<1>2. BoardSide
  <2>1. Chain(up)
    BY <1>1 DEF Chain
  <2>2. \A c \in Attempt : sent[c] = 0 /\ delivered[c] = <<>>
    BY LinkAssumption DEF Attempt
  <2>. QED  BY <1>1, <2>1, <2>2 DEF BoardSide
<1>3. HostSide
  BY DEF HostSide, NoCommand
<1>4. UplinkInOrder
  BY <1>1 DEF UplinkInOrder
<1>. QED  BY <1>2, <1>3, <1>4 DEF UplinkInv

\* Every step of the firmware, the proxy or the line keeps it.
LEMMA UplinkStep == TypeOK /\ UplinkInv /\ [Next]_vars => UplinkInv'
<1>. SUFFICES ASSUME TypeOK, UplinkInv, [Next]_vars
              PROVE  UplinkInv'
  OBVIOUS
<1>1. CASE (PortStep \/ Caller \/ Timer \/ Reboot) /\ UNCHANGED proxyVars
  BY <1>1, UplinkBoard
<1>2. CASE (ReadUart \/ Serve \/ ReadNet) /\ UNCHANGED portVars
  BY <1>2, UplinkReadUart, UplinkHost
<1>3. CASE Wire /\ UNCHANGED <<portVars, proxyVars>>
  BY <1>3, UplinkSame DEF Wire, Receive, LoseByte, portVars, cmdVars, proxyVars
<1>4. CASE UNCHANGED vars
  BY <1>4, UplinkSame DEF vars, linkVars, portVars, cmdVars, proxyVars
<1>5. CASE (\E n \in 0..Len(down) : Restart(n)) /\ UNCHANGED portVars
  BY <1>5, UplinkRestart
<1>. QED  BY <1>1, <1>2, <1>3, <1>4, <1>5 DEF Next, Finished

\* In every execution what the line still holds is an unbroken run of the session's
\* bytes that starts where the open connection stands.
THEOREM UplinkInvariant == Spec => []UplinkInv
BY TypeInit, TypeStep, UplinkInit, UplinkStep, PTL DEF Spec

\* In every execution, for all chunk sizes, command sequences and faults, each TCP
\* connection has received a prefix of what its own session sent: handle_uart_frame
\* (EST_networking.py:181) may forward to whatever socket is open.
THEOREM UplinkCorrect == Spec => []UplinkInOrder
<1>1. UplinkInv => UplinkInOrder
  BY DEF UplinkInv
<1>. QED  BY <1>1, UplinkInvariant, PTL


-----------------------------------------------------------------------------
(* The bytes on their way to the board. *)

\* They are bytes; none is left when the line is silent.
LEMMA ComingType ==
    ASSUME TypeOK
    PROVE  /\ Coming \in Seq(Byte) /\ Len(Coming) \in Nat /\ DOMAIN Coming = 1..Len(Coming)
           /\ Silent => Coming = <<>>
<1>1. rdr \in Seq(Byte) /\ down \in Seq(Byte)
  BY DEF TypeOK, LinkTypeOK
<1>2. Coming \in Seq(Byte)
  BY <1>1, SeqConcat DEF Coming
<1>3. Silent => Coming = <<>>
  <2>1. <<>> \o <<>> = <<>>
    BY SeqNone, SeqUnit
  <2>. QED  BY <2>1 DEF Silent, Coming
<1>. QED  BY <1>2, <1>3, SeqDomain

\* A byte that reaches the receive register stays first.
LEMMA ReceiveComing ==
    ASSUME TypeOK, Receive
    PROVE  Coming' = Coming
<1>1. down \in Seq(Byte) /\ down # <<>> /\ rdr = <<>> /\ rdr' = <<Head(down)>> /\ down' = Tail(down)
  BY DEF TypeOK, LinkTypeOK, Receive
<1>2. rdr' \o down' = down
  BY <1>1, SeqFirst
<1>3. <<>> \o down = down
  BY <1>1, SeqUnit
<1>. QED  BY <1>1, <1>2, <1>3 DEF Coming

\* The byte the firmware takes is the first of them.
LEMMA TakeComing ==
    ASSUME TypeOK, TakeByte
    PROVE  Coming # <<>> /\ ch = Coming[1] /\ Coming' = Tail(Coming)
<1>1. /\ rdr \in Seq(Byte) /\ rdr # <<>> /\ Len(rdr) <= 1 /\ rdr' = <<>> /\ down' = down
      /\ down \in Seq(Byte)
  BY DEF TypeOK, LinkTypeOK, TakeByte
<1>2. Coming \in Seq(Byte) /\ Coming # <<>> /\ Coming[1] = rdr[1]
  BY <1>1, SeqLonger DEF Coming
<1>3. Len(rdr) = 1
  BY <1>1, SeqOne
<1>4. Tail(Coming) = down
  <2>1. /\ Len(Coming) = 1 + Len(down) /\ \A i \in 1..Len(down) : Coming[1 + i] = down[i]
    BY <1>1, <1>3, SeqOneBefore DEF Coming
  <2>2. /\ Tail(Coming) \in Seq(Byte) /\ Len(Tail(Coming)) = Len(Coming) - 1
        /\ \A i \in 1..(Len(Coming) - 1) : Tail(Coming)[i] = Coming[i + 1]
    BY <1>2, SeqTail
  <2>3. Len(down) \in Nat
    BY <1>1, SeqDomain
  <2>4. Len(Tail(Coming)) = Len(down) /\ \A i \in 1..Len(down) : Tail(Coming)[i] = down[i]
    BY <2>1, <2>2, <2>3
  <2>. QED  BY <1>1, <2>2, <2>4, SeqSame
<1>5. Coming' = down
  BY <1>1, SeqUnit DEF Coming
<1>. QED  BY <1>2, <1>4, <1>5 DEF ch

\* What the proxy writes comes after them.
LEMMA WriteComing ==
    ASSUME TypeOK, NEW v \in Seq(Byte), Write(v), UNCHANGED rdr
    PROVE  Coming' = Coming \o v
<1>1. rdr \in Seq(Byte) /\ down \in Seq(Byte) /\ down' = down \o v /\ rdr' = rdr
  BY DEF TypeOK, LinkTypeOK, Write
<1>. QED  BY <1>1, SeqAssoc DEF Coming

\* A lost byte leaves the others as they are.
LEMMA LoseComing ==
    ASSUME TypeOK, LoseByte
    PROVE  \A i \in DOMAIN Coming' : \E j \in DOMAIN Coming : Coming'[i] = Coming[j]
<1>1. /\ rdr \in Seq(Byte) /\ down \in Seq(Byte) /\ rdr # <<>> /\ Len(rdr) <= 1 /\ down # <<>>
      /\ rdr' = rdr /\ down' = Tail(down)
  BY DEF TypeOK, LinkTypeOK, LoseByte
<1>2. Len(rdr) = 1
  BY <1>1, SeqOne
<1>3. /\ Len(down) \in Nat \ {0} /\ Tail(down) \in Seq(Byte) /\ Len(Tail(down)) = Len(down) - 1
      /\ \A i \in 1..(Len(down) - 1) : Tail(down)[i] = down[i + 1]
  BY <1>1, SeqTail
<1>4. /\ Len(Coming) = 1 + Len(down) /\ Coming[1] = rdr[1]
      /\ \A i \in 1..Len(down) : Coming[1 + i] = down[i]
      /\ Coming \in Seq(Byte)
  BY <1>1, <1>2, SeqOneBefore DEF Coming
<1>. DEFINE r == Tail(down)
<1>5. /\ Coming' = rdr \o r /\ r \in Seq(Byte) /\ Len(r) = Len(down) - 1
      /\ \A i \in 1..(Len(down) - 1) : r[i] = down[i + 1]
  BY <1>1, <1>3 DEF Coming
<1>. HIDE DEF r
<1>6. /\ Coming' \in Seq(Byte) /\ Len(Coming') = 1 + Len(r) /\ Coming'[1] = rdr[1]
      /\ \A i \in 1..Len(r) : Coming'[1 + i] = r[i]
  BY <1>1, <1>2, <1>5, SeqOneBefore
<1>7. ASSUME NEW i \in DOMAIN Coming'
      PROVE  \E j \in DOMAIN Coming : Coming'[i] = Coming[j]
  <2>1. DOMAIN Coming = 1..(1 + Len(down)) /\ i \in 1..Len(down)
    BY <1>3, <1>4, <1>5, <1>6, SeqDomain
  <2>2. CASE i = 1
    BY <1>3, <1>4, <1>6, <2>1, <2>2
  <2>3. CASE i > 1
    <3>1. i - 1 \in 1..Len(r) /\ i - 1 \in 1..(Len(down) - 1) /\ i + 1 \in DOMAIN Coming
          /\ 1 + (i - 1) = i /\ i \in 1..Len(down) /\ (i - 1) + 1 = i
      BY <1>3, <1>5, <2>1, <2>3
    <3>2. Coming'[1 + (i - 1)] = r[i - 1]
      BY <1>6, <3>1
    <3>3. r[i - 1] = down[(i - 1) + 1] /\ Coming[1 + i] = down[i] /\ 1 + i = i + 1
      BY SMTT(60), <1>4, <1>5, <3>1, <1>3
    <3>4. Coming'[i] = Coming[i + 1]
      BY <3>1, <3>2, <3>3
    <3>. QED  BY <3>1, <3>4
  <2>. QED  BY <1>3, <2>1, <2>2, <2>3
<1>. QED  BY <1>7

\* A proxy that starts anew leaves the first of them.
LEMMA RestartComing ==
    ASSUME TypeOK, NEW n \in 0..Len(down), Restart(n)
    PROVE  \E m \in 0..Len(Coming) : Coming' = SubSeq(Coming, 1, m)
<1>1. /\ rdr \in Seq(Byte) /\ down \in Seq(Byte) /\ rdr' = rdr /\ down' = SubSeq(down, 1, n)
      /\ Len(down) \in Nat /\ Len(rdr) \in Nat /\ n \in Nat
  BY SeqDomain DEF TypeOK, LinkTypeOK, Restart
<1>. DEFINE k == Len(rdr)
            p == SubSeq(down, 1, n)
            m == k + n
<1>2. /\ p \in Seq(Byte) /\ Len(p) = n /\ \A i \in 1..n : p[i] = down[i]
  <2>1. 1 \in Nat /\ 1 >= 1 /\ n <= Len(down) /\ 1 <= n + 1
    BY <1>1
  <2>2. /\ p \in Seq(Byte) /\ Len(p) = n + 1 - 1 /\ \A i \in 1..(n + 1 - 1) : p[i] = down[1 + i - 1]
    BY <1>1, <2>1, SeqSegment
  <2>3. n + 1 - 1 = n /\ \A i \in 1..n : 1 + i - 1 = i
    BY <1>1
  <2>. QED  BY <2>2, <2>3
<1>3. Coming' = rdr \o p
  BY <1>1 DEF Coming
<1>. HIDE DEF p
<1>4. /\ Coming \in Seq(Byte) /\ Len(Coming) = k + Len(down)
      /\ \A i \in 1..k : Coming[i] = rdr[i]
      /\ \A i \in 1..(k + Len(down)) : i > k => Coming[i] = down[i - k]
  BY <1>1, SeqConcat DEF Coming
<1>5. /\ Coming' \in Seq(Byte) /\ Len(Coming') = m
      /\ \A i \in 1..k : Coming'[i] = rdr[i]
      /\ \A i \in 1..m : i > k => Coming'[i] = p[i - k]
  BY ZenonT(60), <1>1, <1>2, <1>3, SeqConcat
<1>. HIDE DEF k
<1>. DEFINE q == SubSeq(Coming, 1, m)
<1>6. m \in 0..Len(Coming) /\ k \in Nat
  BY <1>1, <1>4 DEF k
<1>7. q \in Seq(Byte) /\ Len(q) = m /\ \A i \in 1..m : q[i] = Coming[i]
  <2>. HIDE DEF m
  <2>1. m \in Nat /\ 1 \in Nat /\ 1 >= 1 /\ m <= Len(Coming) /\ 1 <= m + 1
    BY <1>4, <1>6, SeqDomain
  <2>2. /\ q \in Seq(Byte) /\ Len(q) = m + 1 - 1 /\ \A i \in 1..(m + 1 - 1) : q[i] = Coming[1 + i - 1]
    BY <1>4, <2>1, SeqSegment
  <2>3. m + 1 - 1 = m /\ \A i \in 1..m : 1 + i - 1 = i
    BY <2>1
  <2>. QED  BY <2>2, <2>3
<1>8. ASSUME NEW i \in 1..m
      PROVE  Coming'[i] = Coming[i]
  <2>1. CASE i <= k
    BY <1>4, <1>5, <1>6, <2>1
  <2>2. CASE i > k
    <3>1. i - k \in 1..n /\ i \in 1..(k + Len(down))
      BY <1>1, <1>6, <2>2
    <3>. QED  BY <1>2, <1>4, <1>5, <2>2, <3>1
  <2>. QED  BY <1>6, <2>1, <2>2
<1>. HIDE DEF q, m
<1>9. Coming' = q
  BY <1>5, <1>7, <1>8, SeqSame
<1>. QED  BY <1>6, <1>9 DEF q

-----------------------------------------------------------------------------
(* Sequences of bytes that can come. *)

\* After the reader has read one byte,
LEMMA RunsRead ==
    ASSUME NEW c, NEW f, NEW t, NEW a, NEW w \in Seq(Byte), w # <<>>, Runs(c, f, t, a, w)
    PROVE  /\ After(c, t, a, w[1]) /\ (Stale(c, w[1]) \/ Current(c, f, t, w[1])) /\ w[1] \in Byte
           /\ Runs(c, f, t, w[1], Tail(w)) /\ Final(w[1], Tail(w)) = Final(a, w)
<1>. DEFINE r == Tail(w)
<1>1. /\ Len(w) \in Nat \ {0} /\ DOMAIN w = 1..Len(w) /\ r \in Seq(Byte)
      /\ Len(r) = Len(w) - 1 /\ DOMAIN r = 1..Len(r)
      /\ \A i \in 1..(Len(w) - 1) : r[i] = w[i + 1]
  BY SeqTail, SeqDomain
<1>. HIDE DEF r
<1>2. 1 \in DOMAIN w /\ w[1] \in Byte
  BY <1>1, SeqElt
<1>3. ASSUME NEW i \in DOMAIN r
      PROVE  Stale(c, r[i]) \/ Current(c, f, t, r[i])
  <2>1. i + 1 \in DOMAIN w /\ r[i] = w[i + 1]
    BY <1>1
  <2>. QED  BY <2>1 DEF Runs
<1>4. r # <<>> => After(c, t, w[1], r[1])
  <2>1. r # <<>> => 1 \in 1..(Len(w) - 1) /\ r[1] = w[1 + 1]
    BY <1>1, SeqEmpty
  <2>. QED  BY <2>1 DEF Runs
<1>5. ASSUME NEW i \in 1..(Len(r) - 1)
      PROVE  After(c, t, r[i], r[i + 1])
  <2>1. i + 1 \in 1..(Len(w) - 1) /\ r[i] = w[i + 1] /\ r[i + 1] = w[(i + 1) + 1]
    BY <1>1
  <2>. QED  BY <2>1 DEF Runs
<1>6. Final(w[1], r) = Final(a, w)
  <2>1. CASE r = <<>>
    <3>1. Len(r) = 0
      BY <1>1, <2>1, SeqEmpty
    <3>2. Len(w) \in Nat /\ Len(r) = Len(w) - 1
      BY <1>1
    <3>3. Len(w) = 1
      BY <3>1, <3>2
    <3>. QED  BY <2>1, <3>3 DEF Final
  <2>2. CASE r # <<>>
    <3>1. Len(r) \in 1..(Len(w) - 1) /\ Len(r) + 1 = Len(w)
      BY <1>1, <2>2, SeqEmpty
    <3>. QED  BY <1>1, <2>2, <3>1 DEF Final
  <2>. QED  BY <2>1, <2>2
<1>7. Runs(c, f, t, w[1], r)
  BY <1>3, <1>4, <1>5 DEF Runs
<1>. QED  BY <1>2, <1>6, <1>7 DEF r, Runs

\* seen from another byte that lets the same follow,
LEMMA RunsFrom ==
    ASSUME NEW c, NEW f, NEW t, NEW a, NEW e, NEW w, Runs(c, f, t, a, w),
           w # <<>> => (After(c, t, a, w[1]) => After(c, t, e, w[1]))
    PROVE  Runs(c, f, t, e, w)
BY DEF Runs

\* when more bytes come,
LEMMA RunsMore ==
    ASSUME NEW c, NEW f, NEW t, NEW a, NEW w \in Seq(Byte), NEW v \in Seq(Byte),
           Runs(c, f, t, a, w), Runs(c, f, t, Final(a, w), v)
    PROVE  /\ Runs(c, f, t, a, w \o v)
           /\ Final(a, w \o v) = IF v = <<>> THEN Final(a, w) ELSE v[Len(v)]
<1>1. CASE v = <<>>
  <2>1. w \o v = w
    BY <1>1, SeqUnit
  <2>. QED  BY <1>1, <2>1
<1>2. CASE w = <<>>
  <2>1. w \o v = v
    BY <1>2, SeqUnit
  <2>. QED  BY <1>2, <2>1 DEF Final
<1>3. CASE v # <<>> /\ w # <<>>
  <2>. DEFINE r == w \o v
              m == Len(w)
              n == Len(v)
  <2>1. /\ r \in Seq(Byte) /\ Len(r) = m + n /\ m \in Nat /\ n \in Nat /\ m > 0 /\ n > 0
        /\ \A i \in 1..m : r[i] = w[i]
        /\ \A i \in 1..(m + n) : i > m => r[i] = v[i - m]
        /\ DOMAIN r = 1..(m + n) /\ DOMAIN w = 1..m /\ DOMAIN v = 1..n
    BY <1>3, SeqConcat, SeqDomain, SeqEmpty
  <2>. HIDE DEF r
  <2>2. ASSUME NEW i \in DOMAIN r
        PROVE  Stale(c, r[i]) \/ Current(c, f, t, r[i])
    <3>1. CASE i <= m
      BY <2>1, <3>1 DEF Runs
    <3>2. CASE i > m
      <4>1. i - m \in DOMAIN v /\ r[i] = v[i - m]
        BY <2>1, <3>2
      <4>. QED  BY <4>1 DEF Runs
    <3>. QED  BY <2>1, <3>1, <3>2
  <2>3. After(c, t, a, r[1])
    BY <1>3, <2>1 DEF Runs
  <2>4. ASSUME NEW i \in 1..(m + n - 1)
        PROVE  After(c, t, r[i], r[i + 1])
    <3>1. CASE i < m
      <4>1. i \in 1..(m - 1) /\ r[i] = w[i] /\ r[i + 1] = w[i + 1]
        BY SMTT(60), <2>1, <3>1
      <4>. QED  BY <4>1 DEF Runs
    <3>2. CASE i = m
      <4>1. r[i] = w[m] /\ r[i + 1] = v[1]
        BY SMTT(60), <2>1, <3>2
      <4>. QED  BY <1>3, <4>1 DEF Runs, Final
    <3>3. CASE i > m
      <4>1. /\ i \in 1..(m + n) /\ i + 1 \in 1..(m + n) /\ i + 1 > m
            /\ i - m \in 1..(n - 1) /\ (i + 1) - m = (i - m) + 1
        BY <2>1, <3>3
      <4>2. r[i] = v[i - m] /\ r[i + 1] = v[(i - m) + 1]
        BY <2>1, <3>3, <4>1
      <4>. QED  BY <4>1, <4>2 DEF Runs
    <3>. QED  BY <2>1, <3>1, <3>2, <3>3
  <2>5. r # <<>> /\ r[Len(r)] = v[n]
    <3>1. m + n > m /\ m + n \in 1..(m + n) /\ (m + n) - m = n /\ m + n # 0
      BY <2>1
    <3>. QED  BY <2>1, <3>1, SeqEmpty
  <2>6. Runs(c, f, t, a, r)
    BY <2>1, <2>2, <2>3, <2>4 DEF Runs
  <2>. QED  BY <1>3, <2>5, <2>6 DEF Final, r
<1>. QED  BY <1>1, <1>2, <1>3

\* when the last ones are dropped,
LEMMA RunsCut ==
    ASSUME NEW c, NEW f, NEW t, NEW a, NEW w \in Seq(Byte), Runs(c, f, t, a, w),
           NEW m \in 0..Len(w)
    PROVE  Runs(c, f, t, a, SubSeq(w, 1, m))
<1>. DEFINE r == SubSeq(w, 1, m)
<1>1. /\ r \in Seq(Byte) /\ Len(r) = m /\ DOMAIN r = 1..m /\ m <= Len(w)
      /\ Len(w) \in Nat /\ DOMAIN w = 1..Len(w) /\ \A i \in 1..m : r[i] = w[i]
  <2>1. Len(w) \in Nat /\ m \in Nat /\ 1 \in Nat /\ 1 >= 1 /\ m <= Len(w) /\ 1 <= m + 1
    BY SeqDomain
  <2>2. /\ r \in Seq(Byte) /\ Len(r) = m + 1 - 1 /\ \A i \in 1..(m + 1 - 1) : r[i] = w[1 + i - 1]
    BY <2>1, SeqSegment
  <2>3. m + 1 - 1 = m /\ \A i \in 1..m : 1 + i - 1 = i
    BY <2>1
  <2>. QED  BY <2>1, <2>2, <2>3, SeqDomain
<1>. HIDE DEF r
<1>2. r # <<>> => w # <<>> /\ r[1] = w[1]
  BY <1>1, SeqEmpty
<1>3. ASSUME NEW i \in 1..(m - 1)
      PROVE  After(c, t, r[i], r[i + 1])
  <2>1. i \in 1..(Len(w) - 1) /\ r[i] = w[i] /\ r[i + 1] = w[i + 1]
    BY <1>1
  <2>. QED  BY <2>1 DEF Runs
<1>4. Runs(c, f, t, a, r)
  BY <1>1, <1>2, <1>3 DEF Runs
<1>. QED  BY <1>4 DEF r

\* and when the connection has sent more.
LEMMA RunsGrow ==
    ASSUME NEW c, NEW f \in Nat, NEW g \in Nat, f <= g, NEW t, NEW a, NEW w \in Seq(Byte),
           Runs(c, f, t, a, w)
    PROVE  Runs(c, g, t, a, w)
<1>1. ASSUME NEW i \in DOMAIN w, Current(c, f, t, w[i])
      PROVE  Current(c, g, t, w[i])
  <2>1. i \in 1..Len(w)
    BY SeqDomain
  <2>2. w[i] \in Byte
    BY <2>1, SeqElt
  <2>3. w[i].pos \in Nat /\ w[i].left \in Nat
    BY <2>2 DEF Byte
  <2>. DEFINE b == w[i]
  <2>. HIDE DEF b
  <2>4. Current(c, f, t, b) => Current(c, g, t, b)
    BY SMTT(60), <2>3 DEF Current, b
  <2>. QED  BY <1>1, <2>4 DEF b
<1>. QED  BY <1>1 DEF Runs

\* Bytes of earlier attempts can come before the reply.
LEMMA RunsStale ==
    ASSUME NEW c \in Attempt, NEW f, NEW t, NEW w \in Seq(Byte), \A i \in DOMAIN w : Stale(c, w[i])
    PROVE  /\ Runs(c, f, t, Mark(0, "reply", 0, Len(t)), w)
           /\ Final(Mark(0, "reply", 0, Len(t)), w).conn < c
<1>1. c \in Nat /\ c > 0 /\ Len(w) \in Nat /\ DOMAIN w = 1..Len(w)
  BY SeqDomain, LinkAssumption DEF Attempt
<1>2. ASSUME NEW i \in DOMAIN w
      PROVE  w[i].conn < c /\ w[i].conn # c
  <2>1. w[i] \in Byte
    BY <1>1, SeqElt
  <2>. QED  BY <1>1, <2>1, LinkAssumption DEF Stale, Byte, Attempt
<1>3. w # <<>> => 1 \in DOMAIN w /\ Len(w) \in DOMAIN w
  BY <1>1, SeqEmpty
<1>4. \A i \in 1..(Len(w) - 1) : i \in DOMAIN w /\ i + 1 \in DOMAIN w
  BY <1>1
<1>5. Mark(0, "reply", 0, Len(t)).conn = 0
  BY DEF Mark
<1>. QED  BY <1>1, <1>2, <1>3, <1>4, <1>5 DEF Runs, After, Final

-----------------------------------------------------------------------------
(* What the proxy writes. *)

\* The fields of a byte.
LEMMA ByteFields ==
    ASSUME NEW b \in Byte
    PROVE  /\ b.left \in Nat /\ b.pos \in Nat /\ b.val \in Nat /\ b.val <= 255
           /\ b.conn \in Attempt /\ b.conn \in Nat /\ b.conn > 0
BY LinkAssumption DEF Byte, Attempt, ByteValue

\* The three lines the proxy can answer with.
LEMMA Texts ==
    /\ OkText \in Seq(ByteValue) /\ Len(OkText) = 3
    /\ OkText[1] = 79 /\ OkText[2] = 75 /\ OkText[3] = 10
    /\ ErrText \in Seq(ByteValue) /\ Len(ErrText) = 4
    /\ ErrText[1] = 69 /\ ErrText[2] = 82 /\ ErrText[3] = 82 /\ ErrText[4] = 10
    /\ PemText \in Seq(ByteValue) /\ Len(PemText) = 5
    /\ PemText[1] = 79 /\ PemText[2] = 75 /\ PemText[3] = 32
    /\ PemText[4] = 48 + PemLen /\ PemText[5] = 10
    /\ PemLen \in Nat /\ PemLen > 0 /\ 48 + PemLen \in 49..57
    /\ OkText # ErrText /\ OkText # PemText /\ ErrText # PemText
<1>1. PemLen \in Nat /\ PemLen > 0 /\ 48 + PemLen \in 49..57 /\ 48 + PemLen \in ByteValue
  BY ProxyAssumption DEF ByteValue
<1>2. OkText \in Seq(ByteValue) /\ Len(OkText) = 3 /\ OkText[1] = 79 /\ OkText[2] = 75 /\ OkText[3] = 10
  BY DEF OkText, ByteValue
<1>3. /\ ErrText \in Seq(ByteValue) /\ Len(ErrText) = 4
      /\ ErrText[1] = 69 /\ ErrText[2] = 82 /\ ErrText[3] = 82 /\ ErrText[4] = 10
  BY DEF ErrText, ByteValue
<1>4. /\ PemText \in Seq(ByteValue) /\ Len(PemText) = 5
      /\ PemText[1] = 79 /\ PemText[2] = 75 /\ PemText[3] = 32
      /\ PemText[4] = 48 + PemLen /\ PemText[5] = 10
  BY <1>1 DEF PemText, ByteValue
<1>5. OkText # ErrText /\ OkText # PemText /\ ErrText # PemText
  BY <1>2, <1>3, <1>4
<1>. QED  BY <1>1, <1>2, <1>3, <1>4, <1>5

\* Sequence v carries attempt c on from byte a, and ends what it begins with a byte
\* of this kind at this place.
Says(c, f, t, a, v, kind, pos) ==
    /\ v \in Seq(Byte) /\ v # <<>> /\ Runs(c, f, t, a, v)
    /\ v[Len(v)].conn = c /\ v[Len(v)].kind = kind
    /\ v[Len(v)].left = 0 /\ v[Len(v)].pos = pos

\* A reply line comes after bytes of earlier attempts, and ends with its newline.
LEMMA ReplyRuns ==
    ASSUME NEW c \in Attempt, NEW f, NEW t \in {OkText, ErrText, PemText}, NEW a, a.conn < c
    PROVE  Says(c, f, t, a, ReplyLine(t, c), "reply", 0)
<1>. DEFINE n == Len(t)
            v == ReplyLine(t, c)
<1>1. t \in Seq(ByteValue) /\ n \in Nat /\ n > 0
  <2>1. t \in Seq(ByteValue) /\ n \in {3, 4, 5}
    BY Texts
  <2>. HIDE DEF n
  <2>2. n \in Nat /\ n > 0
    BY <2>1
  <2>. QED  BY <2>1, <2>2
<1>2. v \in Seq(Byte)
  BY <1>1, ReplyLineType
<1>3. /\ DOMAIN v = 1..n
      /\ \A i \in 1..n : v[i] = [val |-> t[i], kind |-> "reply", conn |-> c, pos |-> 0,
                                 left |-> n - i]
  BY DEF ReplyLine
<1>. HIDE DEF v
<1>4. Len(v) = n
  BY <1>1, <1>2, <1>3, SeqDomain
<1>. HIDE DEF n
<1>5. ASSUME NEW i \in 1..n
      PROVE  /\ v[i].val = t[i] /\ v[i].kind = "reply" /\ v[i].conn = c /\ v[i].pos = 0
             /\ v[i].left = n - i
  BY <1>3
<1>6. ASSUME NEW i \in DOMAIN v
      PROVE  Current(c, f, t, v[i])
  <2>1. i \in 1..n /\ n - (n - i) = i /\ n - i < n
    BY <1>1, <1>3
  <2>. QED  BY <1>5, <2>1 DEF Current, n
<1>7. After(c, t, a, v[1])
  <2>1. 1 \in 1..n
    BY <1>1
  <2>. QED  BY <1>5, <2>1 DEF After, n
<1>8. ASSUME NEW i \in 1..(Len(v) - 1)
      PROVE  After(c, t, v[i], v[i + 1])
  <2>1. i \in 1..n /\ i + 1 \in 1..n /\ n - i > 0 /\ n - (i + 1) = (n - i) - 1
    BY <1>1, <1>4
  <2>. QED  BY <1>5, <2>1 DEF After
<1>9. v # <<>> /\ n \in 1..n /\ n - n = 0
  BY <1>1, <1>2, <1>4, SeqEmpty
<1>10. Runs(c, f, t, a, v)
  BY <1>6, <1>7, <1>8 DEF Runs
<1>11. /\ v[Len(v)].conn = c /\ v[Len(v)].kind = "reply"
       /\ v[Len(v)].left = 0 /\ v[Len(v)].pos = 0
  BY <1>4, <1>5, <1>9
<1>. QED  BY <1>2, <1>9, <1>10, <1>11 DEF Says, v

\* Byte a is the one before the first of n bytes of a stream: the low byte of their
\* length, or the newline of the line that announces a certificate.
Announces(c, t, a, done, n) ==
    /\ a.conn = c
    /\ \/ a.kind = "low" /\ a.left = n /\ a.pos = done
       \/ a.kind = "reply" /\ a.left = 0 /\ t = PemText /\ done = 0 /\ n = PemLen

\* These n bytes.
LEMMA PayloadRuns ==
    ASSUME NEW c \in Attempt, NEW f \in Nat, NEW done \in Nat, NEW n \in Nat, n > 0,
           NEW stream \in Seq(ByteValue), done + n <= Len(stream),
           NEW t, t = OkText \/ t = PemText, t = OkText => done + n <= f,
           NEW a, Announces(c, t, a, done, n)
    PROVE  Says(c, f, t, a, Payload(stream, c, done, n), "data", done + n)
<1>. DEFINE v == Payload(stream, c, done, n)
<1>1. v \in Seq(Byte)
  BY PayloadType
<1>2. /\ DOMAIN v = 1..n
      /\ \A i \in 1..n : v[i] = [val |-> stream[done + i], kind |-> "data", conn |-> c,
                                 pos |-> done + i, left |-> n - i]
  BY DEF Payload
<1>. HIDE DEF v
<1>3. Len(v) = n
  BY <1>1, <1>2, SeqDomain
<1>4. ASSUME NEW i \in 1..n
      PROVE  /\ v[i].kind = "data" /\ v[i].conn = c /\ v[i].pos = done + i /\ v[i].left = n - i
  BY <1>2
<1>5. ASSUME NEW i \in DOMAIN v
      PROVE  Current(c, f, t, v[i])
  <2>1. i \in 1..n /\ (done + i) + (n - i) = done + n
    BY <1>2
  <2>2. v[i].kind = "data" /\ v[i].conn = c /\ v[i].pos + v[i].left = done + n
    BY <1>4, <2>1
  <2>. QED  BY <2>2 DEF Current
<1>6. After(c, t, a, v[1])
  <2>1. 1 \in 1..n /\ OkText # PemText
    BY Texts
  <2>2. v[1].kind = "data" /\ v[1].conn = c /\ v[1].pos = done + 1 /\ v[1].left = n - 1
    BY <1>4, <2>1
  <2>. QED  BY <2>1, <2>2 DEF After, Opens, Announces
<1>7. ASSUME NEW i \in 1..(Len(v) - 1)
      PROVE  After(c, t, v[i], v[i + 1])
  <2>1. /\ i \in 1..n /\ i + 1 \in 1..n /\ n - i > 0 /\ n - (i + 1) = (n - i) - 1
        /\ done + (i + 1) = (done + i) + 1
    BY <1>3
  <2>. QED  BY <1>4, <2>1 DEF After
<1>8. v # <<>> /\ n \in 1..n /\ n - n = 0
  BY <1>1, <1>3, SeqEmpty
<1>9. Runs(c, f, t, a, v)
  BY <1>5, <1>6, <1>7 DEF Runs
<1>10. /\ v[Len(v)].conn = c /\ v[Len(v)].kind = "data"
       /\ v[Len(v)].left = 0 /\ v[Len(v)].pos = done + n
  BY <1>3, <1>4, <1>8
<1>. QED  BY <1>1, <1>8, <1>9, <1>10 DEF Says, v

\* Sequence v carries attempt c on from byte a with the length n of a frame that
\* comes after `done` bytes.
Heads(c, f, a, v, n, done) ==
    /\ v \in Seq(Byte) /\ Len(v) = 2 /\ v # <<>> /\ Runs(c, f, OkText, a, v)
    /\ v[2].conn = c /\ v[2].kind = "low" /\ v[2].left = n /\ v[2].pos = done

\* The two bytes of a length, after a whole frame or the line.
LEMMA HeaderRuns ==
    ASSUME NEW c \in Attempt, NEW f \in Nat, NEW done \in Nat, NEW n \in 0..NetChunk,
           done + n <= f, NetChunk < 256 * 256,
           NEW a, a.conn = c, a.kind \in {"reply", "data"}, a.left = 0, a.pos = done,
           a.kind = "reply" => done = 0
    PROVE  Heads(c, f, a, FrameHeader(n, c, done), n, done)
<1>. DEFINE v == FrameHeader(n, c, done)
<1>1. n \in Nat /\ n < 256 * 256
  BY ProxyAssumption
<1>2. v \in Seq(Byte)
  BY <1>1, HeaderType
<1>3. /\ DOMAIN v = 1..2 /\ v[1].val = (n \div 256) % 256 /\ v[1].kind = "high"
      /\ v[1].conn = c /\ v[1].pos = done /\ v[1].left = n + 2 - 1
      /\ v[2].val = n % 256 /\ v[2].kind = "low"
      /\ v[2].conn = c /\ v[2].pos = done /\ v[2].left = n + 2 - 2
  BY DEF FrameHeader
<1>4. Len(v) = 2 /\ v # <<>>
  <2>1. Len(v) = 2
    BY DEF FrameHeader
  <2>2. Len(v) # 0
    BY <2>1
  <2>. HIDE DEF v
  <2>3. v # <<>>
    BY <1>2, <2>2, SeqEmpty
  <2>. QED  BY <2>1, <2>3
<1>. HIDE DEF v
<1>5. (n \div 256) % 256 = n \div 256
  <2>1. n \div 256 \in 0..255
    BY <1>1
  <2>. QED  BY <2>1
<1>6. v[1].left = n + 1 /\ v[2].left = n /\ v[1].left - 1 = n /\ v[1].left \in 1..(NetChunk + 1)
  BY <1>1, <1>3, ProxyAssumption
<1>7. Current(c, f, OkText, v[1]) /\ Current(c, f, OkText, v[2])
  BY <1>3, <1>5, <1>6 DEF Current
<1>8. After(c, OkText, a, v[1]) /\ After(c, OkText, v[1], v[2])
  BY <1>3, <1>6 DEF After, Opens
<1>9. Runs(c, f, OkText, a, v)
  <2>1. \A i \in DOMAIN v : i = 1 \/ i = 2
    BY <1>3
  <2>2. \A i \in 1..(Len(v) - 1) : i = 1 /\ i + 1 = 2
    BY <1>4
  <2>. QED  BY <1>7, <1>8, <2>1, <2>2 DEF Runs
<1>. QED  BY <1>2, <1>3, <1>4, <1>6, <1>9 DEF Heads, v

\* A whole frame.
LEMMA FrameRuns ==
    ASSUME NEW c \in Attempt, NEW f \in Nat, NEW done \in Nat, NEW n \in 1..NetChunk,
           done + n <= f, NetChunk < 256 * 256,
           NEW stream \in Seq(ByteValue), done + n <= Len(stream),
           NEW a, a.conn = c, a.kind \in {"reply", "data"}, a.left = 0, a.pos = done,
           a.kind = "reply" => done = 0
    PROVE  Says(c, f, OkText, a, FrameHeader(n, c, done) \o Payload(stream, c, done, n),
                "data", done + n)
<1>. DEFINE h == FrameHeader(n, c, done)
            p == Payload(stream, c, done, n)
<1>0. n \in Nat /\ n > 0 /\ n \in 0..NetChunk
  BY ProxyAssumption
<1>1. /\ h \in Seq(Byte) /\ Len(h) = 2 /\ h # <<>> /\ Runs(c, f, OkText, a, h)
      /\ h[2].conn = c /\ h[2].kind = "low" /\ h[2].left = n /\ h[2].pos = done
  BY <1>0, HeaderRuns DEF Heads
<1>2. Announces(c, OkText, h[2], done, n)
  BY <1>1 DEF Announces
<1>3. Says(c, f, OkText, h[2], p, "data", done + n)
  BY <1>0, <1>2, PayloadRuns
<1>. HIDE DEF h, p
<1>4. Final(a, h) = h[2]
  BY <1>1 DEF Final
<1>5. /\ p \in Seq(Byte) /\ p # <<>> /\ Runs(c, f, OkText, h[2], p)
      /\ p[Len(p)].conn = c /\ p[Len(p)].kind = "data"
      /\ p[Len(p)].left = 0 /\ p[Len(p)].pos = done + n
  BY <1>3 DEF Says
<1>6. Runs(c, f, OkText, a, h \o p) /\ Final(a, h \o p) = p[Len(p)]
  BY <1>1, <1>4, <1>5, RunsMore
<1>7. h \o p \in Seq(Byte) /\ h \o p # <<>>
  BY <1>1, <1>5, SeqLonger
<1>8. Says(c, f, OkText, a, h \o p, "data", done + n)
  BY <1>5, <1>6, <1>7 DEF Says, Final
<1>. QED  BY <1>8 DEF h, p

\* The line that grants a certificate, and the certificate.
LEMMA PemRuns ==
    ASSUME NEW c \in Attempt, NEW f \in Nat, NEW a, a.conn < c
    PROVE  Says(c, f, PemText, a, OkPem(c), "data", PemLen)
<1>. DEFINE r == ReplyLine(PemText, c)
            pem == [i \in 1..PemLen |-> PemByte]
            p == Payload(pem, c, 0, PemLen)
<1>1. PemLen \in Nat /\ PemLen > 0 /\ PemText # OkText /\ PemText \in {OkText, ErrText, PemText}
  BY Texts
<1>2. pem \in Seq(ByteValue) /\ Len(pem) = PemLen
  <2>1. pem \in [1..PemLen -> ByteValue]
    BY ProxyAssumption
  <2>. QED  BY <1>1, <2>1, SeqMake
<1>3. Says(c, f, PemText, a, r, "reply", 0)
  BY <1>1, ReplyRuns
<1>. HIDE DEF pem
<1>4. OkPem(c) = r \o p
  BY DEF OkPem, PemText, pem
<1>. HIDE DEF r
<1>5. /\ r \in Seq(Byte) /\ r # <<>> /\ Runs(c, f, PemText, a, r)
      /\ r[Len(r)].conn = c /\ r[Len(r)].kind = "reply" /\ r[Len(r)].left = 0
  BY <1>3 DEF Says
<1>6. Announces(c, PemText, r[Len(r)], 0, PemLen)
  BY <1>5 DEF Announces
<1>7. Says(c, f, PemText, r[Len(r)], p, "data", 0 + PemLen)
  <2>1. 0 \in Nat /\ 0 + PemLen <= Len(pem) /\ (PemText = OkText => 0 + PemLen <= f)
    BY <1>1, <1>2
  <2>. QED  BY <1>1, <1>2, <1>6, <2>1, PayloadRuns
<1>. HIDE DEF p
<1>8. /\ p \in Seq(Byte) /\ p # <<>> /\ Runs(c, f, PemText, r[Len(r)], p)
      /\ p[Len(p)].conn = c /\ p[Len(p)].kind = "data"
      /\ p[Len(p)].left = 0 /\ p[Len(p)].pos = PemLen
  BY <1>1, <1>7 DEF Says
<1>9. Final(a, r) = r[Len(r)]
  BY <1>5 DEF Final
<1>10. Runs(c, f, PemText, a, r \o p) /\ Final(a, r \o p) = p[Len(p)]
  BY <1>5, <1>8, <1>9, RunsMore
<1>11. r \o p \in Seq(Byte) /\ r \o p # <<>>
  BY <1>5, <1>8, SeqLonger
<1>. QED  BY <1>4, <1>8, <1>10, <1>11 DEF Says, Final

-----------------------------------------------------------------------------
(* Steps of the proxy: the firmware stays where it is. *)

\* In these places the answer to the command of the attempt has begun.
Talking == {"line", "reply", "certbody", "app", "header", "payload", "copy"}

\* What the type invariant says of the variables these proofs are about.
LEMMA PlainTypes ==
    ASSUME TypeOK
    PROVE  /\ attempt \in 0..MaxAttempts /\ attempt \in Nat /\ attempt <= MaxAttempts
           /\ pc \in Talking => attempt \in Attempt
           /\ conn \in 0..MaxAttempts /\ conn \in Nat /\ (conn # 0 => conn \in Attempt)
           /\ up \in Seq(UpItem) /\ DOMAIN up = 1..Len(up) /\ Len(up) \in Nat
           /\ \A c \in Attempt : fwd[c] \in Nat /\ fwd[c] <= Len(ServerStream[c])
           /\ \A c \in Attempt : ServerStream[c] \in Seq(ByteValue) /\ Len(ServerStream[c]) \in Nat
<1>1. attempt \in 0..MaxAttempts /\ conn \in 0..MaxAttempts /\ MaxAttempts \in Nat
  BY LinkAssumption DEF TypeOK, PortTypeOK, CmdTypeOK, ProxyTypeOK
<1>2. pc \in Talking => attempt \in Attempt
  BY DEF TypeOK, PortTypeOK, CmdTypeOK, InSession, Talking
<1>3. up \in Seq(UpItem)
  BY DEF TypeOK, LinkTypeOK
<1>4. \A c \in Attempt : fwd[c] \in Nat /\ fwd[c] <= Len(ServerStream[c])
  BY DEF TypeOK, ProxyTypeOK
<1>5. ASSUME NEW c \in Attempt
      PROVE  ServerStream[c] \in Seq(ByteValue) /\ Len(ServerStream[c]) \in Nat
  <2>1. ServerStream[c] \in Seq(ByteValue)
    BY ProxyAssumption
  <2>. QED  BY <2>1, SeqDomain
<1>6. attempt \in Nat /\ attempt <= MaxAttempts /\ conn \in Nat /\ (conn # 0 => conn \in Attempt)
  BY <1>1 DEF Attempt
<1>. QED  BY <1>1, <1>2, <1>3, <1>4, <1>5, <1>6, SeqDomain

\* A byte of a connection stays one when the connection has sent more.
LEMMA CurrentGrow ==
    ASSUME NEW c, NEW f \in Nat, NEW g \in Nat, f <= g, NEW t, NEW b \in Byte, Current(c, f, t, b)
    PROVE  Current(c, g, t, b)
<1>1. b.pos \in Nat /\ b.left \in Nat
  BY ByteFields
<1>. QED  BY <1>1 DEF Current

\* When only the conversation moves, the rest of the invariant stays.
LEMMA Untouched ==
    ASSUME TypeOK, DownlinkInv, UNCHANGED portVars, Conversation',
           \A c \in Attempt : /\ fwd'[c] \in Nat /\ fwd[c] <= fwd'[c]
                              /\ (c > attempt => fwd'[c] = fwd[c])
    PROVE  DownlinkInv'
<1>. USE DEF portVars, cmdVars, readVars, frameVars
<1>1. Phases'
  BY DEF DownlinkInv, Phases, InSession
<1>2. Place' = Place
  BY DEF Place
<1>3. InSession => attempt \in Attempt
  BY DEF TypeOK, PortTypeOK, CmdTypeOK
<1>4. InSession' => InSession
  BY DEF InSession
<1>5. InSession => Place \in Nat /\ fwd[attempt] \in Nat
  <2>1. ASSUME InSession
        PROVE  Place \in Nat
    <3>1. rcvd[attempt] \in Seq(Byte) /\ frame_buf \in Seq(Byte) /\ frame_off \in 0..Len(frame_buf)
      BY <1>3, <2>1 DEF TypeOK, PortTypeOK, StreamTypeOK, FrameTypeOK
    <3>2. Len(rcvd[attempt]) \in Nat /\ Len(frame_buf) \in Nat
      BY <3>1, SeqDomain
    <3>. QED  BY <3>1, <3>2 DEF Place
  <2>. QED  BY <1>3, <2>1, PlainTypes
<1>6. Holdings'
  <2>1. InSession' => Place' <= fwd'[attempt']
    BY <1>2, <1>3, <1>4, <1>5 DEF DownlinkInv, Holdings
  <2>2. \A c \in Attempt : c > attempt' => fwd'[c] = 0 /\ rcvd'[c] = <<>>
    BY DEF DownlinkInv, Holdings
  <2>. QED  BY <1>4, <2>1, <2>2 DEF DownlinkInv, Holdings
<1>7. DownlinkInOrder' /\ CertIntact'
  BY DEF DownlinkInv, DownlinkInOrder, CertIntact
<1>8. "proxy_restart" \notin Faults => FramesWellFormed'
  BY DEF DownlinkInv, FramesWellFormed
<1>. QED  BY <1>1, <1>6, <1>7, <1>8 DEF DownlinkInv

\* What is to be shown of such a step.
LEMMA StillConversing ==
    ASSUME Conversation, UNCHANGED portVars,
           pc \in {"closed", "drain", "command"} /\ AtRest => AtRest',
           pc = "line" /\ Awaiting => (Awaiting \/ Answered)',
           pc \in Talking /\ Answered => Answered',
           Unasked /\ conn = 0 => Unasked' /\ conn' = 0 /\ (Coming = <<>> => Coming' = <<>>)
    PROVE  Conversation'
BY DEF Conversation, portVars, Talking

\* What else may come after what the proxy has answered.
LEMMA StillAnswered ==
    ASSUME TypeOK, UNCHANGED portVars, NEW t, AnsweredWith(t), pc \in Talking,
           fwd'[attempt] \in Nat, fwd[attempt] <= fwd'[attempt], Unasked', conn' \in {0, attempt},
           Runs(attempt, fwd'[attempt], t, Cursor(t), Coming'),
           Whole(attempt, fwd'[attempt], t, conn', Final(Cursor(t), Coming'))
    PROVE  AnsweredWith(t)'
<1>. DEFINE f == fwd[attempt]
            g == fwd'[attempt]
<1>. USE DEF portVars, cmdVars, readVars, frameVars
<1>1. attempt \in Attempt /\ f \in Nat /\ g \in Nat /\ f <= g
  BY PlainTypes
<1>2. Cursor(t)' = Cursor(t) /\ Place' = Place
  BY DEF Cursor, Mark, Place
<1>3. LineRead(t)'
  BY DEF AnsweredWith, LineRead
<1>4. got \in Seq(Byte) /\ (Len(got) >= 1 => got[1] \in Byte) /\ (Len(got) = 2 => got[2] \in Byte)
  <2>1. got \in Seq(Byte)
    BY DEF TypeOK, PortTypeOK, ReadTypeOK
  <2>. QED  BY <2>1, SeqFirstTwo
<1>5. ASSUME NEW b \in Byte, Current(attempt, f, t, b)
      PROVE  Current(attempt, g, t, b)
  BY <1>1, <1>5, CurrentGrow
<1>6. ObjectRead(t)'
  <2>1. pc = "payload" => want > 0 /\ Place + want <= g
    <3>1. pc = "payload" => Place + want \in Nat /\ Place + want <= f
      <4>1. rcvd[attempt] \in Seq(Byte) /\ frame_buf \in Seq(Byte)
            /\ frame_off \in 0..Len(frame_buf) /\ want \in Nat
        BY <1>1 DEF TypeOK, PortTypeOK, StreamTypeOK, FrameTypeOK, ReadTypeOK
      <4>2. Len(rcvd[attempt]) \in Nat /\ Len(frame_buf) \in Nat
        BY <4>1, SeqDomain
      <4>3. Place + want \in Nat
        BY <4>1, <4>2 DEF Place
      <4>. QED  BY <4>3 DEF AnsweredWith, ObjectRead
    <3>. QED  BY <1>1, <3>1 DEF AnsweredWith, ObjectRead
  <2>2. pc = "header" =>
          /\ Len(got) >= 1 => /\ Current(attempt, g, t, got[1])
                              /\ got[1].kind = "high" /\ got[1].pos = Place
          /\ Len(got) = 2 => /\ Current(attempt, g, t, got[2])
                             /\ After(attempt, t, got[1], got[2])
    BY <1>4, <1>5 DEF AnsweredWith, ObjectRead
  <2>3. UNCHANGED <<pc, attempt, got, want>>
    OBVIOUS
  <2>. QED  BY <1>2, <2>1, <2>2, <2>3 DEF AnsweredWith, ObjectRead
<1>7. /\ Runs(attempt, fwd[attempt], t, Cursor(t), Coming)'
      /\ Whole(attempt, fwd[attempt], t, conn, Final(Cursor(t), Coming))'
  BY <1>2 DEF Runs, Whole, Final, Stale, Current, After, Opens
<1>. QED  BY <1>3, <1>6, <1>7 DEF AnsweredWith

\* What the proxy takes off the line, and what it leaves.
LEMMA TakenFrom ==
    ASSUME TypeOK, TakeItem
    PROVE  /\ up # <<>> /\ Item = up[1] /\ 1 \in DOMAIN up
           /\ DOMAIN up' = 1..(Len(up) - 1)
           /\ \A i \in 1..(Len(up) - 1) : up'[i] = up[i + 1] /\ i + 1 \in DOMAIN up
<1>1. up \in Seq(UpItem) /\ up # <<>> /\ up' = Tail(up) /\ Item = Head(up)
  BY DEF TypeOK, LinkTypeOK, TakeItem, Item
<1>2. /\ Len(up) \in Nat \ {0} /\ Head(up) = up[1] /\ Tail(up) \in Seq(UpItem)
      /\ Len(Tail(up)) = Len(up) - 1 /\ \A i \in 1..(Len(up) - 1) : Tail(up)[i] = up[i + 1]
  BY <1>1, SeqTail
<1>3. DOMAIN up = 1..Len(up) /\ DOMAIN up' = 1..Len(up')
  BY <1>1, <1>2, SeqDomain
<1>. QED  BY <1>1, <1>2, <1>3

\* A LOG or DATA frame: the bytes on their way stay, and so does the conversation.
LEMMA FrameOff ==
    ASSUME TypeOK, DownlinkInv, TakeItem, Item.type \notin CommandName, conn' \in {0, conn},
           UNCHANGED <<portVars, down, rdr, busy, fwd>>
    PROVE  DownlinkInv'
<1>1. Coming' = Coming
  BY DEF Coming
<1>. USE DEF portVars, cmdVars, readVars, frameVars
<1>2. Idle /\ Idle'
  BY DEF TakeItem, Idle
<1>3. Unasked => Unasked'
  BY <1>2, TakenFrom DEF Unasked
<1>4. Asked => Asked'
  <2>1. ASSUME NEW k \in DOMAIN up, up[k] = Command(op, attempt),
               \A i \in DOMAIN up : i # k => up[i].type \notin CommandName
        PROVE  Asked'
    <3>1. k # 1
      <4>1. up[k].type \in CommandName
        BY <2>1 DEF TypeOK, PortTypeOK, CmdTypeOK, Command
      <4>. QED  BY <4>1, TakenFrom
    <3>2. k - 1 \in DOMAIN up' /\ up'[k - 1] = up[k]
      <4>1. DOMAIN up = 1..Len(up) /\ Len(up) \in Nat
        BY PlainTypes
      <4>2. k - 1 \in 1..(Len(up) - 1) /\ (k - 1) + 1 = k
        BY <2>1, <3>1, <4>1
      <4>. QED  BY <4>2, TakenFrom
    <3>3. ASSUME NEW i \in DOMAIN up', i # k - 1
          PROVE  up'[i].type \notin CommandName
      <4>1. up'[i] = up[i + 1] /\ i + 1 \in DOMAIN up
        BY TakenFrom
      <4>2. i + 1 # k
        <5>1. k \in Nat /\ i \in Nat
          <6>1. DOMAIN up = 1..Len(up) /\ Len(up) \in Nat
            BY PlainTypes
          <6>. QED  BY <6>1, TakenFrom
        <5>. QED  BY <3>3, <5>1
      <4>. QED  BY <2>1, <4>1, <4>2
    <3>4. up'[k - 1] = Command(op, attempt)'
      BY <2>1, <3>2 DEF Command
    <3>. QED  BY <1>2, <3>2, <3>3, <3>4 DEF Asked
  <2>2. ~(busy = Command(op, attempt))
    <3>1. busy = NoCommand /\ op \in CommandName
      BY <1>2 DEF Idle, TypeOK, PortTypeOK, CmdTypeOK
    <3>. QED  BY <3>1, ItemKinds DEF NoCommand, Command
  <2>. QED  BY <2>1, <2>2 DEF Asked
<1>5. AtRest => AtRest'
  BY <1>1, <1>3 DEF AtRest, Spent
<1>6. Awaiting => Awaiting'
  BY <1>1, <1>2, <1>4 DEF Awaiting, Spent, Stale
<1>7. pc \in Talking /\ Answered => Answered'
  <2>1. ASSUME pc \in Talking, NEW t, AnsweredWith(t)
        PROVE  AnsweredWith(t)'
    <3>. DEFINE last == Final(Cursor(t), Coming)
    <3>1. attempt \in Attempt /\ fwd'[attempt] \in Nat /\ fwd[attempt] <= fwd'[attempt]
      BY <2>1, PlainTypes
    <3>2. conn' \in {0, attempt} /\ Unasked'
      BY <1>3, <2>1 DEF AnsweredWith
    <3>3. attempt # 0
      BY <3>1, LinkAssumption DEF Attempt
    <3>4. Whole(attempt, fwd[attempt], t, conn, last)
      BY <2>1 DEF AnsweredWith
    <3>. HIDE DEF last
    <3>5. Whole(attempt, fwd'[attempt], t, conn', last)
      BY <3>3, <3>4 DEF Whole
    <3>6. Runs(attempt, fwd'[attempt], t, Cursor(t), Coming')
      BY <1>1, <2>1 DEF AnsweredWith
    <3>. QED  BY <1>1, <2>1, <3>1, <3>2, <3>5, <3>6, StillAnswered DEF last
  <2>2. Granted' = Granted
    BY DEF Granted
  <2>. QED  BY <2>1, <2>2 DEF Answered
<1>8. Conversation'
  BY <1>1, <1>3, <1>5, <1>6, <1>7, StillConversing DEF DownlinkInv
<1>. QED  BY <1>8, PlainTypes, Untouched

\* A command: it is the one the firmware waits for an answer to.
LEMMA CommandOff ==
    ASSUME TypeOK, DownlinkInv, StartServing, UNCHANGED portVars
    PROVE  DownlinkInv'
<1>1. /\ TakeItem /\ Item.type \in CommandName /\ busy' = Item /\ conn' = 0
      /\ UNCHANGED <<down, rdr, fwd>>
  BY DEF StartServing, CloseSocket
<1>. USE DEF portVars, cmdVars, readVars, frameVars
<1>2. ~Unasked
  BY <1>1, TakenFrom DEF Unasked
<1>3. pc = "line" /\ Awaiting
  <2>1. ~AtRest /\ ~Answered
    BY <1>2 DEF AtRest, Answered, AnsweredWith
  <2>2. pc \in PcValues
    BY DEF TypeOK, PortTypeOK, CmdTypeOK
  <2>. QED  BY <1>2, <2>1, <2>2 DEF DownlinkInv, Conversation, PcValues, Phases
<1>4. Coming' = Coming
  BY <1>1 DEF Coming
<1>5. Asked'
  <2>1. busy = NoCommand /\ op \in CommandName
    BY <1>1 DEF TakeItem, Idle, TypeOK, PortTypeOK, CmdTypeOK
  <2>2. busy # Command(op, attempt)
    BY <2>1, ItemKinds DEF NoCommand, Command
  <2>3. PICK k \in DOMAIN up : /\ up[k] = Command(op, attempt)
                               /\ \A i \in DOMAIN up : i # k => up[i].type \notin CommandName
    BY <1>3, <2>2 DEF Awaiting, Asked
  <2>4. k = 1
    BY <1>1, <2>3, TakenFrom
  <2>5. busy' = Command(op, attempt)'
    BY <1>1, <2>3, <2>4, TakenFrom DEF Command
  <2>6. ASSUME NEW i \in DOMAIN up'
        PROVE  up'[i].type \notin CommandName
    <3>1. up'[i] = up[i + 1] /\ i + 1 \in DOMAIN up /\ i \in 1..(Len(up) - 1) /\ Len(up) \in Nat
      BY <1>1, TakenFrom, PlainTypes
    <3>2. i + 1 # 1
      BY <3>1
    <3>. QED  BY <2>3, <2>4, <3>1, <3>2
  <2>. QED  BY <2>5, <2>6 DEF Asked
<1>6. Awaiting'
  BY <1>1, <1>3, <1>4, <1>5 DEF Awaiting, Spent, Stale
<1>7. Conversation'
  BY <1>3, <1>6 DEF Conversation
<1>. QED  BY <1>1, <1>7, PlainTypes, Untouched

\* What the proxy reads from the UART.
LEMMA DownReadUart ==
    ASSUME TypeOK, DownlinkInv, ReadUart, UNCHANGED portVars
    PROVE  DownlinkInv'
<1>1. CASE ReadLog
  <2>1. /\ TakeItem /\ Item.type \notin CommandName /\ conn' \in {0, conn}
        /\ UNCHANGED <<portVars, down, rdr, busy, fwd>>
    BY <1>1, ItemKinds DEF ReadLog, proxyVars
  <2>. QED  BY <2>1, FrameOff
<1>2. CASE IgnoreData
  <2>1. /\ TakeItem /\ Item.type \notin CommandName /\ conn' \in {0, conn}
        /\ UNCHANGED <<portVars, down, rdr, busy, fwd>>
    BY <1>2, ItemKinds DEF IgnoreData, proxyVars
  <2>. QED  BY <2>1, FrameOff
<1>3. CASE RelayData
  <2>1. /\ TakeItem /\ Item.type \notin CommandName /\ conn' \in {0, conn}
        /\ UNCHANGED <<portVars, down, rdr, busy, fwd>>
    BY <1>3, ItemKinds DEF RelayData
  <2>. QED  BY <2>1, FrameOff
<1>4. ASSUME NEW n \in 0..Size, SendFails(n)
      PROVE  DownlinkInv'
  <2>1. /\ TakeItem /\ Item.type \notin CommandName /\ conn' \in {0, conn}
        /\ UNCHANGED <<portVars, down, rdr, busy, fwd>>
    BY <1>4, ItemKinds DEF SendFails, CloseSocket
  <2>. QED  BY <2>1, FrameOff
<1>. QED  BY <1>1, <1>2, <1>3, <1>4, CommandOff DEF ReadUart

\* The answer to the command: line t, and the certificate if it announces one.
Answer(t) == IF t = PemText THEN OkPem(attempt) ELSE ReplyLine(t, attempt)

\* The firmware that waits for the answer gets it behind what it will skip.
LEMMA AnswerComes ==
    ASSUME TypeOK, DownlinkInv, Paced, UNCHANGED portVars, pc = "line", Awaiting,
           busy = Command(op, attempt), busy' = NoCommand, UNCHANGED <<up, rdr, fwd>>,
           NEW t \in {Granted, ErrText}, Write(Answer(t)),
           conn' \in {0, attempt}, conn' = attempt => t = OkText
    PROVE  DownlinkInv'
<1>. DEFINE v == Answer(t)
            start == Mark(0, "reply", 0, Len(t))
            kind == IF t = PemText THEN "data" ELSE "reply"
            pos == IF t = PemText THEN PemLen ELSE 0
<1>0. attempt \in Attempt /\ attempt # 0 /\ fwd[attempt] = 0 /\ resp = <<>>
  <2>1. attempt \in Attempt
    BY PlainTypes DEF Talking
  <2>. QED  BY <2>1, LinkAssumption DEF Attempt, Awaiting
<1>1. t \in {OkText, ErrText, PemText} /\ OkText # PemText /\ ErrText # PemText
  BY Texts DEF Granted
<1>2. /\ Runs(attempt, 0, t, start, Coming) /\ Final(start, Coming).conn < attempt
      /\ Coming \in Seq(Byte)
  <2>1. Coming \in Seq(Byte) /\ \A i \in DOMAIN Coming : Stale(attempt, Coming[i])
    BY ComingType DEF Awaiting
  <2>. QED  BY <1>0, <2>1, RunsStale
<1>3. Says(attempt, 0, t, Final(start, Coming), v, kind, pos)
  <2>. DEFINE a == Final(start, Coming)
  <2>1. a.conn < attempt /\ 0 \in Nat
    BY <1>2
  <2>. HIDE DEF a
  <2>2. ASSUME t = PemText
        PROVE  Says(attempt, 0, t, a, v, kind, pos)
    <3>1. Says(attempt, 0, PemText, a, OkPem(attempt), "data", PemLen)
      BY <1>0, <2>1, PemRuns
    <3>. QED  BY <2>2, <3>1 DEF Answer
  <2>3. ASSUME t # PemText
        PROVE  Says(attempt, 0, t, a, v, kind, pos)
    <3>1. Says(attempt, 0, t, a, ReplyLine(t, attempt), "reply", 0)
      BY <1>0, <1>1, <2>1, ReplyRuns
    <3>. QED  BY <2>3, <3>1 DEF Answer
  <2>. QED  BY <2>2, <2>3 DEF a
<1>. HIDE DEF v, kind, pos
<1>4. /\ v \in Seq(Byte) /\ v # <<>> /\ Runs(attempt, 0, t, Final(start, Coming), v)
      /\ v[Len(v)].conn = attempt /\ v[Len(v)].kind = kind
      /\ v[Len(v)].left = 0 /\ v[Len(v)].pos = pos
  BY <1>3 DEF Says
<1>5. Coming' = Coming \o v
  BY <1>4, WriteComing DEF v
<1>6. /\ Runs(attempt, 0, t, start, Coming') /\ Final(start, Coming') = v[Len(v)]
  BY <1>2, <1>4, <1>5, RunsMore
<1>. USE DEF portVars, cmdVars, readVars, frameVars
<1>7. Cursor(t)' = start /\ pc' = "line"
  BY <1>0 DEF Cursor
<1>8. Unasked'
  <2>1. busy # NoCommand
    <3>1. op \in CommandName
      BY DEF TypeOK, PortTypeOK, CmdTypeOK
    <3>. QED  BY <3>1, ItemKinds DEF NoCommand, Command
  <2>. QED  BY <2>1 DEF Awaiting, Asked, Unasked, Idle
<1>9. Whole(attempt, 0, t, conn', v[Len(v)])
  BY <1>0, <1>1, <1>4 DEF Whole, kind, pos
<1>10. LineRead(t)'
  <2>1. Len(resp) = 0 /\ resp' = resp
    BY <1>0, SeqNone
  <2>2. t \in Seq(ByteValue) /\ Len(t) > 0
    <3>1. t \in Seq(ByteValue) /\ Len(t) \in {3, 4, 5}
      BY <1>1, Texts
    <3>. QED  BY SMTT(60), <3>1
  <2>3. SubSeq(t, 1, 0) = <<>>
    BY <2>2
  <2>. QED  BY <1>0, <1>7, <2>1, <2>2, <2>3 DEF LineRead
<1>11. ObjectRead(t)'
  BY <1>7 DEF ObjectRead
<1>12. AnsweredWith(t)'
  <2>1. Runs(attempt', fwd'[attempt'], t, Cursor(t)', Coming')
    BY <1>0, <1>6, <1>7
  <2>2. Whole(attempt', fwd'[attempt'], t, conn', Final(Cursor(t)', Coming'))
    BY <1>0, <1>6, <1>7, <1>9
  <2>. QED  BY <1>8, <1>10, <1>11, <2>1, <2>2 DEF AnsweredWith
<1>13. Answered'
  <2>1. Granted' = Granted
    BY DEF Granted
  <2>. QED  BY <1>7, <1>12, <2>1 DEF Answered
<1>14. Conversation'
  BY <1>7, <1>13 DEF Conversation
<1>. QED  BY <1>14, PlainTypes, Untouched

\* The proxy serves a command: it is the one the firmware waits for an answer to.
LEMMA Serving ==
    ASSUME TypeOK, DownlinkInv, ~Idle
    PROVE  pc = "line" /\ Awaiting /\ busy = Command(op, attempt) /\ conn = 0
<1>1. ~Unasked
  BY DEF Unasked
<1>2. ~AtRest /\ ~Answered
  BY <1>1 DEF AtRest, Answered, AnsweredWith
<1>3. pc \in PcValues
  BY DEF TypeOK, PortTypeOK, CmdTypeOK
<1>. QED  BY <1>1, <1>2, <1>3 DEF DownlinkInv, Conversation, PcValues, Phases, Awaiting, Asked

LEMMA DownServe ==
    ASSUME TypeOK, DownlinkInv, Paced, Serve, UNCHANGED portVars
    PROVE  DownlinkInv'
<1>0. OkText # PemText /\ ErrText # PemText /\ OkText # ErrText
  BY Texts
<1>1. CASE ConnectOk
  <2>1. ~Idle
    BY <1>1, ItemKinds DEF ConnectOk, Idle, NoCommand, CommandName
  <2>2. pc = "line" /\ Awaiting /\ busy = Command(op, attempt)
    BY <2>1, Serving
  <2>3. busy.type = op /\ busy.attempt = attempt
    BY <2>2 DEF Command
  <2>4. Granted = OkText
    BY <1>1, <2>3 DEF ConnectOk, Granted
  <2>5. Answer(OkText) = OkLine(busy.attempt)
    BY <1>0, <2>3 DEF Answer, OkLine, OkText
  <2>6. /\ busy' = NoCommand /\ UNCHANGED <<up, rdr, fwd>> /\ conn' = attempt
        /\ Write(Answer(OkText))
    BY <1>1, <2>3, <2>5 DEF ConnectOk
  <2>. QED  BY <2>2, <2>4, <2>6, AnswerComes
<1>2. CASE CertOk
  <2>1. ~Idle
    BY <1>2, ItemKinds DEF CertOk, Idle, NoCommand, CommandName
  <2>2. pc = "line" /\ Awaiting /\ busy = Command(op, attempt) /\ conn = 0
    BY <2>1, Serving
  <2>3. busy.type = op /\ busy.attempt = attempt
    BY <2>2 DEF Command
  <2>4. Granted = PemText
    BY <1>2, <2>3 DEF CertOk, Granted
  <2>5. Answer(PemText) = OkPem(busy.attempt)
    BY <2>3 DEF Answer
  <2>6. /\ busy' = NoCommand /\ UNCHANGED <<up, rdr, fwd>> /\ conn' = 0
        /\ Write(Answer(PemText))
    BY <1>2, <2>2, <2>3, <2>5 DEF CertOk
  <2>7. attempt # 0
    BY <2>2, PlainTypes, LinkAssumption DEF Talking, Attempt
  <2>. QED  BY <2>2, <2>4, <2>6, <2>7, AnswerComes
<1>3. CASE CommandFails
  <2>2. pc = "line" /\ Awaiting /\ busy = Command(op, attempt) /\ conn = 0
    BY <1>3, Serving DEF CommandFails
  <2>3. busy.attempt = attempt
    BY <2>2 DEF Command
  <2>5. Answer(ErrText) = ErrLine(busy.attempt)
    BY <1>0, <2>3 DEF Answer, ErrLine, ErrText
  <2>6. /\ busy' = NoCommand /\ UNCHANGED <<up, rdr, fwd>> /\ conn' = 0
        /\ Write(Answer(ErrText))
    BY <1>3, <2>2, <2>3, <2>5 DEF CommandFails, CloseSocket
  <2>7. attempt # 0
    BY <2>2, PlainTypes, LinkAssumption DEF Talking, Attempt
  <2>. QED  BY <2>2, <2>6, <2>7, AnswerComes
<1>. QED  BY <1>1, <1>2, <1>3 DEF Serve

\* The proxy reads its socket only when no command is on its way: the connection
\* is the one of this attempt, and the firmware is between two commands or has
\* been answered.
LEMMA Polling ==
    ASSUME TypeOK, DownlinkInv, PollNet
    PROVE  /\ conn = attempt /\ attempt \in Attempt /\ attempt # 0
           /\ \/ pc \in {"closed", "drain", "command"} /\ AtRest
              \/ pc \in Talking /\ Answered
           /\ ~Awaiting
<1>1. Idle /\ conn # 0 /\ up = <<>> /\ DOMAIN up = {}
  BY PlainTypes, SeqNone DEF PollNet
<1>2. ~Asked
  <2>1. op \in CommandName /\ busy = NoCommand
    BY <1>1 DEF TypeOK, PortTypeOK, CmdTypeOK, Idle
  <2>2. busy # Command(op, attempt)
    BY <2>1, ItemKinds DEF NoCommand, Command
  <2>. QED  BY <1>1, <2>2 DEF Asked
<1>3. ~Awaiting
  BY <1>2 DEF Awaiting
<1>4. \/ pc \in {"closed", "drain", "command"} /\ AtRest
      \/ pc \in Talking /\ Answered
  <2>1. pc \in PcValues
    BY DEF TypeOK, PortTypeOK, CmdTypeOK
  <2>. QED  BY <1>1, <1>3, <2>1 DEF DownlinkInv, Conversation, PcValues, Talking, Phases
<1>5. conn = attempt
  BY <1>1, <1>4 DEF AtRest, Answered, AnsweredWith
<1>. QED  BY <1>1, <1>3, <1>4, <1>5, PlainTypes

\* Data comes in a session only, and as a whole frame.
LEMMA DownRelay ==
    ASSUME TypeOK, DownlinkInv, Paced, NEW n \in 1..NetChunk, Relay(n), UNCHANGED portVars
    PROVE  DownlinkInv'
<1>. DEFINE f == fwd[attempt]
            g == fwd[attempt] + n
            v == FrameHeader(n, attempt, f) \o Payload(ServerStream[attempt], attempt, f, n)
<1>1. /\ conn = attempt /\ attempt \in Attempt /\ attempt # 0 /\ ~Awaiting
      /\ \/ pc \in {"closed", "drain", "command"} /\ AtRest
         \/ pc \in Talking /\ Answered
  BY Polling DEF Relay
<1>2. /\ f \in Nat /\ n \in Nat /\ n > 0 /\ g \in Nat /\ f <= g /\ g = f + n
      /\ g <= Len(ServerStream[attempt]) /\ Len(ServerStream[attempt]) \in Nat
      /\ ServerStream[attempt] \in Seq(ByteValue)
  <2>1. /\ f \in Nat /\ Len(ServerStream[attempt]) \in Nat
        /\ ServerStream[attempt] \in Seq(ByteValue)
    BY <1>1, PlainTypes
  <2>2. n \in Nat /\ n > 0 /\ f + n <= Len(ServerStream[attempt])
    BY <1>1, ProxyAssumption DEF Relay
  <2>. QED  BY <2>1, <2>2
<1>3. /\ Write(v) /\ fwd' = [fwd EXCEPT ![attempt] = g]
      /\ UNCHANGED <<up, rdr, conn, busy>>
  BY <1>1 DEF Relay
<1>. HIDE DEF v
<1>4. ~AtRest
  <2>1. f # Len(ServerStream[attempt])
    BY <1>2
  <2>. QED  BY <1>1, <2>1 DEF AtRest, Spent
<1>5. pc \in Talking /\ Answered
  BY <1>1, <1>4
<1>6. fwd'[attempt] = g /\ \A c \in Attempt : c # attempt => fwd'[c] = fwd[c]
  BY <1>1, <1>3 DEF TypeOK, ProxyTypeOK
<1>. USE DEF portVars, cmdVars, readVars, frameVars
<1>7. ASSUME NEW t, AnsweredWith(t)
      PROVE  AnsweredWith(t)'
  <2>. DEFINE a == Final(Cursor(t), Coming)
  <2>1. /\ t = OkText /\ a.conn = attempt /\ a.kind \in {"reply", "data"}
        /\ a.left = 0 /\ a.pos = f /\ (a.kind = "reply" => f = 0)
    BY <1>1, <1>7 DEF AnsweredWith, Whole
  <2>2. Coming \in Seq(Byte) /\ Runs(attempt, g, t, Cursor(t), Coming)
    BY <1>2, <1>7, ComingType, RunsGrow DEF AnsweredWith
  <2>. HIDE DEF a, f, g
  <2>3. Says(attempt, g, OkText, a, v, "data", g)
    <3>1. f + n <= g /\ f + n <= Len(ServerStream[attempt])
      BY <1>2
    <3>2. Says(attempt, g, OkText, a, v, "data", f + n)
      BY <1>1, <1>2, <2>1, <3>1, FrameRuns DEF v, Paced
    <3>. QED  BY <1>2, <3>2
  <2>4. /\ v \in Seq(Byte) /\ v # <<>> /\ Runs(attempt, g, OkText, a, v)
        /\ v[Len(v)].conn = attempt /\ v[Len(v)].kind = "data"
        /\ v[Len(v)].left = 0 /\ v[Len(v)].pos = g
    BY <2>3 DEF Says
  <2>5. Coming' = Coming \o v
    BY <1>3, <2>4, WriteComing
  <2>6. /\ Runs(attempt, g, t, Cursor(t), Coming') /\ Final(Cursor(t), Coming') = v[Len(v)]
    BY <2>1, <2>2, <2>4, <2>5, RunsMore DEF a
  <2>7. Whole(attempt, g, t, conn', v[Len(v)])
    BY <2>1, <2>4 DEF Whole
  <2>8. Unasked' /\ conn' \in {0, attempt}
    BY <1>3, <1>7 DEF AnsweredWith, Unasked, Idle
  <2>. QED  BY <1>2, <1>5, <1>6, <1>7, <2>6, <2>7, <2>8, StillAnswered DEF f
<1>8. Answered'
  <2>1. Granted' = Granted
    BY DEF Granted
  <2>. QED  BY <1>5, <1>7, <2>1 DEF Answered
<1>9. Conversation'
  BY <1>5, <1>8 DEF Conversation, Talking
<1>10. \A c \in Attempt : /\ fwd'[c] \in Nat /\ fwd[c] <= fwd'[c]
                          /\ (c > attempt => fwd'[c] = fwd[c])
  <2>1. ASSUME NEW c \in Attempt
        PROVE  /\ fwd'[c] \in Nat /\ fwd[c] <= fwd'[c] /\ (c > attempt => fwd'[c] = fwd[c])
    <3>1. CASE c = attempt
      BY <1>2, <1>6, <3>1, PlainTypes
    <3>2. CASE c # attempt
      BY <1>6, <3>2, PlainTypes
    <3>. QED  BY <3>1, <3>2
  <2>. QED  BY <2>1
<1>. QED  BY <1>9, <1>10, Untouched

\* The two bytes that say that the connection is gone.
LEMMA EofBytes ==
    ASSUME NEW c \in Attempt, NEW done \in Nat, NEW v, v = FrameHeader(0, c, done)
    PROVE  v \in Seq(Byte) /\ \A i \in DOMAIN v : v[i].val = 0 /\ v[i].conn = c
<1>1. v \in Seq(Byte)
  BY HeaderType
<1>2. /\ DOMAIN v = 1..2 /\ v[1].val = (0 \div 256) % 256 /\ v[2].val = 0 % 256
      /\ v[1].conn = c /\ v[2].conn = c
  BY DEF FrameHeader
<1>3. v[1].val = 0 /\ v[2].val = 0
  BY <1>2
<1>. QED  BY <1>1, <1>2, <1>3

\* The proxy says so once, and has no connection any more.
LEMMA DownClosed ==
    ASSUME TypeOK, DownlinkInv, Paced, PollNet, CloseAndNotify, UNCHANGED <<up, rdr, busy, fwd>>,
           UNCHANGED portVars
    PROVE  DownlinkInv'
<1>. DEFINE f == fwd[attempt]
            v == FrameHeader(0, attempt, f)
<1>1. /\ conn = attempt /\ attempt \in Attempt /\ attempt # 0 /\ ~Awaiting /\ f \in Nat
      /\ \/ pc \in {"closed", "drain", "command"} /\ AtRest
         \/ pc \in Talking /\ Answered
  BY Polling, PlainTypes
<1>2. /\ Write(v) /\ conn' = 0
  BY <1>1 DEF CloseAndNotify, CloseSocket
<1>. HIDE DEF v
<1>3. v \in Seq(Byte) /\ \A i \in DOMAIN v : v[i].val = 0 /\ v[i].conn = attempt
  BY SMTT(60), <1>1, EofBytes DEF v
<1>4. Coming' = Coming \o v /\ Coming \in Seq(Byte)
  BY <1>2, <1>3, WriteComing, ComingType
<1>. USE DEF portVars, cmdVars, readVars, frameVars
<1>5. Unasked => Unasked'
  BY DEF Unasked, Idle
<1>6. AtRest => AtRest'
  <2>1. ASSUME AtRest, NEW i \in DOMAIN Coming'
        PROVE  Coming'[i].val = 0 /\ Coming'[i].conn <= attempt
    <3>. DEFINE w == Coming
                r == Coming \o v
    <3>1. /\ r \in Seq(Byte) /\ Len(r) = Len(w) + Len(v)
          /\ \A j \in 1..Len(w) : r[j] = w[j]
          /\ \A j \in 1..(Len(w) + Len(v)) : j > Len(w) => r[j] = v[j - Len(w)]
      BY <1>3, <1>4, SeqConcat
    <3>2. /\ DOMAIN r = 1..Len(r) /\ DOMAIN w = 1..Len(w) /\ DOMAIN v = 1..Len(v)
          /\ Len(w) \in Nat /\ Len(v) \in Nat
      BY <1>3, <1>4, <3>1, SeqDomain
    <3>3. \A j \in DOMAIN w : w[j].val = 0 /\ w[j].conn <= attempt
      BY <2>1 DEF AtRest
    <3>4. i \in DOMAIN r /\ Coming'[i] = r[i]
      BY <1>4, <2>1
    <3>5. attempt <= attempt
      BY PlainTypes
    <3>. HIDE DEF w, r
    <3>6. CASE i <= Len(w)
      <4>1. i \in DOMAIN w /\ r[i] = w[i]
        BY <3>1, <3>2, <3>4, <3>6
      <4>. QED  BY <3>3, <3>4, <4>1
    <3>7. CASE i > Len(w)
      <4>1. i - Len(w) \in DOMAIN v /\ r[i] = v[i - Len(w)]
        BY <3>1, <3>2, <3>4, <3>7
      <4>. QED  BY <1>3, <3>4, <3>5, <4>1
    <3>. QED  BY <3>1, <3>2, <3>4, <3>6, <3>7
  <2>. QED  BY <1>2, <1>5, <2>1 DEF AtRest, Spent
<1>7. ASSUME NEW t, AnsweredWith(t), pc \in Talking
      PROVE  AnsweredWith(t)'
  <2>. DEFINE a == Final(Cursor(t), Coming)
  <2>1. /\ t = OkText /\ a.conn = attempt /\ a.kind \in {"reply", "data"}
        /\ a.left = 0 /\ a.pos = f /\ (a.kind = "reply" => f = 0)
    BY <1>1, <1>7 DEF AnsweredWith, Whole
  <2>2. Runs(attempt, f, t, Cursor(t), Coming)
    BY <1>7 DEF AnsweredWith
  <2>. HIDE DEF a, f
  <2>3. /\ v \in Seq(Byte) /\ Len(v) = 2 /\ v # <<>> /\ Runs(attempt, f, OkText, a, v)
        /\ v[2].conn = attempt /\ v[2].kind = "low" /\ v[2].left = 0 /\ v[2].pos = f
    <3>1. 0 \in 0..NetChunk /\ f + 0 <= f /\ NetChunk < 256 * 256 /\ (a.kind = "reply" => f = 0)
      BY <1>1, <2>1, ProxyAssumption DEF Paced
    <3>2. Heads(attempt, f, a, FrameHeader(0, attempt, f), 0, f)
      BY <1>1, <2>1, <3>1, HeaderRuns
    <3>. QED  BY <3>2 DEF Heads, v
  <2>4. /\ Runs(attempt, f, t, Cursor(t), Coming') /\ Final(Cursor(t), Coming') = v[2]
    <3>1. Coming \in Seq(Byte) /\ v \in Seq(Byte) /\ v # <<>> /\ Len(v) = 2
      BY <1>4, <2>3
    <3>2. Runs(attempt, f, t, Final(Cursor(t), Coming), v)
      BY <2>1, <2>3 DEF a
    <3>3. /\ Runs(attempt, f, t, Cursor(t), Coming \o v)
          /\ Final(Cursor(t), Coming \o v) = IF v = <<>> THEN Final(Cursor(t), Coming) ELSE v[Len(v)]
      BY SMTT(60), <2>2, <3>1, <3>2, RunsMore
    <3>. QED  BY <1>4, <3>1, <3>3
  <2>5. Whole(attempt, f, t, conn', v[2])
    BY <1>1, <1>2, <2>3 DEF Whole
  <2>6. Unasked' /\ conn' \in {0, attempt} /\ fwd'[attempt] = f /\ f <= f
    BY <1>1, <1>2, <1>5, <1>7 DEF AnsweredWith, f
  <2>. QED  BY <1>1, <1>7, <2>4, <2>5, <2>6, StillAnswered DEF f
<1>8. pc \in Talking /\ Answered => Answered'
  <2>1. Granted' = Granted
    BY DEF Granted
  <2>. QED  BY <1>7, <2>1 DEF Answered
<1>9. Conversation'
  BY <1>1, <1>6, <1>8 DEF Conversation, Talking
<1>. QED  BY <1>9, PlainTypes, Untouched

LEMMA DownReadNet ==
    ASSUME TypeOK, DownlinkInv, Paced, ReadNet, UNCHANGED portVars
    PROVE  DownlinkInv'
<1>1. CASE \E n \in 1..NetChunk : Relay(n)
  BY <1>1, DownRelay
<1>2. CASE RemoteClosed \/ RecvFails
  <2>1. PollNet /\ CloseAndNotify /\ UNCHANGED <<up, rdr, busy, fwd>>
    BY <1>2 DEF RemoteClosed, RecvFails
  <2>. QED  BY <2>1, DownClosed
<1>. QED  BY <1>1, <1>2 DEF ReadNet

\* A proxy that starts anew has nothing to say of the conversation, but does not
\* cut what is left of it in the middle for the firmware either.
LEMMA DownRestart ==
    ASSUME TypeOK, DownlinkInv, NEW n \in 0..Len(down), Restart(n), UNCHANGED portVars
    PROVE  DownlinkInv'
<1>1. /\ conn' = 0 /\ busy' = NoCommand /\ up' = <<>> /\ DOMAIN up' = {}
      /\ "proxy_restart" \in Faults /\ UNCHANGED fwd
  BY SeqNone DEF Restart
<1>2. PICK m \in 0..Len(Coming) : Coming' = SubSeq(Coming, 1, m)
  BY RestartComing
<1>3. /\ Coming \in Seq(Byte) /\ Len(Coming) \in Nat /\ DOMAIN Coming = 1..Len(Coming)
  BY ComingType
<1>4. /\ DOMAIN Coming' \subseteq DOMAIN Coming /\ \A i \in DOMAIN Coming' : Coming'[i] = Coming[i]
      /\ Coming' \in Seq(Byte) /\ (Coming = <<>> => Coming' = <<>>)
  <2>. DEFINE r == SubSeq(Coming, 1, m)
  <2>1. m \in Nat /\ 1 \in Nat /\ 1 >= 1 /\ m <= Len(Coming) /\ 1 <= m + 1
    BY <1>3
  <2>2. /\ r \in Seq(Byte) /\ Len(r) = m + 1 - 1 /\ \A i \in 1..(m + 1 - 1) : r[i] = Coming[1 + i - 1]
    BY <1>3, <2>1, SeqSegment
  <2>3. m + 1 - 1 = m /\ \A i \in 1..m : 1 + i - 1 = i /\ i \in 1..Len(Coming)
    BY <2>1
  <2>4. DOMAIN r = 1..m
    BY <2>2, <2>3, SeqDomain
  <2>. HIDE DEF r
  <2>5. Coming = <<>> => r = <<>>
    <3>1. Coming = <<>> => Len(Coming) = 0
      BY <1>3, SeqEmpty
    <3>2. Len(Coming) = 0 => Len(r) = 0
      BY <2>1, <2>2, <2>3
    <3>. QED  BY <2>2, <3>1, <3>2, SeqEmpty
  <2>6. Coming' = r
    BY <1>2 DEF r
  <2>. QED  BY <1>3, <2>2, <2>3, <2>4, <2>5, <2>6
<1>. USE DEF portVars, cmdVars, readVars, frameVars
<1>5. Unasked'
  BY <1>1 DEF Unasked, Idle
<1>6. AtRest => AtRest'
  BY <1>1, <1>4, <1>5 DEF AtRest, Spent
<1>7. ASSUME NEW t, pc \in Talking, LineRead(t), ObjectRead(t),
             Runs(attempt, fwd[attempt], t, Cursor(t), Coming')
      PROVE  AnsweredWith(t)'
  <2>0. attempt \in Attempt /\ attempt # 0
    BY <1>7, PlainTypes, LinkAssumption DEF Attempt
  <2>1. (LineRead(t) /\ ObjectRead(t))'
    BY <1>1, <1>7 DEF LineRead, ObjectRead, Current, After, Opens, Place
  <2>2. Cursor(t)' = Cursor(t)
    BY DEF Cursor, Mark, Place
  <2>3. Whole(attempt', fwd'[attempt'], t, conn', Final(Cursor(t), Coming)')
    BY <1>1, <2>0 DEF Whole
  <2>4. Runs(attempt', fwd'[attempt'], t, Cursor(t)', Coming')
    BY <1>1, <1>7, <2>2
  <2>. QED  BY <1>1, <1>5, <2>1, <2>3, <2>4 DEF AnsweredWith
<1>8. pc \in Talking /\ Answered => Answered'
  <2>1. ASSUME NEW t, AnsweredWith(t), pc \in Talking
        PROVE  AnsweredWith(t)'
    <3>1. Runs(attempt, fwd[attempt], t, Cursor(t), Coming')
      BY <1>2, <1>3, <2>1, RunsCut DEF AnsweredWith
    <3>. QED  BY <1>7, <2>1, <3>1 DEF AnsweredWith
  <2>2. Granted' = Granted
    BY DEF Granted
  <2>. QED  BY <2>1, <2>2 DEF Answered
<1>9. pc = "line" /\ Awaiting => Answered'
  <2>. SUFFICES ASSUME pc = "line", Awaiting
                PROVE  Answered'
    OBVIOUS
  <2>1. attempt \in Attempt /\ resp = <<>> /\ pc \in Talking
    BY PlainTypes DEF Talking, Awaiting
  <2>2. \A i \in DOMAIN Coming' : Stale(attempt, Coming'[i])
    BY <1>4 DEF Awaiting
  <2>3. Runs(attempt, fwd[attempt], ErrText, Cursor(ErrText), Coming')
    <3>1. Cursor(ErrText) = Mark(0, "reply", 0, Len(ErrText))
      BY <2>1 DEF Cursor
    <3>2. Coming' \in Seq(Byte)
      BY <1>4
    <3>. DEFINE w == Coming'
    <3>. HIDE DEF w
    <3>3. Runs(attempt, fwd[attempt], ErrText, Mark(0, "reply", 0, Len(ErrText)), w)
      BY <2>1, <2>2, <3>2, RunsStale DEF w
    <3>. QED  BY <3>1, <3>3 DEF w
  <2>4. LineRead(ErrText) /\ ObjectRead(ErrText)
    <3>1. SubSeq(ErrText, 1, 0) = <<>> /\ Len(<<>>) = 0
      BY DEF ErrText
    <3>2. Len(ErrText) = 4
      BY Texts
    <3>. QED  BY <2>1, <3>1, <3>2 DEF LineRead, ObjectRead
  <2>5. AnsweredWith(ErrText)'
    BY <1>7, <2>1, <2>3, <2>4
  <2>. QED  BY <2>5 DEF Answered
<1>10. Conversation'
  BY <1>1, <1>4, <1>5, <1>6, <1>8, <1>9, StillConversing DEF DownlinkInv
<1>. QED  BY <1>1, <1>10, PlainTypes, Untouched

-----------------------------------------------------------------------------
(* Steps of the line. *)

\* When every byte on its way stays so does the invariant.
LEMMA SameComing ==
    ASSUME DownlinkInv, Coming' = Coming, UNCHANGED <<up, portVars, proxyVars>>
    PROVE  DownlinkInv'
<1>. USE DEF portVars, cmdVars, readVars, frameVars, proxyVars
<1>1. UNCHANGED <<up, pc, boots, op, todo, attempt, resp, got, want, connected, frame_buf,
                  frame_off, sent, rcvd, cert, conn, busy, fwd, eof, delivered>>
  OBVIOUS
<1>2. Unasked' = Unasked /\ Asked' = Asked /\ Idle' = Idle /\ Place' = Place /\ Granted' = Granted
  BY <1>1 DEF Unasked, Asked, Idle, Place, Granted, Command
<1>3. (AtRest => AtRest') /\ (Awaiting => Awaiting')
  BY <1>1, <1>2 DEF AtRest, Awaiting, Spent, Stale
<1>4. ASSUME NEW t, AnsweredWith(t)
      PROVE  AnsweredWith(t)'
  <2>1. Cursor(t)' = Cursor(t)
    BY <1>1, <1>2 DEF Cursor, Mark
  <2>2. (LineRead(t) /\ ObjectRead(t))'
    BY <1>1, <1>2, <1>4 DEF AnsweredWith, LineRead, ObjectRead, Current, After, Opens
  <2>3. /\ Runs(attempt', fwd'[attempt'], t, Cursor(t)', Coming')
        /\ Whole(attempt', fwd'[attempt'], t, conn', Final(Cursor(t), Coming)')
    BY <1>1, <1>4, <2>1 DEF AnsweredWith, Final
  <2>. QED  BY <1>1, <1>2, <1>4, <2>2, <2>3 DEF AnsweredWith
<1>5. Answered => Answered'
  BY <1>1, <1>2, <1>4 DEF Answered
<1>6. Conversation'
  BY <1>1, <1>2, <1>3, <1>5 DEF DownlinkInv, Conversation
<1>7. Phases' /\ Holdings'
  BY <1>1, <1>2 DEF DownlinkInv, Phases, Holdings, InSession
<1>8. DownlinkInOrder' /\ CertIntact' /\ ("proxy_restart" \notin Faults => FramesWellFormed')
  BY <1>1 DEF DownlinkInv, DownlinkInOrder, CertIntact, FramesWellFormed
<1>. QED  BY <1>6, <1>7, <1>8 DEF DownlinkInv

\* A byte can be lost only while the firmware is between two commands.
LEMMA DownWire ==
    ASSUME TypeOK, DownlinkInv, Paced, Wire, UNCHANGED <<portVars, proxyVars>>
    PROVE  DownlinkInv'
<1>1. CASE Receive
  <2>1. Coming' = Coming /\ UNCHANGED up
    BY <1>1, ReceiveComing DEF Receive
  <2>. QED  BY <2>1, SameComing
<1>2. CASE MayOverrun /\ LoseByte
  <2>1. \A i \in DOMAIN Coming' : \E j \in DOMAIN Coming : Coming'[i] = Coming[j]
    BY <1>2, LoseComing
  <2>2. UNCHANGED up
    BY <1>2 DEF LoseByte
  <2>. USE DEF portVars, cmdVars, readVars, frameVars, proxyVars
  <2>3. pc \in {"closed", "command", "closing", "halted"}
    BY <1>2 DEF MayOverrun, Paced
  <2>4. Coming # <<>>
    <3>1. rdr \in Seq(Byte) /\ down \in Seq(Byte) /\ rdr # <<>>
      BY <1>2 DEF TypeOK, LinkTypeOK, LoseByte
    <3>. QED  BY <3>1, SeqLonger DEF Coming
  <2>5. Unasked => Unasked'
    BY <2>2 DEF Unasked, Idle
  <2>6. AtRest => AtRest'
    <3>1. ASSUME AtRest, NEW i \in DOMAIN Coming'
          PROVE  Coming'[i].val = 0 /\ Coming'[i].conn <= attempt
      BY <2>1, <3>1 DEF AtRest
    <3>. QED  BY <2>5, <3>1 DEF AtRest, Spent
  <2>7. Conversation'
    BY <2>3, <2>4, <2>5, <2>6 DEF DownlinkInv, Conversation
  <2>. QED  BY <2>7, PlainTypes, Untouched
<1>. QED  BY <1>1, <1>2 DEF Wire

-----------------------------------------------------------------------------
(* Steps of the firmware: what is common to them. *)

\* What may come after byte a may come after byte e, and if a was the last so
\* may e be.
Replaces(c, f, t, k, a, e) ==
    /\ \A b : After(c, t, a, b) => After(c, t, e, b)
    /\ Whole(c, f, t, k, a) => Whole(c, f, t, k, e)

\* Only these fields matter,
LEMMA Alike ==
    ASSUME NEW c, NEW f, NEW t, NEW k, NEW a, NEW e,
           a.conn = e.conn, a.kind = e.kind, a.pos = e.pos, a.left = e.left
    PROVE  Replaces(c, f, t, k, a, e)
BY DEF Replaces, After, Whole, Opens

\* and of a byte of an earlier attempt not even these.
LEMMA StaleAlike ==
    ASSUME NEW c \in Nat, NEW f, NEW t, NEW k, NEW a, NEW e, a.conn \in Nat, a.conn < c, e.conn < c
    PROVE  Replaces(c, f, t, k, a, e)
<1>1. a.conn # c
  OBVIOUS
<1>2. \A b : After(c, t, a, b) => After(c, t, e, b)
  BY <1>1 DEF After
<1>3. Whole(c, f, t, k, a) => Whole(c, f, t, k, e)
  BY <1>1 DEF Whole
<1>. QED  BY <1>2, <1>3 DEF Replaces

\* A step of the firmware after which its place is byte a, or as good as that.
LEMMA StillTalking ==
    ASSUME UNCHANGED proxyVars, UNCHANGED attempt, NEW t, Unasked', conn \in {0, attempt},
           LineRead(t)', ObjectRead(t)', NEW a,
           Runs(attempt, fwd[attempt], t, a, Coming'),
           Whole(attempt, fwd[attempt], t, conn, Final(a, Coming')),
           Replaces(attempt, fwd[attempt], t, conn, a, Cursor(t)')
    PROVE  AnsweredWith(t)'
<1>. DEFINE e == Cursor(t)'
            w == Coming'
            f == fwd[attempt]
<1>1. fwd' = fwd /\ conn' = conn /\ attempt' = attempt
  BY DEF proxyVars
<1>. HIDE DEF e, w
<1>2. Runs(attempt, f, t, e, w)
  BY RunsFrom DEF Replaces, e, w
<1>3. Whole(attempt, f, t, conn, Final(e, w))
  BY DEF Replaces, Final, e, w
<1>4. /\ Runs(attempt', fwd'[attempt'], t, Cursor(t)', Coming')
      /\ Whole(attempt', fwd'[attempt'], t, conn', Final(Cursor(t), Coming)')
  BY <1>1, <1>2, <1>3 DEF e, w, Final
<1>. QED  BY <1>1, <1>4 DEF AnsweredWith

\* A LOG frame or a DATA frame asks for nothing.
LEMMA StillUnasked ==
    ASSUME TypeOK, UNCHANGED busy, Unasked, up' = up \/ PrintLog
    PROVE  Unasked'
<1>1. CASE up' = up
  BY <1>1 DEF Unasked, Idle
<1>2. CASE PrintLog
  <2>1. up \in Seq(UpItem) /\ Log \in UpItem
    BY LogType DEF TypeOK, LinkTypeOK
  <2>. DEFINE r == Append(up, Log)
              l == Log
  <2>2. l.type \notin CommandName
    BY DEF Log, CommandName
  <2>. HIDE DEF l
  <2>3. /\ r \in Seq(UpItem) /\ Len(r) = Len(up) + 1 /\ r[Len(up) + 1] = l
        /\ \A i \in 1..Len(up) : r[i] = up[i]
    BY <2>1, SeqAppend DEF l
  <2>4. DOMAIN r = 1..Len(r) /\ DOMAIN up = 1..Len(up) /\ Len(up) \in Nat
    BY <2>1, <2>3, SeqDomain
  <2>5. \A i \in DOMAIN up : up[i].type \notin CommandName
    BY DEF Unasked
  <2>6. up' = r
    BY <1>2 DEF PrintLog
  <2>. HIDE DEF r
  <2>7. ASSUME NEW i \in DOMAIN r
        PROVE  r[i].type \notin CommandName
    <3>1. CASE i = Len(up) + 1
      BY <2>2, <2>3, <3>1
    <3>2. CASE i # Len(up) + 1
      <4>1. i \in DOMAIN up /\ r[i] = up[i]
        BY <2>3, <2>4, <3>2
      <4>. QED  BY <2>5, <4>1
    <3>. QED  BY <3>1, <3>2
  <2>. QED  BY <2>6, <2>7 DEF Unasked, Idle
<1>. QED  BY <1>1, <1>2

\* When nothing the firmware holds changes, the conversation is what remains to
\* be shown.
LEMMA StillHolding ==
    ASSUME DownlinkInv, UNCHANGED <<attempt, rcvd, cert, frame_buf, frame_off, fwd>>,
           Conversation', Phases', InSession' => InSession,
           "proxy_restart" \notin Faults => FramesWellFormed'
    PROVE  DownlinkInv'
<1>1. Place' = Place
  BY DEF Place
<1>2. Holdings'
  BY <1>1 DEF DownlinkInv, Holdings
<1>3. DownlinkInOrder' /\ CertIntact'
  BY DEF DownlinkInv, DownlinkInOrder, CertIntact
<1>. QED  BY <1>2, <1>3 DEF DownlinkInv

-----------------------------------------------------------------------------
(* Steps of the firmware: asking. *)

\* Between two commands the firmware says and drains what it likes.
LEMMA DownStart ==
    ASSUME TypeOK, DownlinkInv, StartCommand, UNCHANGED proxyVars
    PROVE  DownlinkInv'
<1>1. /\ pc = "closed" /\ pc' = "drain" /\ PrintLog /\ Coming' = Coming
      /\ UNCHANGED <<attempt, connected, frame_buf, frame_off, rcvd, cert, conn, busy, fwd>>
  BY DEF StartCommand, Goto, frameVars, proxyVars, Coming
<1>2. AtRest /\ Unasked
  BY <1>1 DEF DownlinkInv, Conversation, AtRest
<1>3. AtRest'
  BY <1>1, <1>2, StillUnasked DEF AtRest, Spent
<1>4. ~connected /\ ~connected'
  BY <1>1 DEF DownlinkInv, Phases, InSession
<1>5. Phases' /\ ~InSession'
  BY <1>1, <1>4 DEF DownlinkInv, Phases, InSession
<1>6. Conversation' /\ FramesWellFormed'
  BY <1>1, <1>3 DEF Conversation, FramesWellFormed
<1>. QED  BY <1>1, <1>5, <1>6, StillHolding

LEMMA DownDrain ==
    ASSUME TypeOK, DownlinkInv, DrainByte \/ DrainDone, UNCHANGED proxyVars
    PROVE  DownlinkInv'
<1>1. /\ pc = "drain" /\ pc' \in {"drain", "command"} /\ up' = up
      /\ UNCHANGED <<attempt, connected, frame_buf, frame_off, rcvd, cert, conn, busy, fwd>>
  BY DEF DrainByte, DrainDone, Goto, TakeByte, frameVars, portVars, cmdVars, linkVars, proxyVars
<1>2. AtRest /\ Unasked
  BY <1>1 DEF DownlinkInv, Conversation, AtRest
<1>3. \A i \in DOMAIN Coming' : \E j \in DOMAIN Coming : Coming'[i] = Coming[j]
  <2>1. CASE DrainByte
    <3>. DEFINE r == Tail(Coming)
    <3>1. Coming # <<>> /\ Coming' = r
      BY <2>1, TakeComing DEF DrainByte
    <3>2. Coming \in Seq(Byte) /\ DOMAIN Coming = 1..Len(Coming)
      BY ComingType
    <3>3. /\ r \in Seq(Byte) /\ Len(Coming) \in Nat \ {0} /\ Len(r) = Len(Coming) - 1
          /\ \A i \in 1..(Len(Coming) - 1) : r[i] = Coming[i + 1]
      BY <3>1, <3>2, SeqTail
    <3>4. DOMAIN r = 1..Len(r)
      BY <3>3, SeqDomain
    <3>. HIDE DEF r
    <3>5. \A i \in DOMAIN r : i + 1 \in DOMAIN Coming /\ r[i] = Coming[i + 1]
      BY <3>2, <3>3, <3>4
    <3>. QED  BY <3>1, <3>5
  <2>2. CASE DrainDone
    BY <2>2 DEF DrainDone, linkVars, Coming
  <2>. QED  BY <2>1, <2>2
<1>4. \A i \in DOMAIN Coming' : Coming'[i].val = 0 /\ Coming'[i].conn <= attempt
  BY <1>2, <1>3 DEF AtRest
<1>5. AtRest'
  BY <1>1, <1>2, <1>4, StillUnasked DEF AtRest, Spent
<1>6. Phases' /\ ~InSession'
  BY <1>1 DEF DownlinkInv, Phases, InSession
<1>7. Conversation' /\ FramesWellFormed'
  BY <1>1, <1>5 DEF Conversation, FramesWellFormed
<1>. QED  BY <1>1, <1>6, <1>7, StillHolding

\* A new attempt: what is left on the line is of an earlier one, and the proxy
\* has not said a word yet.
LEMMA DownCommand ==
    ASSUME TypeOK, UplinkInv, DownlinkInv, SendCommand, UNCHANGED proxyVars
    PROVE  DownlinkInv'
<1>. DEFINE c == attempt + 1
            u == Command(op, c)
            l == Log
<1>1. /\ pc = "command" /\ pc' = "line" /\ attempt' = c /\ resp' = <<>> /\ Coming' = Coming
      /\ up' = up \o <<l, u>>
      /\ UNCHANGED <<op, connected, frame_buf, frame_off, sent, rcvd, cert, conn, busy, fwd>>
  BY DEF SendCommand, Goto, frameVars, proxyVars, Coming
<1>2. AtRest /\ Unasked
  BY <1>1 DEF DownlinkInv, Conversation, AtRest
<1>3. c \in Attempt /\ attempt \in Nat /\ c > attempt /\ c - 1 = attempt
  <2>1. attempt < MaxAttempts /\ attempt \in 0..MaxAttempts
    BY <1>1 DEF TypeOK, PortTypeOK, CmdTypeOK
  <2>. QED  BY <2>1, LinkAssumption DEF Attempt
<1>4. fwd[c] = 0 /\ rcvd[c] = <<>> /\ sent[c] = 0
  BY <1>3 DEF DownlinkInv, Holdings, UplinkInv, BoardSide
<1>5. Asked'
  <2>1. l \in UpItem /\ l.type \notin CommandName
    BY LogType DEF TypeOK, Log, CommandName
  <2>2. u \in UpItem
    BY <1>3, LinkAssumption DEF TypeOK, PortTypeOK, CmdTypeOK, Command, UpItem, Attempt
  <2>3. u = Command(op', attempt')
    BY <1>1
  <2>. HIDE DEF l, u
  <2>. DEFINE v == <<l, u>>
              r == up \o v
              k == Len(up) + 2
  <2>4. v \in Seq(UpItem) /\ Len(v) = 2 /\ v[1] = l /\ v[2] = u
    BY <2>1, <2>2, SeqSmall
  <2>5. up \in Seq(UpItem) /\ DOMAIN up = 1..Len(up) /\ Len(up) \in Nat
    BY PlainTypes
  <2>. HIDE DEF v
  <2>6. /\ r \in Seq(UpItem) /\ Len(r) = Len(up) + Len(v)
        /\ \A i \in 1..Len(up) : r[i] = up[i]
        /\ \A i \in 1..(Len(up) + Len(v)) : i > Len(up) => r[i] = v[i - Len(up)]
    <3>1. up \in Seq(UpItem) /\ v \in Seq(UpItem)
      BY <2>4, <2>5
    <3>. QED  BY <3>1, SeqConcat
  <2>7. DOMAIN r = 1..Len(r)
    BY <2>6, SeqDomain
  <2>8. up' = r
    BY <1>1 DEF v
  <2>. HIDE DEF r
  <2>9. k \in DOMAIN r /\ r[k] = u
    <3>1. k \in 1..(Len(up) + Len(v)) /\ k > Len(up) /\ k - Len(up) = 2 /\ Len(r) = k
      BY <2>4, <2>5, <2>6
    <3>. QED  BY <2>4, <2>6, <2>7, <3>1
  <2>10. ASSUME NEW i \in DOMAIN r, i # k
         PROVE  r[i].type \notin CommandName
    <3>1. i \in 1..(Len(up) + 2)
      BY <2>4, <2>6, <2>7, <2>10
    <3>2. CASE i <= Len(up)
      <4>1. i \in DOMAIN up /\ r[i] = up[i]
        BY <2>5, <2>6, <3>1, <3>2
      <4>. QED  BY <1>2, <4>1 DEF Unasked
    <3>3. CASE i > Len(up)
      <4>1. i = Len(up) + 1 /\ i - Len(up) = 1 /\ i \in 1..(Len(up) + Len(v))
        BY <2>4, <2>5, <2>10, <3>1, <3>3
      <4>2. r[i] = l
        BY <2>4, <2>6, <3>3, <4>1
      <4>. QED  BY <2>1, <4>2
    <3>. QED  BY <2>5, <3>1, <3>2, <3>3
  <2>11. Idle'
    BY <1>1, <1>2 DEF Unasked, Idle
  <2>12. /\ k \in DOMAIN up' /\ up'[k] = Command(op', attempt')
         /\ \A i \in DOMAIN up' : i # k => up'[i].type \notin CommandName
    BY <2>3, <2>8, <2>9, <2>10
  <2>. HIDE DEF k
  <2>. QED  BY <2>11, <2>12 DEF Asked, Command
<1>6. \A i \in DOMAIN Coming : Stale(c, Coming[i])
  <2>1. ASSUME NEW i \in DOMAIN Coming
        PROVE  Stale(c, Coming[i])
    <3>1. Coming[i] \in Byte
      BY ComingType, SeqElt
    <3>2. Coming[i].conn \in Nat /\ Coming[i].conn <= attempt /\ Coming[i].val = 0
      BY <1>2, <3>1, ByteFields DEF AtRest
    <3>. QED  BY <1>3, <3>2 DEF Stale
  <2>. QED  BY <2>1
<1>7. Awaiting'
  <2>1. Idle' /\ Spent'
    BY <1>1, <1>2 DEF AtRest, Unasked, Idle, Spent
  <2>2. conn' \in {0, attempt' - 1}
    BY <1>1, <1>2, <1>3 DEF AtRest
  <2>3. \A i \in DOMAIN Coming' : Stale(attempt', Coming'[i])
    BY <1>1, <1>6
  <2>. QED  BY <1>1, <1>4, <1>5, <2>1, <2>2, <2>3 DEF Awaiting
<1>. HIDE DEF u, l
<1>8. Conversation' /\ FramesWellFormed'
  BY <1>1, <1>7 DEF Conversation, FramesWellFormed
<1>9. Phases'
  BY <1>1, <1>4 DEF DownlinkInv, Phases, InSession
<1>10. Holdings'
  <2>1. ASSUME NEW d \in Attempt, d > c
        PROVE  fwd[d] = 0 /\ rcvd[d] = <<>>
    <3>1. d > attempt
      BY <1>3, <2>1 DEF Attempt
    <3>. QED  BY <3>1 DEF DownlinkInv, Holdings
  <2>2. ~InSession'
    BY <1>1 DEF InSession
  <2>. QED  BY <1>1, <2>1, <2>2 DEF Holdings
<1>11. DownlinkInOrder' /\ CertIntact'
  BY <1>1 DEF DownlinkInv, DownlinkInOrder, CertIntact
<1>. QED  BY <1>8, <1>9, <1>10, <1>11 DEF DownlinkInv

-----------------------------------------------------------------------------
(* Steps of the firmware: reading the answer. *)

\* Of the three lines, only the last byte is the newline and none is NUL; the
\* board has room for all of them.
LEMMA TextBytes ==
    ASSUME NEW t \in {OkText, ErrText, PemText}
    PROVE  /\ t \in Seq(ByteValue) /\ Len(t) \in 3..5
           /\ \A i \in 1..Len(t) : t[i] # 0 /\ (t[i] = LF <=> i = Len(t))
<1>1. CASE t = OkText
  <2>1. ASSUME NEW i \in 1..3
        PROVE  t[i] # 0 /\ (t[i] = LF <=> i = 3)
    <3>1. i = 1 \/ i = 2 \/ i = 3
      BY <2>1
    <3>. QED  BY <1>1, <3>1, Texts DEF LF
  <2>. QED  BY <1>1, <2>1, Texts
<1>2. CASE t = ErrText
  <2>1. ASSUME NEW i \in 1..4
        PROVE  t[i] # 0 /\ (t[i] = LF <=> i = 4)
    <3>1. i = 1 \/ i = 2 \/ i = 3 \/ i = 4
      BY <2>1
    <3>. QED  BY <1>2, <3>1, Texts DEF LF
  <2>. QED  BY <1>2, <2>1, Texts
<1>3. CASE t = PemText
  <2>1. ASSUME NEW i \in 1..5
        PROVE  t[i] # 0 /\ (t[i] = LF <=> i = 5)
    <3>1. i = 1 \/ i = 2 \/ i = 3 \/ i = 4 \/ i = 5
      BY <2>1
    <3>2. 48 + PemLen # 0 /\ 48 + PemLen # LF
      BY Texts DEF LF
    <3>. QED  BY <1>3, <3>1, <3>2, Texts DEF LF
  <2>. QED  BY <1>3, <2>1, Texts
<1>. QED  BY <1>1, <1>2, <1>3

\* What the answer can be.
LEMMA AnswerText ==
    ASSUME TypeOK, NEW t \in {Granted, ErrText}
    PROVE  t \in {OkText, ErrText, PemText} /\ (t # ErrText => t = Granted)
BY DEF Granted

\* The byte after what has been read of the line.
NextOfLine(t, b) ==
    /\ b.conn = attempt /\ b.kind = "reply" /\ b.pos = 0
    /\ b.left = Len(t) - (Len(resp) + 1) /\ b.val = t[Len(resp) + 1]

\* What uart_read_line gets is that byte, or a NUL before the first one.
LEMMA LineGets ==
    ASSUME TypeOK, NEW t \in {OkText, ErrText, PemText}, AnsweredWith(t), pc = "line",
           Coming # <<>>
    PROVE  \/ NextOfLine(t, Coming[1])
           \/ resp = <<>> /\ Coming[1].conn < attempt /\ Coming[1].val = 0
<1>. DEFINE a == Cursor(t)
            b == Coming[1]
            f == fwd[attempt]
            n == Len(resp)
<1>1. Coming \in Seq(Byte) /\ Runs(attempt, f, t, a, Coming)
  BY ComingType DEF AnsweredWith
<1>2. After(attempt, t, a, b) /\ (Stale(attempt, b) \/ Current(attempt, f, t, b)) /\ b \in Byte
  BY <1>1, RunsRead
<1>3. /\ attempt \in Nat /\ attempt > 0 /\ resp \in Seq(ByteValue) /\ n \in Nat
      /\ t \in Seq(ByteValue) /\ Len(t) \in 3..5 /\ n < Len(t)
  <2>1. attempt \in Attempt /\ resp \in Seq(ByteValue)
    BY DEF TypeOK, PortTypeOK, CmdTypeOK
  <2>2. n < Len(t)
    BY DEF AnsweredWith, LineRead
  <2>. QED  BY <2>1, <2>2, TextBytes, SeqDomain, LinkAssumption DEF Attempt
<1>4. b.conn \in Nat /\ b.left \in Nat
  BY <1>2, ByteFields
<1>5. CASE b.conn # attempt
  <2>1. Stale(attempt, b)
    BY <1>2, <1>5 DEF Current
  <2>2. resp = <<>>
    <3>1. SUFFICES ASSUME resp # <<>>
                   PROVE  FALSE
      OBVIOUS
    <3>2. a = Mark(attempt, "reply", 0, Len(t) - n)
      BY <3>1 DEF Cursor
    <3>3. a.conn = attempt
      BY <3>2 DEF Mark
    <3>. HIDE DEF a, b
    <3>. QED  BY <1>2, <1>3, <1>5, <3>3 DEF After
  <2>. QED  BY <2>1, <2>2 DEF Stale
<1>6. CASE b.conn = attempt
  <2>1. Current(attempt, f, t, b)
    BY <1>2, <1>3, <1>6 DEF Stale
  <2>2. b.kind = "reply" /\ b.left = Len(t) - (n + 1)
    <3>1. CASE resp = <<>>
      <4>1. a = Mark(0, "reply", 0, Len(t)) /\ n = 0
        BY <3>1 DEF Cursor
      <4>2. a.conn = 0
        BY <4>1 DEF Mark
      <4>. HIDE DEF a, b
      <4>3. b.kind = "reply" /\ b.left = Len(t) - 1
        BY <1>2, <1>3, <1>6, <4>2 DEF After
      <4>. QED  BY <4>1, <4>3
    <3>2. CASE resp # <<>>
      <4>1. a = Mark(attempt, "reply", 0, Len(t) - n)
        BY <3>2 DEF Cursor
      <4>2. a.conn = attempt /\ a.kind = "reply" /\ a.left = Len(t) - n
        BY <4>1 DEF Mark
      <4>3. a.left > 0 /\ a.left # 0 /\ ~(a.conn < attempt)
        BY <1>3, <4>2
      <4>. HIDE DEF a, b
      <4>4. b.kind = "reply" /\ b.left = a.left - 1
        BY <1>2, <4>2, <4>3 DEF After
      <4>. HIDE DEF n
      <4>. QED  BY <1>3, <4>2, <4>4
    <3>. QED  BY <3>1, <3>2
  <2>3. b.pos = 0 /\ b.val = t[Len(t) - b.left]
    BY <2>1, <2>2 DEF Current
  <2>4. Len(t) - b.left = n + 1
    BY <1>3, <2>2
  <2>. QED  BY <1>6, <2>2, <2>3, <2>4 DEF NextOfLine
<1>. QED  BY <1>5, <1>6

\* The next byte of the line, and the reply once that is the newline.
LEMMA LineGoesOn ==
    ASSUME TypeOK, LineByte, UNCHANGED proxyVars,
           NEW t \in {OkText, ErrText, PemText}, AnsweredWith(t), NextOfLine(t, ch)
    PROVE  /\ pc' \in {"line", "reply"} /\ LineRead(t)'
           /\ Cursor(t)' = Mark(attempt, "reply", 0, ch.left)
<1>. DEFINE n == Len(resp)
            b == ch
            r == Append(resp, t[n + 1])
<1>1. /\ t \in Seq(ByteValue) /\ Len(t) \in 3..5 /\ n \in Nat /\ n < Len(t)
      /\ resp = SubSeq(t, 1, n) /\ b.val = t[n + 1] /\ b.left = Len(t) - (n + 1)
      /\ pc = "line" /\ resp \in Seq(ByteValue) /\ attempt' = attempt
  <2>1. resp \in Seq(ByteValue) /\ pc = "line" /\ attempt' = attempt
    BY DEF TypeOK, PortTypeOK, CmdTypeOK, LineByte, cmdVars
  <2>. QED  BY <2>1, TextBytes, SeqDomain DEF AnsweredWith, LineRead, NextOfLine
<1>2. n + 1 \in 1..Len(t) /\ t[n + 1] \in ByteValue
  <2>1. n + 1 \in 1..Len(t)
    BY <1>1
  <2>. QED  BY <1>1, <2>1, SeqElt
<1>3. b.val # 0 /\ (b.val = LF <=> n + 1 = Len(t))
  BY <1>1, <1>2, TextBytes
<1>4. r = SubSeq(t, 1, n + 1) /\ r \in Seq(ByteValue) /\ Len(r) = n + 1
  BY <1>1, <1>2, SeqNext, SeqAppend
<1>5. resp' = r
  BY <1>1, <1>3 DEF LineByte
<1>6. n + 1 # RespMax
  BY <1>1 DEF RespMax
<1>7. pc' = IF n + 1 = Len(t) THEN "reply" ELSE "line"
  <2>1. Len(resp') # RespMax
    BY <1>4, <1>5, <1>6
  <2>2. IF b.val = LF \/ Len(resp') = RespMax THEN Goto("reply") ELSE UNCHANGED pc
    BY DEF LineByte
  <2>. HIDE DEF b, n
  <2>3. CASE n + 1 = Len(t)
    BY <1>3, <2>2, <2>3 DEF Goto
  <2>4. CASE n + 1 # Len(t)
    BY <1>1, <1>3, <2>1, <2>2, <2>4
  <2>. QED  BY <2>3, <2>4
<1>. HIDE DEF r, b
<1>8. CASE n + 1 = Len(t)
  <2>1. resp' = t /\ pc' = "reply" /\ b.left = 0
    BY <1>1, <1>4, <1>5, <1>7, <1>8, SeqAll
  <2>. QED  BY <1>1, <2>1 DEF LineRead, Cursor, b
<1>9. CASE n + 1 # Len(t)
  <2>1. /\ pc' = "line" /\ Len(resp') = n + 1 /\ resp' = SubSeq(t, 1, n + 1)
        /\ n + 1 < Len(t)
    BY <1>1, <1>4, <1>5, <1>7, <1>9
  <2>2. resp' # <<>>
    <3>1. resp' \in Seq(ByteValue) /\ Len(resp') # 0
      BY <1>1, <1>4, <1>5, <2>1
    <3>. QED  BY <3>1, SeqEmpty
  <2>3. LineRead(t)'
    BY <2>1 DEF LineRead
  <2>4. Cursor(t)' = Mark(attempt, "reply", 0, b.left)
    <3>1. Len(t) - Len(resp') = b.left
      BY <1>1, <2>1
    <3>. QED  BY <1>1, <2>1, <2>2, <3>1 DEF Cursor
  <2>. QED  BY <2>1, <2>3, <2>4 DEF b
<1>. QED  BY <1>8, <1>9

\* The reply is read byte by byte; what the session before has left on the line
\* does not get into it.
LEMMA DownLine ==
    ASSUME TypeOK, DownlinkInv, LineByte, UNCHANGED proxyVars
    PROVE  DownlinkInv'
<1>. DEFINE b == Coming[1]
            w == Tail(Coming)
            f == fwd[attempt]
<1>1. /\ pc = "line" /\ ch = b /\ Coming # <<>> /\ Coming' = w /\ up' = up
      /\ UNCHANGED <<op, attempt, got, want, connected, frame_buf, frame_off, sent, rcvd, cert,
                     conn, busy, fwd>>
  BY TakeComing DEF LineByte, TakeByte, cmdVars, readVars, frameVars, proxyVars
<1>2. attempt \in Attempt /\ attempt \in Nat /\ Coming \in Seq(Byte)
  BY <1>1, PlainTypes, ComingType DEF Talking
<1>3. w \in Seq(Byte) /\ \A i \in DOMAIN w : \E j \in DOMAIN Coming : w[i] = Coming[j]
  <2>1. /\ w \in Seq(Byte) /\ Len(Coming) \in Nat \ {0} /\ Len(w) = Len(Coming) - 1
        /\ \A i \in 1..(Len(Coming) - 1) : w[i] = Coming[i + 1]
    BY <1>1, <1>2, SeqTail
  <2>2. DOMAIN w = 1..Len(w) /\ DOMAIN Coming = 1..Len(Coming)
    BY <1>2, <2>1, SeqDomain
  <2>. HIDE DEF w
  <2>3. \A i \in DOMAIN w : i + 1 \in DOMAIN Coming /\ w[i] = Coming[i + 1]
    BY <2>1, <2>2
  <2>. QED  BY <2>1, <2>3
<1>4. b \in Byte
  <2>1. Len(Coming) \in Nat \ {0}
    BY <1>1, <1>2, SeqTail
  <2>2. 1 \in 1..Len(Coming)
    BY <2>1
  <2>. QED  BY <1>2, <2>2, SeqElt
<1>. HIDE DEF b, w
<1>5. pc' \in {"line", "reply"}
  BY <1>1 DEF LineByte, Goto
<1>6. ASSUME b.val = 0
      PROVE  resp' = resp /\ (resp = <<>> => pc' = "line")
  <2>1. resp' = resp
    BY <1>1, <1>6 DEF LineByte
  <2>2. resp = <<>> => Len(resp') # RespMax /\ b.val # LF
    <3>1. Len(<<>>) = 0
      BY SeqNone
    <3>. QED  BY <1>6, <2>1, <3>1 DEF RespMax, LF
  <2>. QED  BY <1>1, <2>1, <2>2 DEF LineByte
<1>7. Awaiting => Awaiting' /\ pc' = "line"
  <2>. SUFFICES ASSUME Awaiting
                PROVE  Awaiting' /\ pc' = "line"
    OBVIOUS
  <2>1. resp = <<>> /\ b.val = 0
    <3>1. Len(Coming) \in Nat \ {0} /\ DOMAIN Coming = 1..Len(Coming)
      BY <1>1, <1>2, SeqTail, SeqDomain
    <3>2. 1 \in DOMAIN Coming
      BY <3>1
    <3>. QED  BY <3>2 DEF Awaiting, Stale, b
  <2>2. resp' = <<>> /\ pc' = "line"
    BY <1>6, <2>1
  <2>3. Asked' /\ Idle' = Idle /\ Spent'
    BY <1>1 DEF Asked, Awaiting, Idle, Command, Spent
  <2>4. \A i \in DOMAIN Coming' : Stale(attempt, Coming'[i])
    BY <1>1, <1>3 DEF Awaiting
  <2>. QED  BY <1>1, <2>2, <2>3, <2>4 DEF Awaiting
<1>8. ASSUME NEW t \in {OkText, ErrText, PemText}, AnsweredWith(t)
      PROVE  AnsweredWith(t)'
  <2>1. /\ Runs(attempt, f, t, b, w) /\ Final(b, w) = Final(Cursor(t), Coming)
    BY <1>1, <1>2, <1>8, RunsRead DEF AnsweredWith, b, w
  <2>2. Unasked' /\ conn \in {0, attempt} /\ UNCHANGED attempt
    BY <1>1, <1>8 DEF AnsweredWith, Unasked, Idle
  <2>3. Whole(attempt, f, t, conn, Final(b, w))
    BY <1>8, <2>1 DEF AnsweredWith
  <2>4. ObjectRead(t)'
    BY <1>5 DEF ObjectRead
  <2>5. CASE NextOfLine(t, b)
    <3>1. /\ LineRead(t)' /\ Cursor(t)' = Mark(attempt, "reply", 0, b.left)
      BY <1>1, <1>8, <2>5, LineGoesOn
    <3>. DEFINE e == Mark(attempt, "reply", 0, b.left)
    <3>2. b.conn = e.conn /\ b.kind = e.kind /\ b.pos = e.pos /\ b.left = e.left
      BY <2>5 DEF NextOfLine, Mark
    <3>. HIDE DEF e
    <3>3. Replaces(attempt, f, t, conn, b, e)
      BY <3>2, Alike
    <3>4. Replaces(attempt, f, t, conn, b, Cursor(t)')
      BY <3>1, <3>3 DEF e
    <3>. QED  BY <1>1, <2>1, <2>2, <2>3, <2>4, <3>1, <3>4, StillTalking
  <2>6. CASE resp = <<>> /\ b.conn < attempt /\ b.val = 0
    <3>1. resp' = <<>> /\ pc' = "line"
      BY <1>6, <2>6
    <3>2. LineRead(t)'
      BY <1>8, <1>1, <2>6, <3>1 DEF LineRead, AnsweredWith
    <3>3. Cursor(t)' = Mark(0, "reply", 0, Len(t))
      BY <3>1 DEF Cursor
    <3>. DEFINE e == Mark(0, "reply", 0, Len(t))
    <3>4. e.conn < attempt /\ b.conn \in Nat
      BY <1>2, <1>4, ByteFields, LinkAssumption DEF Mark, Attempt
    <3>. HIDE DEF e
    <3>5. Replaces(attempt, f, t, conn, b, e)
      BY <1>2, <2>6, <3>4, StaleAlike
    <3>6. Replaces(attempt, f, t, conn, b, Cursor(t)')
      BY <3>3, <3>5 DEF e
    <3>. QED  BY <1>1, <2>1, <2>2, <2>3, <2>4, <3>2, <3>6, StillTalking
  <2>. QED  BY <1>1, <1>8, <2>5, <2>6, LineGets DEF b
<1>9. Answered => Answered'
  <2>1. Granted' = Granted
    BY <1>1 DEF Granted
  <2>. QED  BY <1>5, <1>8, <2>1, AnswerText DEF Answered
<1>10. Awaiting \/ Answered
  BY <1>1 DEF DownlinkInv, Conversation
<1>11. Conversation'
  BY <1>5, <1>7, <1>9, <1>10 DEF Conversation
<1>12. Phases' /\ ~InSession' /\ FramesWellFormed'
  BY <1>1, <1>5 DEF DownlinkInv, Phases, InSession, FramesWellFormed
<1>. QED  BY <1>1, <1>11, <1>12, StillHolding

-----------------------------------------------------------------------------
(* Steps of the firmware: what it makes of the answer. *)

\* strncmp(resp, "OK", 2) looks at two characters.
LEMMA OkMeaning ==
    ASSUME NEW t \in Seq(ByteValue), Len(t) >= 2
    PROVE  IsOK(t) <=> t[1] = 79 /\ t[2] = 75
<1>. DEFINE r == SubSeq(t, 1, 2)
<1>1. 1 \in Nat /\ 2 \in Nat /\ 1 >= 1 /\ 2 <= Len(t) /\ 1 <= 2 + 1
  BY SMTT(60), SeqDomain
<1>2. /\ r \in Seq(ByteValue) /\ Len(r) = 2 + 1 - 1
      /\ \A i \in 1..(2 + 1 - 1) : r[i] = t[1 + i - 1]
  BY <1>1, SeqSegment
<1>3. Len(r) = 2 /\ r[1] = t[1] /\ r[2] = t[2]
  <2>1. 2 + 1 - 1 = 2 /\ 1 \in 1..2 /\ 2 \in 1..2 /\ 1 + 1 - 1 = 1 /\ 1 + 2 - 1 = 2
    OBVIOUS
  <2>. QED  BY <1>2, <2>1
<1>. HIDE DEF r
<1>4. OK \in Seq(ByteValue) /\ Len(OK) = 2 /\ OK[1] = 79 /\ OK[2] = 75
  <2>1. 79 \in ByteValue /\ 75 \in ByteValue
    BY DEF ByteValue
  <2>. QED  BY <2>1, SeqSmall DEF OK
<1>5. r = OK <=> r[1] = 79 /\ r[2] = 75
  <2>1. ASSUME r[1] = 79, r[2] = 75
        PROVE  r = OK
    <3>1. \A i \in 1..Len(r) : r[i] = OK[i]
      <4>1. ASSUME NEW i \in 1..2
            PROVE  r[i] = OK[i]
        <5>1. i = 1 \/ i = 2
          BY <4>1
        <5>. QED  BY <1>4, <2>1, <5>1
      <4>. QED  BY <1>3, <4>1
    <3>. QED  BY <1>2, <1>3, <1>4, <3>1, SeqSame
  <2>. QED  BY <1>4, <2>1
<1>. QED  BY <1>3, <1>5 DEF IsOK, r

\* What tls_port.c reads in the three lines.
LEMMA TextMeaning ==
    /\ IsOK(OkText) /\ IsOK(PemText) /\ ~IsOK(ErrText)
    /\ HasNumber(PemText) /\ Number(PemText) = PemLen
    /\ OkText # ErrText /\ OkText # PemText /\ PemText # ErrText
<1>1. ASSUME NEW t \in Seq(ByteValue), Len(t) \in 3..5
      PROVE  IsOK(t) <=> t[1] = 79 /\ t[2] = 75
  <2>1. Len(t) >= 2
    BY SMTT(60), <1>1
  <2>. QED  BY <2>1, OkMeaning
<1>2. IsOK(OkText) /\ IsOK(PemText) /\ ~IsOK(ErrText)
  BY <1>1, Texts
<1>3. HasNumber(PemText) /\ Number(PemText) = PemLen
  <2>. DEFINE d == PemText[4]
  <2>1. d = 48 + PemLen /\ PemLen \in 1..9 /\ Len(PemText) >= 4 /\ PemText[3] = 32
    BY Texts, ProxyAssumption
  <2>2. d \in 48..57 /\ d - 48 = PemLen
    BY <2>1
  <2>. QED  BY <2>1, <2>2 DEF HasNumber, Number
<1>4. OkText # ErrText /\ OkText # PemText /\ PemText # ErrText
  BY Texts
<1>. QED  BY <1>2, <1>3, <1>4

\* At the reply the firmware has read the whole line.
LEMMA LineIsRead ==
    ASSUME TypeOK, DownlinkInv, pc = "reply"
    PROVE  \E t \in {Granted, ErrText} :
              /\ AnsweredWith(t) /\ resp = t /\ (IsOK(resp) <=> t = Granted)
              /\ Cursor(t) = Mark(attempt, "reply", 0, 0)
<1>1. PICK t \in {Granted, ErrText} : AnsweredWith(t)
  BY DEF DownlinkInv, Conversation, Answered
<1>2. resp = t
  BY <1>1 DEF AnsweredWith, LineRead
<1>3. Granted \in {OkText, PemText}
  BY DEF Granted
<1>4. IsOK(resp) <=> t = Granted
  BY <1>1, <1>2, <1>3, TextMeaning
<1>5. Cursor(t) = Mark(attempt, "reply", 0, 0)
  BY DEF Cursor
<1>. QED  BY <1>1, <1>2, <1>4, <1>5

\* Only an accepted CONNECT leaves a connection.
LEMMA NoConnection ==
    ASSUME NEW t, t # OkText, AnsweredWith(t)
    PROVE  conn = 0
BY DEF AnsweredWith, Whole

\* When nothing can come after the byte read last nothing is on its way.
LEMMA NothingComes ==
    ASSUME NEW t, AnsweredWith(t), \A b : ~After(attempt, t, Cursor(t), b)
    PROVE  Coming = <<>>
BY DEF AnsweredWith, Runs

LEMMA NothingIsFine ==
    ASSUME Coming' = <<>>, Unasked', conn' = 0
    PROVE  AtRest'
<1>1. \A i \in DOMAIN Coming' : FALSE
  BY SeqNone, SeqDomain
<1>2. Spent'
  BY DEF Spent
<1>. QED  BY <1>1, <1>2 DEF AtRest

\* tls_port_connect returns, either way.
LEMMA DownConnect ==
    ASSUME TypeOK, DownlinkInv, ConnectAccepted \/ ConnectRejected, UNCHANGED proxyVars
    PROVE  DownlinkInv'
<1>. DEFINE f == fwd[attempt]
            a == Mark(attempt, "reply", 0, 0)
<1>1. /\ pc = "reply" /\ op = "CONNECT" /\ PrintLog /\ Coming' = Coming
      /\ UNCHANGED <<op, attempt, resp, got, want, sent, rcvd, cert, conn, busy, fwd>>
  BY DEF ConnectAccepted, ConnectRejected, cmdVars, readVars, proxyVars, Coming
<1>2. /\ attempt \in Attempt /\ attempt \in Nat /\ f \in Nat /\ attempt # 0
      /\ Granted = OkText /\ Granted' = OkText
  BY <1>1, PlainTypes, LinkAssumption DEF Talking, Granted, Attempt
<1>3. PICK t \in {Granted, ErrText} :
         AnsweredWith(t) /\ resp = t /\ (IsOK(resp) <=> t = Granted) /\ Cursor(t) = a
  BY <1>1, LineIsRead
<1>4. /\ rcvd[attempt] = <<>> /\ frame_buf = <<>> /\ frame_off = 0 /\ ~connected
  BY <1>1 DEF DownlinkInv, Phases, InSession
<1>5. frame_buf' = <<>> /\ frame_off' = 0
  BY <1>4 DEF ConnectAccepted, ConnectRejected, frameVars
<1>6. Place' = 0
  BY <1>1, <1>4, <1>5, SeqNone DEF Place
<1>7. Unasked' /\ conn \in {0, attempt}
  BY <1>1, <1>3, StillUnasked DEF AnsweredWith
<1>. HIDE DEF a
<1>8. CASE ConnectAccepted
  <2>1. t = OkText /\ pc' = "app" /\ connected' = TRUE
    BY <1>2, <1>3, <1>8 DEF ConnectAccepted, Goto
  <2>. DEFINE e == Mark(attempt, "data", 0, 0)
  <2>2. Cursor(t)' = e
    BY <1>1, <1>6, <2>1 DEF Cursor
  <2>3. Replaces(attempt, f, OkText, conn, a, e)
    <3>1. /\ a.conn = attempt /\ a.kind = "reply" /\ a.pos = 0 /\ a.left = 0
          /\ e.conn = attempt /\ e.kind = "data" /\ e.pos = 0 /\ e.left = 0
      BY DEF Mark, a
    <3>. HIDE DEF e
    <3>2. \A b : After(attempt, OkText, a, b) => After(attempt, OkText, e, b)
      BY <1>2, <3>1, TextMeaning DEF After, Opens
    <3>3. Whole(attempt, f, OkText, conn, a) => Whole(attempt, f, OkText, conn, e)
      BY <3>1 DEF Whole
    <3>. QED  BY <3>2, <3>3 DEF Replaces
  <2>4. LineRead(t)' /\ ObjectRead(t)'
    BY <2>1 DEF LineRead, ObjectRead
  <2>5. /\ Runs(attempt, f, t, a, Coming') /\ Whole(attempt, f, t, conn, Final(a, Coming'))
    BY <1>1, <1>3 DEF AnsweredWith
  <2>6. AnsweredWith(t)'
    BY <1>1, <1>7, <2>1, <2>2, <2>3, <2>4, <2>5, StillTalking
  <2>7. Answered'
    BY <1>2, <2>1, <2>6 DEF Answered
  <2>8. Conversation' /\ FramesWellFormed'
    BY <2>1, <2>7 DEF Conversation, FramesWellFormed
  <2>9. Phases'
    BY <1>1, <2>1, <1>5 DEF DownlinkInv, Phases, InSession
  <2>10. Holdings'
    <3>1. \A i \in DOMAIN frame_buf' : FALSE
      BY <1>5, SeqNone, SeqDomain
    <3>2. Place' <= fwd'[attempt']
      BY <1>1, <1>2, <1>6
    <3>. QED  BY <1>1, <3>1, <3>2 DEF DownlinkInv, Holdings
  <2>11. DownlinkInOrder' /\ CertIntact'
    BY <1>1 DEF DownlinkInv, DownlinkInOrder, CertIntact
  <2>. QED  BY <2>8, <2>9, <2>10, <2>11 DEF DownlinkInv
<1>9. CASE ConnectRejected
  <2>1. t = ErrText /\ pc' = "closed" /\ connected' = FALSE
    BY <1>2, <1>3, <1>9, TextMeaning DEF ConnectRejected, Goto
  <2>2. conn' = 0
    BY <1>1, <1>3, <2>1, NoConnection, TextMeaning
  <2>3. Coming = <<>>
    <3>1. a.conn = attempt /\ a.kind = "reply" /\ a.left = 0
      BY DEF Mark, a
    <3>2. \A b : ~After(attempt, ErrText, a, b)
      BY <1>2, <3>1, TextMeaning DEF After, Opens
    <3>. QED  BY <1>3, <2>1, <3>2, NothingComes
  <2>4. AtRest'
    BY <1>1, <1>7, <2>2, <2>3, NothingIsFine
  <2>5. Conversation' /\ FramesWellFormed'
    BY <2>1, <2>4 DEF Conversation, FramesWellFormed
  <2>6. Phases' /\ ~InSession'
    BY <1>1, <1>5, <2>1 DEF DownlinkInv, Phases, InSession
  <2>. QED  BY <1>1, <1>4, <1>5, <2>5, <2>6, StillHolding
<1>. QED  BY <1>8, <1>9

\* A certificate fetch that fails ends the program, with no connection open.
LEMMA DownFails ==
    ASSUME TypeOK, DownlinkInv, CertFails, UNCHANGED proxyVars, Unasked, conn = 0, ~connected,
           ~InSession
    PROVE  DownlinkInv'
<1>1. /\ PrintLog /\ pc' = "halted"
      /\ UNCHANGED <<attempt, connected, frame_buf, frame_off, rcvd, cert, conn, busy, fwd>>
  BY DEF CertFails, Goto, cmdVars, frameVars, proxyVars
<1>2. Unasked' /\ conn' = 0
  BY <1>1, StillUnasked
<1>3. Conversation' /\ FramesWellFormed'
  BY <1>1, <1>2 DEF Conversation, FramesWellFormed
<1>4. Phases' /\ ~InSession'
  BY <1>1 DEF DownlinkInv, Phases, InSession
<1>. QED  BY <1>1, <1>3, <1>4, StillHolding

\* tls_port_fetch_server_cert looks at the reply,
LEMMA DownCertReply ==
    ASSUME TypeOK, DownlinkInv, CertRejected \/ CertAccepted, UNCHANGED proxyVars
    PROVE  DownlinkInv'
<1>. DEFINE f == fwd[attempt]
            a == Mark(attempt, "reply", 0, 0)
<1>1. pc = "reply" /\ op = "CERT"
  BY DEF CertRejected, CertAccepted
<1>2. /\ attempt \in Attempt /\ attempt \in Nat /\ f \in Nat /\ attempt # 0
      /\ Granted = PemText
  BY <1>1, PlainTypes, LinkAssumption DEF Talking, Granted, Attempt
<1>3. PICK t \in {Granted, ErrText} :
         AnsweredWith(t) /\ resp = t /\ (IsOK(resp) <=> t = Granted) /\ Cursor(t) = a
  BY <1>1, LineIsRead
<1>4. Unasked /\ conn = 0
  BY <1>2, <1>3, NoConnection, TextMeaning DEF AnsweredWith
<1>5. ~connected /\ ~InSession
  BY <1>1 DEF DownlinkInv, Phases, InSession
<1>6. CASE CertFails
  BY <1>4, <1>5, <1>6, DownFails
<1>. HIDE DEF a
<1>7. CASE CertAccepted /\ ~CertFails
  <2>1. t = PemText /\ HasNumber(resp) /\ Number(resp) = PemLen
    BY <1>2, <1>3, <1>7, TextMeaning DEF CertAccepted
  <2>2. PemLen # 0
    BY Texts
  <2>3. /\ StartRead("certbody", PemLen)
        /\ UNCHANGED <<linkVars, cmdVars, resp, connected, frameVars, sent, rcvd, cert>>
    BY <1>7, <2>1, <2>2 DEF CertAccepted, CertBody
  <2>4. /\ pc' = "certbody" /\ got' = <<>> /\ want' = PemLen /\ Coming' = Coming
        /\ UNCHANGED <<up, op, attempt, connected, frame_buf, frame_off, sent, rcvd, cert,
                       conn, busy, fwd>>
    BY <2>3 DEF StartRead, Goto, linkVars, cmdVars, frameVars, proxyVars, Coming
  <2>5. Unasked' /\ conn \in {0, attempt}
    BY <1>4, <2>4 DEF Unasked, Idle
  <2>6. LineRead(t)' /\ ObjectRead(t)'
    <3>1. \A i \in DOMAIN got' : FALSE
      BY <2>4, SeqNone, SeqDomain
    <3>. QED  BY <2>4, <3>1 DEF LineRead, ObjectRead
  <2>7. Cursor(t)' = a
    BY <2>4 DEF Cursor, a
  <2>8. Replaces(attempt, f, t, conn, a, Cursor(t)')
    BY <2>7 DEF Replaces
  <2>9. /\ Runs(attempt, f, t, a, Coming') /\ Whole(attempt, f, t, conn, Final(a, Coming'))
    BY <1>3, <2>4 DEF AnsweredWith
  <2>10. AnsweredWith(t)'
    BY <2>4, <2>5, <2>6, <2>8, <2>9, StillTalking
  <2>11. Granted' = PemText
    BY <1>1, <2>4 DEF Granted
  <2>12. Conversation' /\ FramesWellFormed'
    BY <2>1, <2>4, <2>10, <2>11 DEF Answered, Conversation, FramesWellFormed
  <2>13. Phases' /\ ~InSession'
    BY <1>1, <1>5, <2>4 DEF DownlinkInv, Phases, InSession
  <2>. QED  BY <2>4, <2>12, <2>13, StillHolding
<1>. QED  BY <1>6, <1>7 DEF CertRejected

\* and while it reads the certificate nothing else can be on the line.
LEMMA DownCertRead ==
    ASSUME TypeOK, DownlinkInv, CertLength \/ CertTimeout \/ CertDone, UNCHANGED proxyVars
    PROVE  DownlinkInv'
<1>1. pc = "certbody" /\ op = "CERT" /\ ~connected /\ ~InSession
  BY DEF CertLength, CertTimeout, CertDone, ReadComplete, ReadTimedOut, DownlinkInv, Phases,
         InSession
<1>2. attempt \in Attempt /\ attempt \in Nat /\ Granted = PemText
  BY <1>1, PlainTypes, LinkAssumption DEF Talking, Granted, Attempt
<1>3. AnsweredWith(PemText)
  BY <1>1, <1>2 DEF DownlinkInv, Conversation, Answered
<1>4. Unasked /\ conn = 0
  BY <1>3, NoConnection, TextMeaning DEF AnsweredWith
<1>5. CASE CertTimeout
  <2>1. CertFails
    BY <1>5 DEF CertTimeout
  <2>. QED  BY <1>1, <1>4, <2>1, DownFails
<1>6. CASE CertDone
  <2>1. /\ Len(got) = PemLen /\ PemLen \in Nat /\ PemLen > 0 /\ want = PemLen /\ got \in Seq(Byte)
    BY <1>1, <1>3, <1>6, Texts DEF CertDone, ReadComplete, AnsweredWith, ObjectRead, TypeOK,
       PortTypeOK, ReadTypeOK
  <2>2. got # <<>> /\ DOMAIN got = 1..PemLen
    BY <2>1, SeqEmpty, SeqDomain
  <2>3. Place = 0
    <3>1. rcvd[attempt] = <<>> /\ frame_buf = <<>> /\ frame_off = 0
      BY <1>1 DEF DownlinkInv, Phases
    <3>. QED  BY <3>1, SeqNone DEF Place
  <2>4. \A i \in DOMAIN got :
           got[i].kind = "data" /\ got[i].conn = attempt /\ got[i].pos = i /\ got[i].left = PemLen - i
    <3>1. ASSUME NEW i \in DOMAIN got
          PROVE  /\ got[i].kind = "data" /\ got[i].conn = attempt
                 /\ got[i].pos = i /\ got[i].left = PemLen - i
      <4>1. /\ got[i].kind = "data" /\ got[i].conn = attempt
            /\ got[i].pos = Place + i /\ got[i].left = want - i
        BY <1>1, <1>3, <3>1 DEF AnsweredWith, ObjectRead
      <4>2. 0 + i = i
        BY <2>2, <3>1
      <4>. QED  BY <2>1, <2>3, <4>1, <4>2
    <3>. QED  BY <3>1
  <2>5. /\ PrintLog /\ pc' = "closed" /\ cert' = got /\ Coming' = Coming
        /\ UNCHANGED <<attempt, connected, frame_buf, frame_off, rcvd, conn, busy, fwd>>
    BY <1>6 DEF CertDone, Goto, cmdVars, frameVars, proxyVars, Coming
  <2>6. Coming = <<>>
    <3>. DEFINE e == got[PemLen]
    <3>1. Cursor(PemText) = e
      BY <1>1, <2>1, <2>2 DEF Cursor
    <3>2. PemLen \in DOMAIN got /\ PemLen - PemLen = 0
      BY <2>1, <2>2
    <3>3. e.conn = attempt /\ e.kind = "data" /\ e.left = 0
      BY <2>4, <3>2
    <3>. HIDE DEF e
    <3>4. \A b : ~After(attempt, PemText, e, b)
      BY <1>2, <3>3, TextMeaning DEF After
    <3>. QED  BY <1>3, <3>1, <3>4, NothingComes
  <2>7. AtRest'
    BY <1>4, <2>5, <2>6, StillUnasked, NothingIsFine
  <2>8. Conversation' /\ FramesWellFormed'
    BY <2>5, <2>7 DEF Conversation, FramesWellFormed
  <2>9. Phases' /\ ~InSession'
    BY <1>1, <2>5 DEF DownlinkInv, Phases, InSession
  <2>10. Place' = Place
    BY <2>5 DEF Place
  <2>11. Holdings' /\ DownlinkInOrder'
    BY <2>5, <2>9 DEF DownlinkInv, Holdings, DownlinkInOrder
  <2>12. CertIntact'
    <3>1. 1 \in DOMAIN got
      BY <2>1, <2>2
    <3>. QED  BY <2>1, <2>4, <2>5, <3>1 DEF CertIntact
  <2>. QED  BY <2>8, <2>9, <2>11, <2>12 DEF DownlinkInv
<1>7. ~CertLength
  BY <1>1 DEF CertLength, ReadComplete
<1>. QED  BY <1>5, <1>6, <1>7

-----------------------------------------------------------------------------
(* Steps of the firmware: tls_port_recv. *)

\* What there is to know in a session.
LEMMA Session ==
    ASSUME TypeOK, DownlinkInv, pc \in {"app", "header", "payload", "copy"}
    PROVE  /\ attempt \in Attempt /\ attempt \in Nat /\ attempt # 0
           /\ op = "CONNECT" /\ connected /\ InSession
           /\ AnsweredWith(OkText) /\ Unasked /\ conn \in {0, attempt}
           /\ fwd[attempt] \in Nat /\ Place \in Nat /\ Place <= fwd[attempt]
           /\ rcvd[attempt] \in Seq(Byte) /\ Len(rcvd[attempt]) \in Nat
           /\ frame_buf \in Seq(Byte) /\ Len(frame_buf) \in Nat
           /\ frame_off \in Nat /\ frame_off <= Len(frame_buf)
           /\ got \in Seq(Byte) /\ Len(got) \in Nat /\ want \in Nat
<1>1. attempt \in Attempt /\ attempt \in Nat /\ attempt # 0 /\ fwd[attempt] \in Nat
  BY PlainTypes, LinkAssumption DEF Talking, Attempt
<1>2. op = "CONNECT" /\ connected /\ InSession
  BY DEF DownlinkInv, Phases, InSession
<1>3. AnsweredWith(OkText)
  BY <1>2 DEF DownlinkInv, Conversation, Answered, Granted
<1>4. /\ rcvd[attempt] \in Seq(Byte) /\ frame_buf \in Seq(Byte) /\ got \in Seq(Byte)
      /\ frame_off \in 0..Len(frame_buf) /\ want \in Nat
  BY <1>1 DEF TypeOK, PortTypeOK, FrameTypeOK, StreamTypeOK, ReadTypeOK
<1>5. Len(rcvd[attempt]) \in Nat /\ Len(frame_buf) \in Nat /\ Len(got) \in Nat
  BY <1>4, SeqDomain
<1>6. frame_off \in Nat /\ frame_off <= Len(frame_buf)
  BY <1>4, <1>5
<1>7. Place \in Nat
  BY <1>5, <1>6 DEF Place
<1>8. Place <= fwd[attempt]
  BY <1>2 DEF DownlinkInv, Holdings
<1>. QED  BY <1>1, <1>2, <1>3, <1>4, <1>5, <1>6, <1>7, <1>8 DEF AnsweredWith

\* A session goes on when its conversation does.
LEMMA SessionGoesOn ==
    ASSUME DownlinkInv, op = "CONNECT", UNCHANGED <<op, connected>>, connected,
           pc' \in {"app", "header", "payload", "copy"},
           pc' \in {"header", "payload"} => frame_off' = Len(frame_buf'),
           AnsweredWith(OkText)'
    PROVE  Conversation' /\ Phases' /\ FramesWellFormed'
<1>1. Answered'
  BY DEF Answered, Granted
<1>. QED  BY <1>1 DEF Conversation, Phases, InSession, FramesWellFormed, DownlinkInv

\* The beginning of a header is awaited at the end of a frame.
LEMMA DownHeader ==
    ASSUME TypeOK, DownlinkInv, RecvHeader, UNCHANGED proxyVars
    PROVE  DownlinkInv'
<1>. DEFINE f == fwd[attempt]
            a == Mark(attempt, "data", Place, 0)
            t == OkText
<1>1. /\ pc = "app" /\ pc' = "header" /\ got' = <<>> /\ Coming' = Coming
      /\ frame_off >= Len(frame_buf)
      /\ UNCHANGED <<up, op, attempt, connected, frame_buf, frame_off, sent, rcvd, cert,
                     conn, busy, fwd>>
  BY DEF RecvHeader, StartRead, Goto, linkVars, cmdVars, frameVars, proxyVars, Coming
<1>2. /\ op = "CONNECT" /\ connected /\ InSession /\ AnsweredWith(t) /\ Unasked
      /\ conn \in {0, attempt} /\ frame_off = Len(frame_buf)
  BY <1>1, Session
<1>3. Place' = Place
  BY <1>1 DEF Place
<1>4. Cursor(t) = a /\ Cursor(t)' = a
  BY <1>1, <1>3 DEF Cursor
<1>5. Unasked' /\ UNCHANGED attempt
  BY <1>1, <1>2 DEF Unasked, Idle
<1>6. LineRead(t)' /\ ObjectRead(t)'
  <2>1. Len(got') = 0
    BY <1>1, SeqNone
  <2>2. ~(Len(got') >= 1) /\ Len(got') # 2
    BY <2>1
  <2>. QED  BY <1>1, <2>2 DEF LineRead, ObjectRead
<1>7. Replaces(attempt, f, t, conn, a, Cursor(t)')
  BY <1>4 DEF Replaces
<1>8. /\ Runs(attempt, f, t, a, Coming') /\ Whole(attempt, f, t, conn, Final(a, Coming'))
  BY <1>1, <1>2, <1>4 DEF AnsweredWith
<1>. HIDE DEF t, a
<1>9. AnsweredWith(t)'
  BY <1>2, <1>5, <1>6, <1>7, <1>8, StillTalking
<1>10. Conversation' /\ Phases' /\ FramesWellFormed'
  BY <1>1, <1>2, <1>9, SessionGoesOn DEF t
<1>. QED  BY <1>1, <1>2, <1>10, StillHolding

\* Five seconds of silence inside a header: the proxy has died in the middle of
\* it, and the session stays without another byte.
LEMMA DownWantRead ==
    ASSUME TypeOK, DownlinkInv, RecvWantRead, UNCHANGED proxyVars
    PROVE  DownlinkInv'
<1>. DEFINE f == fwd[attempt]
            a == Mark(attempt, "data", Place, 0)
            t == OkText
<1>1. /\ pc = "header" /\ pc' = "app" /\ Silent /\ Coming' = Coming /\ Len(got) < want
      /\ UNCHANGED <<up, op, attempt, connected, frame_buf, frame_off, sent, rcvd, cert,
                     conn, busy, fwd>>
  BY DEF RecvWantRead, ReadTimedOut, Goto, linkVars, cmdVars, frameVars, proxyVars, Coming
<1>2. /\ op = "CONNECT" /\ connected /\ InSession /\ AnsweredWith(t) /\ Unasked
      /\ conn \in {0, attempt} /\ attempt # 0 /\ got \in Seq(Byte) /\ Len(got) \in Nat
  BY <1>1, Session
<1>3. Place' = Place
  BY <1>1 DEF Place
<1>4. Coming' = <<>> /\ Coming = <<>>
  BY <1>1, ComingType
<1>5. Unasked' /\ UNCHANGED attempt
  BY <1>1, <1>2 DEF Unasked, Idle
<1>6. LineRead(t)' /\ ObjectRead(t)' /\ Cursor(t)' = a
  BY <1>1, <1>3 DEF LineRead, ObjectRead, Cursor
<1>7. Whole(attempt, f, t, conn, Cursor(t))
  BY <1>2, <1>4 DEF AnsweredWith, Final
<1>8. Whole(attempt, f, t, conn, a)
  <2>1. CASE got = <<>>
    <3>1. Cursor(t) = a
      BY <1>1, <2>1 DEF Cursor
    <3>. QED  BY <1>7, <3>1
  <2>2. CASE got # <<>>
    <3>1. want = 2
      BY <1>1 DEF TypeOK, PortTypeOK, ReadTypeOK
    <3>2. Len(got) = 1
      <4>1. Len(got) # 0
        BY <1>2, <2>2, SeqEmpty
      <4>2. Len(got) < 2
        BY <1>1, <3>1
      <4>. QED  BY <1>2, <4>1, <4>2
    <3>3. Cursor(t) = got[1]
      BY <1>1, <2>2, <3>2 DEF Cursor
    <3>4. got[1].kind = "high"
      BY <1>1, <1>2, <3>2 DEF AnsweredWith, ObjectRead
    <3>. HIDE DEF t, a
    <3>. QED  BY <1>7, <3>3, <3>4 DEF Whole
  <2>. QED  BY <2>1, <2>2
<1>. HIDE DEF t, a
<1>9. Replaces(attempt, f, t, conn, a, Cursor(t)')
  BY <1>6 DEF Replaces
<1>10. /\ Runs(attempt, f, t, a, Coming') /\ Whole(attempt, f, t, conn, Final(a, Coming'))
  <2>1. Runs(attempt, f, t, a, <<>>)
    <3>1. \A i \in DOMAIN <<>> : FALSE
      BY SeqNone, SeqDomain
    <3>2. \A i \in 1..(Len(<<>>) - 1) : FALSE
      BY SeqNone
    <3>. QED  BY <3>1, <3>2 DEF Runs
  <2>2. Final(a, <<>>) = a
    BY DEF Final
  <2>. QED  BY <1>4, <1>8, <2>1, <2>2
<1>11. AnsweredWith(t)'
  BY <1>2, <1>5, <1>6, <1>9, <1>10, StillTalking
<1>12. Conversation' /\ Phases' /\ FramesWellFormed'
  BY <1>1, <1>2, <1>11, SessionGoesOn DEF t
<1>. QED  BY <1>1, <1>2, <1>12, StillHolding

\* Where the firmware reads an object, and what it has of it.
LEMMA Reading ==
    ASSUME TypeOK, DownlinkInv, pc \in {"header", "payload", "certbody"}
    PROVE  /\ attempt \in Attempt /\ attempt \in Nat /\ Granted \in {OkText, PemText}
           /\ AnsweredWith(Granted)
           /\ pc = "certbody" => Granted = PemText /\ want = PemLen /\ Place = 0
           /\ pc # "certbody" => Granted = OkText
           /\ pc = "header" => want = 2
           /\ got \in Seq(Byte) /\ Len(got) \in Nat /\ want \in Nat /\ Place \in Nat
<1>1. attempt \in Attempt /\ attempt \in Nat /\ got \in Seq(Byte) /\ Len(got) \in Nat /\ want \in Nat
  BY PlainTypes, SeqDomain DEF Talking, TypeOK, PortTypeOK, ReadTypeOK
<1>2. AnsweredWith(Granted) /\ Granted \in {OkText, PemText}
  BY DEF DownlinkInv, Conversation, Answered, Granted
<1>3. CASE pc = "certbody"
  <2>1. Granted = PemText /\ want = PemLen
    BY <1>2, <1>3 DEF DownlinkInv, Phases, Granted, AnsweredWith, ObjectRead
  <2>2. Place = 0
    <3>1. rcvd[attempt] = <<>> /\ frame_buf = <<>> /\ frame_off = 0
      BY <1>3 DEF DownlinkInv, Phases, InSession
    <3>. QED  BY <3>1, SeqNone DEF Place
  <2>. QED  BY <1>1, <1>2, <1>3, <2>1, <2>2
<1>4. CASE pc \in {"header", "payload"}
  <2>1. Granted = OkText /\ Place \in Nat
    BY <1>4, Session DEF Granted
  <2>2. pc = "header" => want = 2
    BY DEF TypeOK, PortTypeOK, ReadTypeOK
  <2>. QED  BY <1>1, <1>2, <1>4, <2>1, <2>2
<1>. QED  BY <1>3, <1>4

\* What uart_read_exact gets next, after n bytes of the object.
NextOfObject(t, n, b) ==
    /\ b.conn = attempt /\ Current(attempt, fwd[attempt], t, b)
    /\ pc = "header" => /\ n = 0 => b.kind = "high" /\ b.pos = Place
                        /\ n = 1 => After(attempt, t, got[1], b)
    /\ pc \in {"payload", "certbody"} =>
          b.kind = "data" /\ b.pos = Place + (n + 1) /\ b.left = want - (n + 1)

LEMMA ObjectGets ==
    ASSUME TypeOK, DownlinkInv, pc \in {"header", "payload", "certbody"}, Coming # <<>>,
           Len(got) < want
    PROVE  NextOfObject(Granted, Len(got), Coming[1])
<1>. DEFINE t == Granted
            a == Cursor(t)
            b == Coming[1]
            f == fwd[attempt]
            n == Len(got)
<1>. SUFFICES NextOfObject(t, n, b)
  OBVIOUS
<1>1. /\ attempt \in Attempt /\ attempt \in Nat /\ t \in {OkText, PemText} /\ AnsweredWith(t)
      /\ pc = "certbody" => t = PemText /\ want = PemLen /\ Place = 0
      /\ pc # "certbody" => t = OkText
      /\ pc = "header" => want = 2
      /\ got \in Seq(Byte) /\ n \in Nat /\ want \in Nat /\ Place \in Nat
  BY Reading
<1>. HIDE DEF t
<1>2. Coming \in Seq(Byte) /\ Runs(attempt, f, t, a, Coming)
  BY <1>1, ComingType DEF AnsweredWith
<1>3. After(attempt, t, a, b) /\ (Stale(attempt, b) \/ Current(attempt, f, t, b)) /\ b \in Byte
  BY <1>2, RunsRead
<1>4. got = <<>> <=> n = 0
  BY <1>1, SeqEmpty
<1>. HIDE DEF b
<1>5. a.conn = attempt /\ a.conn \in Nat =>
         /\ b.conn = attempt /\ Current(attempt, f, t, b) /\ ~(a.conn < attempt)
  <2>. SUFFICES ASSUME a.conn = attempt, a.conn \in Nat
                PROVE  b.conn = attempt /\ Current(attempt, f, t, b) /\ ~(a.conn < attempt)
    OBVIOUS
  <2>1. ~(a.conn < attempt)
    BY <1>1
  <2>. HIDE DEF a
  <2>2. b.conn = attempt
    BY <1>3, <2>1 DEF After
  <2>3. ~Stale(attempt, b)
    BY <1>1, <2>2 DEF Stale
  <2>. QED  BY <1>3, <2>1, <2>2, <2>3
<1>6. CASE pc = "header" /\ n = 0
  <2>1. a = Mark(attempt, "data", Place, 0)
    BY <1>4, <1>6 DEF Cursor
  <2>2. a.conn = attempt /\ a.kind = "data" /\ a.left = 0 /\ a.pos = Place
    BY <2>1 DEF Mark
  <2>. HIDE DEF a
  <2>3. b.kind = "high" /\ b.pos = Place
    BY <1>1, <1>3, <1>5, <2>2 DEF After
  <2>. QED  BY <1>1, <1>5, <1>6, <2>2, <2>3 DEF NextOfObject
<1>7. CASE pc = "header" /\ n = 1
  <2>1. a = got[1]
    BY <1>4, <1>7 DEF Cursor
  <2>2. Current(attempt, f, t, a)
    BY <1>1, <1>7, <2>1 DEF AnsweredWith, ObjectRead
  <2>3. a.conn = attempt
    BY <2>2 DEF Current
  <2>. QED  BY <1>1, <1>3, <1>5, <1>7, <2>1, <2>3 DEF NextOfObject
<1>8. CASE pc = "certbody" /\ n = 0
  <2>1. a = Mark(attempt, "reply", 0, 0)
    BY <1>4, <1>8 DEF Cursor
  <2>2. a.conn = attempt /\ a.kind = "reply" /\ a.left = 0
    BY <2>1 DEF Mark
  <2>. HIDE DEF a
  <2>3. t = PemText /\ Opens(t, b)
    BY <1>1, <1>3, <1>5, <1>8, <2>2 DEF After
  <2>4. b.kind = "data" /\ b.pos = 1 /\ b.left = PemLen - 1
    BY <2>3, TextMeaning DEF Opens
  <2>5. b.pos = Place + (n + 1) /\ b.left = want - (n + 1)
    BY <1>1, <1>8, <2>4
  <2>. QED  BY <1>1, <1>5, <1>8, <2>2, <2>4, <2>5 DEF NextOfObject
<1>9. CASE pc = "payload" \/ (pc = "certbody" /\ n # 0)
  <2>1. /\ a.conn = attempt /\ a.kind \in {"low", "data"} /\ a.left = want - n /\ a.pos = Place + n
    <3>1. CASE n = 0
      <4>1. a = Mark(attempt, "low", Place, want)
        BY <1>4, <1>9, <3>1 DEF Cursor
      <4>2. a.conn = attempt /\ a.kind = "low" /\ a.left = want /\ a.pos = Place
        BY <4>1 DEF Mark
      <4>3. want - n = want /\ Place + n = Place
        BY <1>1, <3>1
      <4>. QED  BY <4>2, <4>3
    <3>2. CASE n # 0
      <4>1. a = got[n]
        BY <1>4, <1>9, <3>2 DEF Cursor
      <4>2. n \in DOMAIN got
        <5>1. DOMAIN got = 1..n
          BY <1>1, SeqDomain
        <5>. QED  BY <1>1, <3>2, <5>1
      <4>3. \A i \in DOMAIN got : /\ got[i].kind = "data" /\ got[i].conn = attempt
                                  /\ got[i].pos = Place + i /\ got[i].left = want - i
        BY <1>1, <1>9 DEF AnsweredWith, ObjectRead
      <4>. QED  BY <4>1, <4>2, <4>3
    <3>. QED  BY <3>1, <3>2
  <2>. HIDE DEF a
  <2>2. a.left > 0 /\ a.left # 0
    BY <1>1, <2>1
  <2>3. b.kind = "data" /\ b.pos = a.pos + 1 /\ b.left = a.left - 1
    BY <1>1, <1>3, <1>5, <2>1, <2>2 DEF After
  <2>4. b.pos = Place + (n + 1) /\ b.left = want - (n + 1)
    BY <1>1, <2>1, <2>3
  <2>. QED  BY <1>1, <1>5, <1>9, <2>1, <2>3, <2>4 DEF NextOfObject
<1>10. pc = "header" => n = 0 \/ n = 1
  <2>1. n < want
    OBVIOUS
  <2>. HIDE DEF n
  <2>2. want = 2 => n = 0 \/ n = 1
    BY <1>1, <2>1
  <2>. QED  BY <1>1, <2>2
<1>11. CASE pc = "header"
  BY <1>6, <1>7, <1>10, <1>11
<1>12. CASE pc = "certbody"
  BY <1>8, <1>9, <1>12
<1>13. CASE pc = "payload"
  BY <1>9, <1>13
<1>. HIDE DEF a, f, n
<1>. QED  BY <1>11, <1>12, <1>13

\* uart_read_exact gets the next byte of the object it reads.
LEMMA ObjectGoesOn ==
    ASSUME TypeOK, DownlinkInv, ReadExact, UNCHANGED proxyVars,
           pc \in {"header", "payload", "certbody"}, NEW t, t = Granted
    PROVE  ObjectRead(t)' /\ Cursor(t)' = ch
<1>. DEFINE b == ch
            n == Len(got)
            r == Append(got, b)
            f == fwd[attempt]
<1>1. /\ attempt \in Attempt /\ t \in {OkText, PemText} /\ AnsweredWith(t)
      /\ pc = "certbody" => t = PemText /\ want = PemLen /\ Place = 0
      /\ pc = "header" => want = 2
      /\ got \in Seq(Byte) /\ n \in Nat /\ want \in Nat /\ Place \in Nat
  BY Reading
<1>2. /\ Coming # <<>> /\ b = Coming[1] /\ n < want /\ got' = r
      /\ UNCHANGED <<pc, attempt, want, frame_buf, frame_off, rcvd, fwd>>
  BY TakeComing DEF ReadExact, cmdVars, frameVars, proxyVars
<1>3. NextOfObject(t, n, b)
  BY <1>2, ObjectGets
<1>4. b \in Byte
  <2>1. rdr \in Seq(Byte) /\ rdr # <<>>
    BY DEF TypeOK, LinkTypeOK, ReadExact, TakeByte
  <2>. QED  BY <2>1, SeqTail DEF ch
<1>. HIDE DEF b
<1>5. /\ r \in Seq(Byte) /\ Len(r) = n + 1 /\ r[n + 1] = b
      /\ \A i \in 1..n : r[i] = got[i]
  BY <1>1, <1>4, SeqAppend
<1>6. DOMAIN r = 1..(n + 1) /\ DOMAIN got = 1..n
  BY <1>1, <1>5, SeqDomain
<1>7. Place' = Place
  BY <1>2 DEF Place
<1>. HIDE DEF r
<1>8. Cursor(t)' = b
  <2>1. r # <<>>
    <3>1. Len(r) # 0
      BY <1>1, <1>5
    <3>. QED  BY <1>5, <3>1, SeqEmpty
  <2>2. got'[Len(got')] = b /\ got' # <<>>
    BY <1>2, <1>5, <2>1
  <2>3. pc' \in {"header", "payload", "certbody"}
    BY <1>2
  <2>. QED  BY <2>2, <2>3 DEF Cursor
<1>9. ObjectRead(t)'
  <2>1. CASE pc = "header"
    <3>1. ASSUME n = 0
          PROVE  /\ Current(attempt, f, t, r[1]) /\ r[1].kind = "high" /\ r[1].pos = Place
                 /\ Len(r) # 2
      <4>1. r[1] = b /\ Len(r) # 2
        BY <1>5, <3>1
      <4>. QED  BY <1>3, <2>1, <3>1, <4>1 DEF NextOfObject
    <3>2. ASSUME n = 1
          PROVE  /\ Current(attempt, f, t, r[1]) /\ r[1].kind = "high" /\ r[1].pos = Place
                 /\ Current(attempt, f, t, r[2]) /\ After(attempt, t, r[1], r[2])
      <4>1. r[1] = got[1] /\ r[2] = b /\ Len(got) >= 1
        BY <1>5, <3>2
      <4>2. /\ Current(attempt, f, t, got[1]) /\ got[1].kind = "high" /\ got[1].pos = Place
        BY <1>1, <2>1, <4>1 DEF AnsweredWith, ObjectRead
      <4>. QED  BY <1>3, <2>1, <3>2, <4>1, <4>2 DEF NextOfObject
    <3>3. n = 0 \/ n = 1
      <4>1. n \in Nat /\ n < 2
        BY <1>1, <1>2, <2>1
      <4>. HIDE DEF n
      <4>. QED  BY <4>1
    <3>4. /\ Current(attempt, f, t, r[1]) /\ r[1].kind = "high" /\ r[1].pos = Place
          /\ Len(r) = 2 => Current(attempt, f, t, r[2]) /\ After(attempt, t, r[1], r[2])
      BY <3>1, <3>2, <3>3
    <3>5. pc' = "header"
      BY <1>2, <2>1
    <3>6. /\ Current(attempt', fwd'[attempt'], t, got'[1]) /\ got'[1].kind = "high"
          /\ got'[1].pos = Place'
          /\ Len(got') = 2 => /\ Current(attempt', fwd'[attempt'], t, got'[2])
                              /\ After(attempt', t, got'[1], got'[2])
      BY <1>2, <1>7, <3>4
    <3>. QED  BY <3>5, <3>6 DEF ObjectRead
  <2>2. CASE pc \in {"payload", "certbody"}
    <3>1. ASSUME NEW i \in 1..(n + 1)
          PROVE  /\ r[i].kind = "data" /\ r[i].conn = attempt
                 /\ r[i].pos = Place + i /\ r[i].left = want - i
      <4>1. CASE i = n + 1
        BY <1>3, <1>5, <2>2, <4>1 DEF NextOfObject
      <4>2. CASE i # n + 1
        <5>1. i \in DOMAIN got /\ r[i] = got[i]
          BY <1>1, <1>5, <1>6, <4>2
        <5>2. \A j \in DOMAIN got : /\ got[j].kind = "data" /\ got[j].conn = attempt
                                    /\ got[j].pos = Place + j /\ got[j].left = want - j
          BY <1>1, <2>2 DEF AnsweredWith, ObjectRead
        <5>. QED  BY <5>1, <5>2
      <4>. QED  BY <4>1, <4>2
    <3>2. \A i \in DOMAIN got' : /\ got'[i].kind = "data" /\ got'[i].conn = attempt'
                                 /\ got'[i].pos = Place' + i /\ got'[i].left = want' - i
      BY <1>2, <1>6, <1>7, <3>1
    <3>3. /\ pc = "payload" => want > 0 /\ Place + want <= fwd[attempt]
          /\ pc = "certbody" => want = PemLen
      BY <1>1 DEF AnsweredWith, ObjectRead
    <3>4. pc' # "header" /\ pc' = pc
      BY <1>2, <2>2
    <3>5. /\ pc' = "payload" => want' > 0 /\ Place' + want' <= fwd'[attempt']
          /\ pc' = "certbody" => want' = PemLen
      BY <1>2, <1>7, <3>3
    <3>. QED  BY <3>2, <3>4, <3>5 DEF ObjectRead
  <2>. QED  BY <2>1, <2>2
<1>. QED  BY <1>8, <1>9 DEF b

LEMMA DownRead ==
    ASSUME TypeOK, DownlinkInv, ReadExact, UNCHANGED proxyVars
    PROVE  DownlinkInv'
<1>0. PICK t : t = Granted
  OBVIOUS
<1>. DEFINE b == Coming[1]
            w == Tail(Coming)
            f == fwd[attempt]
<1>1. pc \in {"header", "payload", "certbody"}
  BY DEF ReadExact, DownlinkInv, Phases
<1>2. /\ Coming # <<>> /\ ch = b /\ Coming' = w /\ up' = up /\ Granted' = t
      /\ UNCHANGED <<pc, op, attempt, connected, frame_buf, frame_off, sent, rcvd, cert,
                     conn, busy, fwd>>
  BY <1>0, TakeComing DEF ReadExact, TakeByte, cmdVars, frameVars, proxyVars, Granted
<1>3. attempt \in Attempt /\ t \in {OkText, PemText} /\ AnsweredWith(t) /\ Coming \in Seq(Byte)
  BY <1>0, <1>1, Reading, ComingType
<1>4. ObjectRead(t)' /\ Cursor(t)' = b
  BY <1>0, <1>1, <1>2, ObjectGoesOn
<1>. HIDE DEF b, w
<1>5. Runs(attempt, f, t, b, w) /\ Final(b, w) = Final(Cursor(t), Coming)
  BY <1>2, <1>3, RunsRead DEF AnsweredWith, b, w
<1>6. Unasked' /\ conn \in {0, attempt} /\ UNCHANGED attempt
  BY <1>2, <1>3 DEF AnsweredWith, Unasked, Idle
<1>7. /\ Runs(attempt, f, t, b, Coming') /\ Whole(attempt, f, t, conn, Final(b, Coming'))
  BY <1>2, <1>3, <1>5 DEF AnsweredWith
<1>8. LineRead(t)'
  BY <1>1, <1>2 DEF LineRead
<1>9. Replaces(attempt, f, t, conn, b, Cursor(t)')
  BY <1>4 DEF Replaces
<1>10. AnsweredWith(t)'
  BY <1>6, <1>4, <1>7, <1>8, <1>9, StillTalking
<1>11. Answered' /\ Conversation'
  BY <1>1, <1>2, <1>10 DEF Answered, Conversation
<1>12. Phases' /\ FramesWellFormed' /\ (InSession' => InSession)
  BY <1>1, <1>2 DEF DownlinkInv, Phases, InSession, FramesWellFormed
<1>. QED  BY <1>2, <1>11, <1>12, StillHolding

\* Both bytes of a header are of the same frame, and give its length.
LEMMA HeaderSays ==
    ASSUME TypeOK, DownlinkInv, Paced, ReadComplete("header")
    PROVE  /\ HeaderValue(got) = got[2].left /\ got[2].left \in 0..TLS_FRAME_MAX
           /\ Cursor(OkText) = got[2]
           /\ got[2].conn = attempt /\ got[2].kind = "low" /\ got[2].pos = Place
           /\ Place + got[2].left <= fwd[attempt]
<1>. DEFINE a == got[1]
            b == got[2]
            l == got[2].left
            f == fwd[attempt]
            t == OkText
<1>1. pc = "header" /\ Len(got) = 2 /\ got \in Seq(Byte) /\ AnsweredWith(t) /\ attempt \in Nat
  <2>1. pc = "header" /\ Len(got) = want
    BY DEF ReadComplete
  <2>2. want = 2
    BY <2>1 DEF TypeOK, PortTypeOK, ReadTypeOK
  <2>. QED  BY <2>1, <2>2, Session
<1>2. /\ Current(attempt, f, t, a) /\ a.kind = "high" /\ a.pos = Place
      /\ Current(attempt, f, t, b) /\ After(attempt, t, a, b)
  <2>1. Len(got) >= 1
    BY <1>1
  <2>. QED  BY <1>1, <2>1 DEF AnsweredWith, ObjectRead
<1>3. b \in Byte /\ b.left \in Nat
  BY <1>1, SeqFirstTwo, ByteFields
<1>4. Cursor(t) = b
  <2>1. got # <<>>
    BY <1>1, SeqNone
  <2>. QED  BY <1>1, <2>1 DEF Cursor
<1>5. a.left \in 1..(NetChunk + 1) /\ a.val = (a.left - 1) \div 256 /\ a.conn = attempt
  <2>. HIDE DEF a, b, t
  <2>. QED  BY <1>2 DEF Current
<1>6. b.kind = "low" /\ b.pos = a.pos /\ b.left = a.left - 1 /\ b.conn = attempt
  <2>. HIDE DEF a, b, t
  <2>1. ~(a.conn < attempt)
    BY <1>1, <1>5
  <2>. QED  BY <1>2, <1>5, <2>1 DEF After
<1>7. b.val = l % 256 /\ b.pos + l <= f /\ l \in 0..NetChunk
  <2>1. b.kind # "high" /\ b.kind # "reply" /\ b.kind # "data"
    BY <1>6
  <2>. HIDE DEF a, b, t
  <2>. QED  BY <1>2, <2>1 DEF Current, b
<1>8. a.val * 256 + b.val = l
  <2>1. a.val = l \div 256
    BY <1>5, <1>6
  <2>2. (l \div 256) * 256 + (l % 256) = l
    BY <1>3
  <2>. QED  BY <1>7, <2>1, <2>2
<1>9. l \in 0..TLS_FRAME_MAX
  BY <1>7, ProxyAssumption, PortAssumption DEF Paced
<1>. QED  BY <1>2, <1>4, <1>6, <1>7, <1>8, <1>9 DEF HeaderValue

\* The EOF is the last of a session.
LEMMA DownEof ==
    ASSUME TypeOK, DownlinkInv, Paced, RecvEof \/ RecvBadLength, UNCHANGED proxyVars
    PROVE  DownlinkInv'
<1>. DEFINE t == OkText
            b == got[2]
<1>1. ReadComplete("header") /\ pc = "header"
  BY DEF RecvEof, RecvBadLength, ReadComplete
<1>2. /\ HeaderValue(got) = b.left /\ b.left \in 0..TLS_FRAME_MAX /\ Cursor(t) = b
      /\ b.conn = attempt /\ b.kind = "low"
  BY <1>1, HeaderSays
<1>3. /\ op = "CONNECT" /\ InSession /\ AnsweredWith(t) /\ Unasked /\ attempt \in Nat
      /\ conn \in {0, attempt}
  BY <1>1, Session
<1>4. RecvEof
  <2>1. ~(b.left > TLS_FRAME_MAX)
    BY <1>2, PortAssumption
  <2>. QED  BY <1>2, <2>1 DEF RecvBadLength
<1>5. b.left = 0
  BY <1>2, <1>4 DEF RecvEof
<1>6. /\ PrintLog /\ pc' = "closing" /\ connected' = FALSE /\ Coming' = Coming
      /\ UNCHANGED <<op, attempt, frame_buf, frame_off, sent, rcvd, cert, conn, busy, fwd>>
  BY <1>4 DEF RecvEof, Goto, cmdVars, frameVars, proxyVars, Coming
<1>. HIDE DEF b, t
<1>7. Coming = <<>>
  <2>1. \A x : ~After(attempt, t, b, x)
    BY <1>2, <1>3, <1>5 DEF After
  <2>. QED  BY <1>2, <1>3, <2>1, NothingComes
<1>8. conn = 0
  <2>1. Final(Cursor(t), Coming) = b
    BY <1>2, <1>7 DEF Final
  <2>2. conn # attempt
    BY <1>2, <1>3, <2>1 DEF AnsweredWith, Whole
  <2>. QED  BY <1>3, <2>2
<1>9. Unasked'
  BY <1>3, <1>6, StillUnasked DEF proxyVars
<1>10. Conversation' /\ FramesWellFormed'
  BY <1>6, <1>7, <1>8, <1>9 DEF Conversation, FramesWellFormed
<1>11. Phases'
  BY <1>3, <1>6 DEF DownlinkInv, Phases, InSession
<1>. QED  BY <1>3, <1>6, <1>10, <1>11, StillHolding

\* A frame follows its header.
LEMMA DownPayload ==
    ASSUME TypeOK, DownlinkInv, Paced, RecvPayload, UNCHANGED proxyVars
    PROVE  DownlinkInv'
<1>. DEFINE t == OkText
            b == got[2]
            f == fwd[attempt]
            e == Mark(attempt, "low", Place, got[2].left)
<1>1. ReadComplete("header") /\ pc = "header"
  BY DEF RecvPayload, ReadComplete
<1>2. /\ HeaderValue(got) = b.left /\ b.left \in 0..TLS_FRAME_MAX /\ Cursor(t) = b
      /\ b.conn = attempt /\ b.kind = "low" /\ b.pos = Place /\ Place + b.left <= f
  BY <1>1, HeaderSays
<1>3. /\ op = "CONNECT" /\ connected /\ InSession /\ AnsweredWith(t) /\ Unasked /\ attempt \in Nat
      /\ conn \in {0, attempt}
  BY <1>1, Session
<1>4. /\ pc' = "payload" /\ got' = <<>> /\ want' = b.left /\ b.left > 0 /\ Coming' = Coming
      /\ UNCHANGED <<up, op, attempt, connected, frame_buf, frame_off, sent, rcvd, cert,
                     conn, busy, fwd>>
  BY <1>2 DEF RecvPayload, StartRead, Goto, linkVars, cmdVars, frameVars, proxyVars, Coming
<1>5. Place' = Place
  BY <1>4 DEF Place
<1>6. Unasked' /\ UNCHANGED attempt
  BY <1>3, <1>4 DEF Unasked, Idle
<1>7. LineRead(t)' /\ ObjectRead(t)'
  <2>1. \A i \in DOMAIN got' : FALSE
    BY <1>4, SeqNone, SeqDomain
  <2>2. want' > 0 /\ Place' + want' <= fwd'[attempt']
    BY <1>2, <1>4, <1>5
  <2>. QED  BY <1>4, <2>1, <2>2 DEF LineRead, ObjectRead
<1>8. Cursor(t)' = e
  BY <1>4, <1>5 DEF Cursor
<1>9. b.conn = e.conn /\ b.kind = e.kind /\ b.pos = e.pos /\ b.left = e.left
  BY <1>2 DEF Mark
<1>. HIDE DEF t, b, e
<1>10. Replaces(attempt, f, t, conn, b, Cursor(t)')
  BY <1>8, <1>9, Alike
<1>11. /\ Runs(attempt, f, t, b, Coming') /\ Whole(attempt, f, t, conn, Final(b, Coming'))
  BY <1>2, <1>3, <1>4 DEF AnsweredWith
<1>12. AnsweredWith(t)'
  BY <1>3, <1>6, <1>7, <1>10, <1>11, StillTalking
<1>13. frame_off' = Len(frame_buf')
  BY <1>1, <1>4 DEF DownlinkInv, Phases
<1>14. Conversation' /\ Phases' /\ FramesWellFormed'
  BY <1>3, <1>4, <1>12, <1>13, SessionGoesOn DEF t
<1>. QED  BY <1>3, <1>4, <1>14, StillHolding

\* Inside a frame there is silence only when the proxy has died.
LEMMA DownTruncated ==
    ASSUME TypeOK, DownlinkInv, RecvTruncated, UNCHANGED proxyVars
    PROVE  DownlinkInv'
<1>. DEFINE t == OkText
            a == Cursor(t)
            n == Len(got)
<1>1. /\ pc = "payload" /\ pc' = "closing" /\ Silent /\ n < want /\ Coming' = Coming
      /\ UNCHANGED <<up, op, attempt, connected, frame_buf, frame_off, sent, rcvd, cert,
                     conn, busy, fwd>>
  BY DEF RecvTruncated, ReadTimedOut, Goto, linkVars, cmdVars, frameVars, proxyVars, Coming
<1>2. /\ op = "CONNECT" /\ InSession /\ AnsweredWith(t) /\ Unasked /\ attempt \in Nat
      /\ conn \in {0, attempt} /\ attempt # 0 /\ got \in Seq(Byte) /\ n \in Nat /\ want \in Nat
  BY <1>1, Session
<1>3. Coming = <<>>
  BY <1>1, ComingType
<1>4. a.left # 0
  <2>1. CASE n = 0
    <3>1. got = <<>>
      BY <1>2, <2>1, SeqEmpty
    <3>2. a = Mark(attempt, "low", Place, want)
      BY <1>1, <3>1 DEF Cursor
    <3>3. a.left = want
      BY <3>2 DEF Mark
    <3>. QED  BY <1>1, <1>2, <2>1, <3>3
  <2>2. CASE n # 0
    <3>1. got # <<>> /\ DOMAIN got = 1..n
      BY <1>2, <2>2, SeqEmpty, SeqDomain
    <3>2. a = got[n]
      BY <1>1, <3>1 DEF Cursor
    <3>3. n \in DOMAIN got
      BY <1>2, <2>2, <3>1
    <3>4. got[n].left = want - n
      BY <1>1, <1>2, <3>3 DEF AnsweredWith, ObjectRead
    <3>. QED  BY <1>1, <1>2, <3>2, <3>4
  <2>. QED  BY <2>1, <2>2
<1>5. Whole(attempt, fwd[attempt], t, conn, a)
  BY <1>2, <1>3 DEF AnsweredWith, Final
<1>. HIDE DEF a, t
<1>6. conn = 0 /\ "proxy_restart" \in Faults
  BY <1>2, <1>4, <1>5 DEF Whole
<1>7. Unasked'
  BY <1>1, <1>2 DEF Unasked, Idle
<1>8. Conversation'
  BY <1>1, <1>3, <1>6, <1>7 DEF Conversation
<1>9. Phases'
  BY <1>1, <1>2 DEF DownlinkInv, Phases, InSession
<1>. QED  BY <1>1, <1>2, <1>6, <1>8, <1>9, StillHolding

\* A whole frame is put in frame_buf when that has been handed out.
LEMMA DownFrame ==
    ASSUME TypeOK, DownlinkInv, RecvFrame, UNCHANGED proxyVars
    PROVE  DownlinkInv'
<1>. DEFINE t == OkText
            f == fwd[attempt]
            n == Len(got)
            b == got[n]
            e == Mark(attempt, "data", Place + n, 0)
<1>1. /\ pc = "payload" /\ pc' = "copy" /\ n = want /\ PrintLog /\ Coming' = Coming
      /\ frame_buf' = got /\ frame_off' = 0
      /\ UNCHANGED <<op, attempt, connected, sent, rcvd, cert, conn, busy, fwd>>
  BY DEF RecvFrame, ReadComplete, Goto, cmdVars, proxyVars, Coming
<1>2. /\ op = "CONNECT" /\ connected /\ InSession /\ AnsweredWith(t) /\ Unasked /\ attempt \in Nat
      /\ conn \in {0, attempt} /\ got \in Seq(Byte) /\ n \in Nat /\ Place \in Nat
      /\ Len(rcvd[attempt]) \in Nat /\ Len(frame_buf) \in Nat /\ frame_off \in Nat
  BY <1>1, Session
<1>3. n > 0 /\ Place + n <= f
  BY <1>1, <1>2 DEF AnsweredWith, ObjectRead
<1>4. DOMAIN got = 1..n /\ n \in DOMAIN got /\ got # <<>>
  <2>1. DOMAIN got = 1..n /\ got # <<>>
    BY <1>2, <1>3, SeqDomain, SeqEmpty
  <2>. QED  BY <1>2, <1>3, <2>1
<1>5. \A i \in DOMAIN got : /\ got[i].kind = "data" /\ got[i].conn = attempt
                            /\ got[i].pos = Place + i /\ got[i].left = want - i
  BY <1>1, <1>2 DEF AnsweredWith, ObjectRead
<1>6. Place = Len(rcvd[attempt]) /\ Place' = Place + n
  <2>1. frame_off = Len(frame_buf)
    BY <1>1 DEF DownlinkInv, Phases
  <2>2. Place' = Len(rcvd[attempt]) + n - 0
    BY <1>1 DEF Place
  <2>3. Place = Len(rcvd[attempt])
    BY <1>2, <2>1 DEF Place
  <2>. QED  BY <1>2, <2>2, <2>3
<1>7. Cursor(t) = b /\ Cursor(t)' = e
  BY <1>1, <1>4, <1>6 DEF Cursor
<1>8. b.conn = e.conn /\ b.kind = e.kind /\ b.pos = e.pos /\ b.left = e.left
  <2>1. want - n = 0
    BY <1>1, <1>2
  <2>. QED  BY <1>4, <1>5, <2>1 DEF Mark
<1>9. Unasked' /\ UNCHANGED attempt
  BY <1>1, <1>2, StillUnasked
<1>10. LineRead(t)' /\ ObjectRead(t)'
  BY <1>1 DEF LineRead, ObjectRead
<1>. HIDE DEF t, b, e
<1>11. Replaces(attempt, f, t, conn, b, Cursor(t)')
  BY <1>7, <1>8, Alike
<1>12. /\ Runs(attempt, f, t, b, Coming') /\ Whole(attempt, f, t, conn, Final(b, Coming'))
  BY <1>1, <1>2, <1>7 DEF AnsweredWith
<1>13. AnsweredWith(t)'
  BY <1>2, <1>9, <1>10, <1>11, <1>12, StillTalking
<1>14. Conversation' /\ Phases' /\ FramesWellFormed'
  BY <1>1, <1>2, <1>13, SessionGoesOn DEF t
<1>15. Holdings'
  <2>1. Place' <= fwd'[attempt']
    BY <1>1, <1>3, <1>6
  <2>2. ASSUME NEW i \in DOMAIN got
        PROVE  got[i].pos = Len(rcvd[attempt]) - 0 + i
    BY <1>2, <1>4, <1>5, <1>6
  <2>3. \A i \in DOMAIN frame_buf' :
           /\ frame_buf'[i].kind = "data" /\ frame_buf'[i].conn = attempt'
           /\ frame_buf'[i].pos = Len(rcvd'[attempt']) - frame_off' + i
    BY <1>1, <1>5, <2>2
  <2>. QED  BY <1>1, <2>1, <2>3 DEF DownlinkInv, Holdings
<1>16. DownlinkInOrder' /\ CertIntact'
  BY <1>1 DEF DownlinkInv, DownlinkInOrder, CertIntact
<1>. QED  BY <1>14, <1>15, <1>16 DEF DownlinkInv

\* The byte at place i of the stream is one of the k that are copied from offset o.
LEMMA CopiedFrom ==
    ASSUME NEW m \in Nat, NEW k \in Nat, NEW o \in Nat, NEW l \in Nat, o + k <= l,
           NEW i \in 1..(m + k), i > m
    PROVE  i - m \in 1..k /\ o + (i - m) \in 1..l /\ m - o + (o + (i - m)) = i
OBVIOUS

\* What recv hands out is the next part of the stream.
LEMMA DownCopy ==
    ASSUME TypeOK, DownlinkInv, NEW len \in 1..MaxRead, RecvCopy(len), UNCHANGED proxyVars
    PROVE  DownlinkInv'
<1>. DEFINE t == OkText
            f == fwd[attempt]
            a == Mark(attempt, "data", Place, 0)
            avail == Len(frame_buf) - frame_off
            take == IF len < avail THEN len ELSE avail
            p == SubSeq(frame_buf, frame_off + 1, frame_off + take)
            s == rcvd[attempt]
            m == Len(rcvd[attempt])
<1>1. /\ pc \in {"app", "copy"} /\ pc' = "app" /\ Coming' = Coming /\ frame_off < Len(frame_buf)
      /\ rcvd' = [rcvd EXCEPT ![attempt] = s \o p] /\ frame_off' = frame_off + take
      /\ UNCHANGED <<up, op, attempt, connected, frame_buf, sent, cert, conn, busy, fwd>>
  BY DEF RecvCopy, Goto, linkVars, cmdVars, proxyVars, Coming
<1>2. /\ op = "CONNECT" /\ connected /\ InSession /\ AnsweredWith(t) /\ Unasked /\ attempt \in Nat
      /\ attempt \in Attempt /\ conn \in {0, attempt} /\ Place \in Nat /\ Place <= f
      /\ s \in Seq(Byte) /\ m \in Nat /\ frame_buf \in Seq(Byte) /\ Len(frame_buf) \in Nat
      /\ frame_off \in Nat
  BY <1>1, Session
<1>3. take \in Nat /\ take > 0 /\ frame_off + take <= Len(frame_buf) /\ frame_off + take \in Nat
  <2>1. len \in Nat /\ len > 0
    BY PortAssumption
  <2>. QED  BY <1>1, <1>2, <2>1
<1>. HIDE DEF take
<1>4. /\ p \in Seq(Byte) /\ Len(p) = take
      /\ \A i \in 1..take : p[i] = frame_buf[frame_off + i]
  <2>1. /\ frame_off + 1 \in Nat /\ frame_off + 1 >= 1 /\ frame_off + 1 <= frame_off + take + 1
        /\ frame_off + take + 1 - (frame_off + 1) = take
        /\ \A i \in 1..take : frame_off + 1 + i - 1 = frame_off + i
    BY <1>2, <1>3
  <2>2. /\ p \in Seq(Byte) /\ Len(p) = frame_off + take + 1 - (frame_off + 1)
        /\ \A i \in 1..(frame_off + take + 1 - (frame_off + 1)) :
              p[i] = frame_buf[frame_off + 1 + i - 1]
    BY <1>2, <1>3, <2>1, SeqSegment
  <2>. HIDE DEF p
  <2>. QED  BY <2>1, <2>2
<1>. HIDE DEF p
<1>5. /\ s \o p \in Seq(Byte) /\ Len(s \o p) = m + take
      /\ \A i \in 1..m : (s \o p)[i] = s[i]
      /\ \A i \in 1..(m + take) : i > m => (s \o p)[i] = p[i - m]
  <2>1. s \in Seq(Byte) /\ p \in Seq(Byte) /\ Len(p) = take
    BY <1>2, <1>4
  <2>. HIDE DEF s
  <2>2. /\ s \o p \in Seq(Byte) /\ Len(s \o p) = Len(s) + Len(p)
        /\ \A i \in 1..Len(s) : (s \o p)[i] = s[i]
        /\ \A i \in 1..(Len(s) + Len(p)) : i > Len(s) => (s \o p)[i] = p[i - Len(s)]
    BY <2>1, SeqConcat
  <2>. QED  BY <2>1, <2>2 DEF s
<1>6. /\ rcvd'[attempt] = s \o p /\ \A c \in Attempt : c # attempt => rcvd'[c] = rcvd[c]
  BY <1>1, <1>2 DEF TypeOK, PortTypeOK, StreamTypeOK
<1>7. Place' = Place
  <2>1. Place' = m + take + Len(frame_buf) - (frame_off + take)
    BY <1>1, <1>5, <1>6 DEF Place
  <2>. QED  BY <1>2, <1>3, <2>1 DEF Place
<1>8. Cursor(t) = a /\ Cursor(t)' = a
  BY <1>1, <1>7 DEF Cursor
<1>9. Unasked' /\ UNCHANGED attempt
  BY <1>1, <1>2 DEF Unasked, Idle
<1>10. LineRead(t)' /\ ObjectRead(t)'
  BY <1>1 DEF LineRead, ObjectRead
<1>. HIDE DEF t, a
<1>11. Replaces(attempt, f, t, conn, a, Cursor(t)')
  BY <1>8 DEF Replaces
<1>12. /\ Runs(attempt, f, t, a, Coming') /\ Whole(attempt, f, t, conn, Final(a, Coming'))
  BY <1>1, <1>2, <1>8 DEF AnsweredWith
<1>13. AnsweredWith(t)'
  BY <1>2, <1>9, <1>10, <1>11, <1>12, StillTalking
<1>14. Conversation' /\ Phases' /\ FramesWellFormed'
  BY <1>1, <1>2, <1>13, SessionGoesOn DEF t
<1>15. \A i \in 1..Len(frame_buf) :
          /\ frame_buf[i].kind = "data" /\ frame_buf[i].conn = attempt
          /\ frame_buf[i].pos = m - frame_off + i
  <2>1. DOMAIN frame_buf = 1..Len(frame_buf)
    BY <1>2, SeqDomain
  <2>. QED  BY <1>2, <2>1 DEF DownlinkInv, Holdings
<1>16. Holdings'
  <2>1. Place' <= fwd'[attempt']
    BY <1>1, <1>2, <1>7
  <2>2. m + take - (frame_off + take) = m - frame_off
    BY <1>2, <1>3
  <2>3. DOMAIN frame_buf' = 1..Len(frame_buf)
    BY <1>1, <1>2, SeqDomain
  <2>4. \A i \in DOMAIN frame_buf' :
           /\ frame_buf'[i].kind = "data" /\ frame_buf'[i].conn = attempt'
           /\ frame_buf'[i].pos = Len(rcvd'[attempt']) - frame_off' + i
    <3>1. /\ Len(rcvd'[attempt']) = m + take /\ frame_off' = frame_off + take
          /\ frame_buf' = frame_buf /\ attempt' = attempt
      BY <1>1, <1>5, <1>6
    <3>. HIDE DEF m
    <3>2. \A i \in 1..Len(frame_buf) :
             /\ frame_buf[i].kind = "data" /\ frame_buf[i].conn = attempt
             /\ frame_buf[i].pos = m + take - (frame_off + take) + i
      BY <1>15, <2>2
    <3>3. \A i \in 1..Len(frame_buf) :
             /\ frame_buf'[i].kind = "data" /\ frame_buf'[i].conn = attempt'
             /\ frame_buf'[i].pos = Len(rcvd'[attempt']) - frame_off' + i
      <4>1. ASSUME NEW i \in 1..Len(frame_buf)
            PROVE  /\ frame_buf'[i].kind = "data" /\ frame_buf'[i].conn = attempt'
                   /\ frame_buf'[i].pos = Len(rcvd'[attempt']) - frame_off' + i
        <5>1. /\ frame_buf[i].kind = "data" /\ frame_buf[i].conn = attempt
              /\ frame_buf[i].pos = m + take - (frame_off + take) + i
          BY <3>2, <4>1
        <5>2. frame_buf'[i] = frame_buf[i]
          BY <3>1
        <5>3. Len(rcvd'[attempt']) - frame_off' + i = m + take - (frame_off + take) + i
          <6>. DEFINE x == Len(rcvd'[attempt'])
                      y == frame_off'
          <6>1. x = m + take /\ y = frame_off + take
            BY <3>1
          <6>. HIDE DEF x, y
          <6>2. x - y + i = m + take - (frame_off + take) + i
            BY <1>2, <1>3, <4>1, <6>1
          <6>. QED  BY <6>2 DEF x, y
        <5>. HIDE DEF s, f, avail
        <5>4. frame_buf'[i].kind = "data" /\ frame_buf'[i].conn = attempt'
          BY <3>1, <5>1, <5>2
        <5>. QED  BY <5>1, <5>2, <5>3, <5>4
      <4>. QED  BY <4>1
    <3>. QED  BY <2>3, <3>3
  <2>5. \A c \in Attempt : c > attempt' => fwd'[c] = 0 /\ rcvd'[c] = <<>>
    <3>1. ASSUME NEW c \in Attempt, c > attempt
          PROVE  fwd[c] = 0 /\ rcvd'[c] = <<>>
      <4>1. c # attempt
        BY <1>2, <3>1
      <4>. QED  BY <1>6, <3>1, <4>1 DEF DownlinkInv, Holdings
    <3>. QED  BY <1>1, <3>1
  <2>. QED  BY <2>1, <2>4, <2>5 DEF Holdings
<1>17. DownlinkInOrder'
  <2>. DEFINE r == s \o p
  <2>1. ASSUME NEW i \in 1..(m + take)
        PROVE  r[i].kind = "data" /\ r[i].conn = attempt /\ r[i].pos = i
    <3>1. CASE i <= m
      <4>1. i \in 1..m /\ DOMAIN s = 1..m
        BY <1>2, <3>1, SeqDomain
      <4>2. s[i].kind = "data" /\ s[i].conn = attempt /\ s[i].pos = i
        BY <1>2, <4>1 DEF DownlinkInv, DownlinkInOrder
      <4>. QED  BY <1>5, <4>1, <4>2
    <3>2. CASE i > m
      <4>1. /\ i - m \in 1..take /\ frame_off + (i - m) \in 1..Len(frame_buf)
            /\ m - frame_off + (frame_off + (i - m)) = i
        <5>1. /\ m \in Nat /\ take \in Nat /\ frame_off \in Nat /\ Len(frame_buf) \in Nat
              /\ frame_off + take <= Len(frame_buf) /\ i \in 1..(m + take) /\ i > m
          BY <1>2, <1>3, <2>1, <3>2
        <5>. HIDE DEF m, r, s, avail
        <5>. QED  BY <5>1, CopiedFrom
      <4>2. r[i] = frame_buf[frame_off + (i - m)]
        BY <1>4, <1>5, <3>2, <4>1
      <4>. QED  BY <1>15, <4>1, <4>2
    <3>3. i <= m \/ i > m
      BY <1>2, <1>3, <2>1
    <3>. QED  BY <3>1, <3>2, <3>3
  <2>2. DOMAIN r = 1..(m + take)
    BY <1>5, SeqDomain
  <2>. HIDE DEF r, m
  <2>3. ASSUME NEW c \in Attempt, NEW i \in DOMAIN rcvd'[c]
        PROVE  rcvd'[c][i].kind = "data" /\ rcvd'[c][i].conn = c /\ rcvd'[c][i].pos = i
    <3>1. CASE c = attempt
      <4>1. rcvd'[c] = r
        BY <1>6, <3>1 DEF r
      <4>. QED  BY <2>1, <2>2, <2>3, <3>1, <4>1
    <3>2. CASE c # attempt
      BY <1>6, <2>3, <3>2 DEF DownlinkInv, DownlinkInOrder
    <3>. QED  BY <3>1, <3>2
  <2>. QED  BY <2>3 DEF DownlinkInOrder
<1>18. CertIntact'
  BY <1>1 DEF DownlinkInv, CertIntact
<1>. QED  BY <1>14, <1>16, <1>17, <1>18 DEF DownlinkInv

\* tls_port_send asks for nothing either.
LEMMA DownSend ==
    ASSUME TypeOK, DownlinkInv, NEW n \in 1..ClientLen, Send(n), UNCHANGED proxyVars
    PROVE  DownlinkInv'
<1>. DEFINE t == OkText
            f == fwd[attempt]
            a == Mark(attempt, "data", Place, 0)
            v == Chunks(n)
            r == up \o Chunks(n)
<1>1. /\ pc = "app" /\ pc' = pc /\ up' = r /\ Coming' = Coming
      /\ UNCHANGED <<op, attempt, connected, frame_buf, frame_off, rcvd, cert, conn, busy, fwd>>
  BY DEF Send, cmdVars, frameVars, proxyVars, Coming
<1>2. /\ op = "CONNECT" /\ connected /\ InSession /\ AnsweredWith(t) /\ Unasked
      /\ conn \in {0, attempt} /\ attempt \in Attempt
  BY <1>1, Session
<1>3. v \in Seq(UpItem) /\ \A i \in DOMAIN v : v[i].type = "DATA"
  <2>1. n \in Nat
    BY PortAssumption
  <2>2. v \in Seq(UpItem)
    BY <1>2, <2>1, ChunksType
  <2>. QED  BY <2>2 DEF Chunks
<1>. HIDE DEF v
<1>4. up \in Seq(UpItem) /\ DOMAIN up = 1..Len(up) /\ Len(up) \in Nat
  BY PlainTypes
<1>5. ASSUME NEW i \in DOMAIN r
      PROVE  r[i].type \notin CommandName
  <2>1. up \in Seq(UpItem) /\ v \in Seq(UpItem) /\ r = up \o v
    BY <1>3, <1>4 DEF v
  <2>2. /\ r \in Seq(UpItem) /\ Len(r) = Len(up) + Len(v)
        /\ \A j \in 1..Len(up) : r[j] = up[j]
        /\ \A j \in 1..(Len(up) + Len(v)) : j > Len(up) => r[j] = v[j - Len(up)]
    BY <2>1, SeqConcat
  <2>. HIDE DEF r
  <2>3. DOMAIN r = 1..Len(r) /\ DOMAIN v = 1..Len(v) /\ Len(v) \in Nat
    BY <2>1, <2>2, SeqDomain
  <2>4. i \in 1..(Len(up) + Len(v))
    BY <1>5, <2>2, <2>3
  <2>5. CASE i <= Len(up)
    <3>1. i \in DOMAIN up /\ r[i] = up[i]
      BY <1>4, <2>2, <2>4, <2>5
    <3>. QED  BY <1>2, <3>1 DEF Unasked
  <2>6. CASE i > Len(up)
    <3>1. i - Len(up) \in DOMAIN v /\ r[i] = v[i - Len(up)]
      BY <1>4, <2>2, <2>3, <2>4, <2>6
    <3>2. r[i].type = "DATA"
      BY <1>3, <3>1
    <3>. QED  BY <3>2, ItemKinds
  <2>. QED  BY <1>4, <2>4, <2>5, <2>6
<1>6. Unasked' /\ UNCHANGED attempt
  BY <1>1, <1>2, <1>5 DEF Unasked, Idle
<1>7. Place' = Place
  BY <1>1 DEF Place
<1>8. Cursor(t) = a /\ Cursor(t)' = a
  BY <1>1, <1>7 DEF Cursor
<1>9. LineRead(t)' /\ ObjectRead(t)'
  BY <1>1 DEF LineRead, ObjectRead
<1>. HIDE DEF t, a, r
<1>10. Replaces(attempt, f, t, conn, a, Cursor(t)')
  BY <1>8 DEF Replaces
<1>11. /\ Runs(attempt, f, t, a, Coming') /\ Whole(attempt, f, t, conn, Final(a, Coming'))
  BY <1>1, <1>2, <1>8 DEF AnsweredWith
<1>12. AnsweredWith(t)'
  BY <1>2, <1>6, <1>9, <1>10, <1>11, StillTalking
<1>13. Conversation' /\ Phases' /\ FramesWellFormed'
  BY <1>1, <1>2, <1>12, SessionGoesOn DEF t
<1>. QED  BY <1>1, <1>2, <1>13, StillHolding

\* A session that is read to its end leaves at most its EOF on the line.
LEMMA OnlyEofLeft ==
    ASSUME NEW c \in Nat, NEW f \in Nat, NEW w \in Seq(Byte), NEW a, a = Mark(c, "data", f, 0),
           Runs(c, f, OkText, a, w)
    PROVE  \A i \in DOMAIN w : w[i].val = 0 /\ w[i].conn = c
<1>. DEFINE t == OkText
<1>1. a.conn = c /\ a.kind = "data" /\ a.left = 0 /\ a.pos = f
  BY DEF Mark
<1>2. Len(w) \in Nat /\ DOMAIN w = 1..Len(w) /\ (w = <<>> <=> Len(w) = 0)
  BY SeqDomain, SeqEmpty
<1>3. /\ \A i \in DOMAIN w : Stale(c, w[i]) \/ Current(c, f, t, w[i])
      /\ w # <<>> => After(c, t, a, w[1])
      /\ \A i \in 1..(Len(w) - 1) : After(c, t, w[i], w[i + 1])
  BY DEF Runs
<1>4. \A i \in DOMAIN w : w[i].left \in Nat /\ w[i].pos \in Nat /\ w[i].conn \in Nat
  BY <1>2, SeqElt, ByteFields
<1>. HIDE DEF t
<1>5. ASSUME w # <<>>
      PROVE  w[1].conn = c /\ w[1].kind = "high" /\ w[1].left = 1 /\ w[1].val = 0
  <2>. DEFINE b == w[1]
  <2>1. 1 \in DOMAIN w
    BY <1>2, <1>5
  <2>. HIDE DEF b
  <2>2. After(c, t, a, b) /\ (Stale(c, b) \/ Current(c, f, t, b)) /\ b.left \in Nat
    BY <1>3, <1>4, <1>5, <2>1 DEF b
  <2>3. ~(a.conn < c)
    BY <1>1
  <2>4. b.conn = c /\ b.kind = "high" /\ b.pos = f
    BY <1>1, <2>2, <2>3 DEF After
  <2>5. Current(c, f, t, b)
    BY <2>2, <2>4 DEF Stale
  <2>6. b.left \in 1..(NetChunk + 1) /\ b.val = (b.left - 1) \div 256 /\ b.pos + (b.left - 1) <= f
    BY <2>4, <2>5 DEF Current
  <2>7. b.left = 1
    <3>1. f + (b.left - 1) <= f /\ b.left >= 1
      BY <2>4, <2>6, ProxyAssumption
    <3>. QED  BY <2>2, <3>1
  <2>8. b.val = 0
    BY <2>6, <2>7
  <2>. QED  BY <2>4, <2>7, <2>8 DEF b
<1>6. ASSUME Len(w) >= 2
      PROVE  w[2].conn = c /\ w[2].kind = "low" /\ w[2].left = 0 /\ w[2].val = 0
  <2>1. w # <<>> /\ 1 \in 1..(Len(w) - 1) /\ 2 \in DOMAIN w /\ 1 + 1 = 2
    BY <1>2, <1>6
  <2>. DEFINE x == w[1]
              b == w[2]
  <2>2. /\ x.conn = c /\ x.kind = "high" /\ x.left = 1
        /\ After(c, t, x, b) /\ (Stale(c, b) \/ Current(c, f, t, b))
    BY <1>3, <1>5, <2>1
  <2>. HIDE DEF x, b
  <2>3. ~(x.conn < c)
    BY <2>2
  <2>4. b.conn = c /\ b.kind = "low" /\ b.left = 0
    BY <2>2, <2>3 DEF After
  <2>5. Current(c, f, t, b)
    BY <2>2, <2>4 DEF Stale
  <2>6. b.val = b.left % 256
    BY <2>4, <2>5 DEF Current
  <2>7. b.val = 0
    BY <2>4, <2>6
  <2>. QED  BY <2>4, <2>7 DEF b
<1>7. Len(w) <= 2
  <2>. SUFFICES ASSUME Len(w) > 2
                PROVE  FALSE
    BY <1>2
  <2>1. Len(w) >= 2 /\ 2 \in 1..(Len(w) - 1)
    BY <1>2
  <2>. DEFINE x == w[2]
              b == w[2 + 1]
  <2>2. x.conn = c /\ x.kind = "low" /\ x.left = 0 /\ After(c, t, x, b)
    BY <1>3, <1>6, <2>1
  <2>. HIDE DEF x, b
  <2>3. ~(x.conn < c) /\ ~(x.left > 0)
    BY <2>2
  <2>. QED  BY <2>2, <2>3 DEF After
<1>8. ASSUME NEW i \in DOMAIN w
      PROVE  w[i].val = 0 /\ w[i].conn = c
  <2>1. (i = 1 \/ i = 2) /\ w # <<>> /\ (i = 2 => Len(w) >= 2)
    BY <1>2, <1>7, <1>8
  <2>. QED  BY <1>5, <1>6, <2>1
<1>. QED  BY <1>8

\* tls_port_close: the next command finds nothing on the line that could spoil
\* its reply.
LEMMA DownClose ==
    ASSUME TypeOK, DownlinkInv, Paced, ClientCloses, UNCHANGED proxyVars
    PROVE  DownlinkInv'
<1>1. /\ pc \in {"app", "closing"} /\ pc' = "closed" /\ connected' = FALSE /\ Coming' = Coming
      /\ frame_buf' = <<>> /\ frame_off' = 0
      /\ UNCHANGED <<up, op, attempt, sent, rcvd, cert, conn, busy, fwd>>
      /\ pc = "closing" \/ ResponseRead
  BY DEF ClientCloses, Close, Goto, linkVars, cmdVars, proxyVars, Coming, Paced
<1>2. Unasked => Unasked'
  BY <1>1 DEF Unasked, Idle
<1>3. AtRest'
  <2>1. CASE pc = "closing"
    <3>1. Unasked /\ conn = 0 /\ Coming = <<>>
      BY <2>1 DEF DownlinkInv, Conversation
    <3>. QED  BY <1>1, <1>2, <3>1, NothingIsFine
  <2>2. CASE pc = "app" /\ ResponseRead
    <3>. DEFINE f == fwd[attempt]
                t == OkText
                a == Mark(attempt, "data", Place, 0)
                w == Coming
    <3>1. /\ AnsweredWith(t) /\ Unasked /\ conn \in {0, attempt} /\ attempt \in Nat
          /\ attempt \in Attempt /\ f \in Nat /\ Place \in Nat /\ Place <= f
          /\ Len(rcvd[attempt]) \in Nat /\ Len(frame_buf) \in Nat /\ frame_off \in Nat
          /\ frame_off <= Len(frame_buf)
      BY <2>2, Session
    <3>2. Len(ServerStream[attempt]) \in Nat /\ f <= Len(ServerStream[attempt])
      BY <3>1, PlainTypes
    <3>3. Place >= Len(rcvd[attempt])
      BY <3>1 DEF Place
    <3>4. Place = f /\ f = Len(ServerStream[attempt])
      BY <2>2, <3>1, <3>2, <3>3 DEF ResponseRead
    <3>5. Spent
      BY <3>1, <3>4 DEF Spent
    <3>6. Cursor(t) = a
      BY <2>2 DEF Cursor
    <3>7. w \in Seq(Byte) /\ Runs(attempt, f, t, a, w) /\ a = Mark(attempt, "data", f, 0)
      BY <3>1, <3>4, <3>6, ComingType DEF AnsweredWith
    <3>. HIDE DEF a, w, f
    <3>8. \A i \in DOMAIN w : w[i].val = 0 /\ w[i].conn = attempt
      BY <3>1, <3>7, OnlyEofLeft DEF f
    <3>9. \A i \in DOMAIN Coming' : Coming'[i].val = 0 /\ Coming'[i].conn <= attempt'
      BY <1>1, <3>1, <3>8 DEF w
    <3>10. Spent'
      BY <1>1, <3>5 DEF Spent
    <3>. QED  BY <1>1, <1>2, <3>1, <3>9, <3>10 DEF AtRest
  <2>. QED  BY <1>1, <2>1, <2>2
<1>4. Conversation' /\ FramesWellFormed'
  BY <1>1, <1>3 DEF Conversation, FramesWellFormed
<1>5. Phases' /\ ~InSession'
  BY <1>1 DEF Phases, InSession
<1>6. Holdings'
  BY <1>1, <1>5 DEF DownlinkInv, Holdings
<1>7. DownlinkInOrder' /\ CertIntact'
  BY <1>1 DEF DownlinkInv, DownlinkInOrder, CertIntact
<1>. QED  BY <1>4, <1>5, <1>6, <1>7 DEF DownlinkInv

-----------------------------------------------------------------------------
(* All steps. *)

\* In its initial state nothing is on the line and nothing has been asked.
LEMMA DownlinkInit == Init => DownlinkInv
<1>. SUFFICES ASSUME Init PROVE DownlinkInv
  OBVIOUS
<1>. USE DEF Init, PortInit, ProxyInit
<1>1. Coming = <<>>
  BY SeqNone, SeqUnit DEF Coming
<1>2. \A i \in DOMAIN <<>> : FALSE
  BY SeqNone, SeqDomain
<1>3. Unasked /\ Spent
  BY <1>2 DEF Unasked, Idle, Spent
<1>4. AtRest
  BY <1>1, <1>2, <1>3 DEF AtRest
<1>5. Conversation /\ Phases
  BY <1>4 DEF Conversation, Phases, InSession
<1>6. Holdings /\ DownlinkInOrder
  BY <1>2 DEF Holdings, InSession, DownlinkInOrder
<1>7. CertIntact /\ FramesWellFormed
  BY DEF CertIntact, FramesWellFormed
<1>. QED  BY <1>5, <1>6, <1>7 DEF DownlinkInv

\* Every step of the board's program.
LEMMA DownPort ==
    ASSUME TypeOK, UplinkInv, DownlinkInv, Paced, PortStep, UNCHANGED proxyVars
    PROVE  DownlinkInv'
<1>1. CASE DrainByte \/ DrainDone
  BY <1>1, DownDrain
<1>2. CASE SendCommand
  BY <1>2, DownCommand
<1>3. CASE LineByte
  BY <1>3, DownLine
<1>4. CASE ReadExact
  BY <1>4, DownRead
<1>5. CASE ConnectAccepted \/ ConnectRejected
  BY <1>5, DownConnect
<1>6. CASE CertRejected \/ CertAccepted
  BY <1>6, DownCertReply
<1>7. CASE CertLength \/ CertTimeout \/ CertDone
  BY <1>7, DownCertRead
<1>8. CASE RecvEof \/ RecvBadLength
  BY <1>8, DownEof
<1>9. CASE RecvPayload
  BY <1>9, DownPayload
<1>10. CASE RecvTruncated
  BY <1>10, DownTruncated
<1>11. CASE RecvFrame
  BY <1>11, DownFrame
<1>. QED  BY <1>1, <1>2, <1>3, <1>4, <1>5, <1>6, <1>7, <1>8, <1>9, <1>10, <1>11 DEF PortStep

LEMMA DownCaller ==
    ASSUME TypeOK, DownlinkInv, Paced, Caller \/ Timer \/ Reboot, UNCHANGED proxyVars
    PROVE  DownlinkInv'
<1>1. CASE StartCommand
  BY <1>1, DownStart
<1>2. CASE RecvHeader
  BY <1>2, DownHeader
<1>3. CASE \E len \in 1..MaxRead : RecvCopy(len)
  BY <1>3, DownCopy
<1>4. CASE \E n \in 1..ClientLen : Send(n)
  BY <1>4, DownSend
<1>5. CASE ClientCloses
  BY <1>5, DownClose
<1>6. CASE RecvWantRead
  BY <1>6, DownWantRead
<1>7. ~LineTimeout /\ ~Reboot
  BY DEF LineTimeout, Reboot, Paced
<1>. QED  BY <1>1, <1>2, <1>3, <1>4, <1>5, <1>6, <1>7 DEF Caller, Timer

LEMMA DownlinkStep ==
    ASSUME Paced
    PROVE  TypeOK /\ UplinkInv /\ DownlinkInv /\ [Next]_vars => DownlinkInv'
<1>. SUFFICES ASSUME TypeOK, UplinkInv, DownlinkInv, [Next]_vars
              PROVE  DownlinkInv'
  OBVIOUS
<1>1. CASE (PortStep \/ Caller \/ Timer \/ Reboot) /\ UNCHANGED proxyVars
  BY <1>1, DownPort, DownCaller
<1>2. CASE (ReadUart \/ Serve \/ ReadNet) /\ UNCHANGED portVars
  BY <1>2, DownReadUart, DownServe, DownReadNet
<1>3. CASE (\E n \in 0..Len(down) : Restart(n)) /\ UNCHANGED portVars
  BY <1>3, DownRestart
<1>4. CASE Wire /\ UNCHANGED <<portVars, proxyVars>>
  BY <1>4, DownWire
<1>5. CASE UNCHANGED vars
  <2>1. Coming' = Coming /\ UNCHANGED <<up, portVars, proxyVars>>
    BY <1>5 DEF vars, linkVars, Coming
  <2>. QED  BY <2>1, SameComing
<1>. QED  BY <1>1, <1>2, <1>3, <1>4, <1>5 DEF Next, Finished

\* In every execution in which the code's timing assumptions hold, for all
\* streams of the peer, sizes, command sequences and the other faults, what is on
\* its way to the board is what it takes it for.
THEOREM DownlinkInvariant ==
    ASSUME Paced
    PROVE  Spec => []DownlinkInv
<1>1. TypeOK /\ UplinkInv /\ DownlinkInv /\ [Next]_vars => DownlinkInv'
  BY DownlinkStep
<1>. QED  BY <1>1, DownlinkInit, TypeCorrect, UplinkInvariant, PTL DEF Spec

\* Then tls_port_recv (tls_port.c:263) returns the peer's bytes, in order.
THEOREM DownlinkCorrect ==
    ASSUME Paced
    PROVE  Spec => []DownlinkInOrder
<1>1. DownlinkInv => DownlinkInOrder
  BY DEF DownlinkInv
<1>. QED  BY <1>1, DownlinkInvariant, PTL

\* and tls_port_fetch_server_cert the certificate the proxy has fetched, whole,
THEOREM CertCorrect ==
    ASSUME Paced
    PROVE  Spec => []CertIntact
<1>1. DownlinkInv => CertIntact
  BY DEF DownlinkInv
<1>. QED  BY <1>1, DownlinkInvariant, PTL

\* tls_port_connect does not turn an OK down,
THEOREM OkCorrect ==
    ASSUME Paced
    PROVE  Spec => []OkIsAccepted
<1>1. TypeOK /\ DownlinkInv => OkIsAccepted
  <2>. SUFFICES ASSUME TypeOK, DownlinkInv, pc = "reply", op = "CONNECT", conn = attempt
                PROVE  IsOK(resp)
    BY DEF OkIsAccepted
  <2>1. PICK t \in {Granted, ErrText} : AnsweredWith(t) /\ (IsOK(resp) <=> t = Granted)
    BY LineIsRead
  <2>2. Granted = OkText
    BY DEF Granted
  <2>3. t = OkText
    BY <2>1 DEF AnsweredWith, Whole
  <2>. QED  BY <2>1, <2>2, <2>3
<1>. QED  BY <1>1, TypeCorrect, DownlinkInvariant, PTL

\* and unless the proxy dies no frame is malformed or cut.
THEOREM FramesCorrect ==
    ASSUME Paced, "proxy_restart" \notin Faults
    PROVE  Spec => []FramesWellFormed
<1>1. DownlinkInv => FramesWellFormed
  BY DEF DownlinkInv
<1>. QED  BY <1>1, DownlinkInvariant, PTL

-----------------------------------------------------------------------------
(* Refinement: what is on the line has been sent. *)

\* Transmitting items that have been sent keeps it so.
LEMMA SentBeforeSends ==
    ASSUME TypeOK, SentBefore, NEW items \in Seq(UpItem), up' = up \o items,
           \A i \in DOMAIN items : items[i].upto <= sent'[items[i].attempt],
           \A c \in 0..MaxAttempts : sent'[c] \in Nat /\ sent[c] <= sent'[c]
    PROVE  SentBefore'
<1>. DEFINE r == up \o items
<1>1. /\ up \in Seq(UpItem) /\ Len(up) \in Nat /\ Len(items) \in Nat
      /\ DOMAIN up = 1..Len(up) /\ DOMAIN items = 1..Len(items)
  BY SeqDomain DEF TypeOK, LinkTypeOK
<1>2. /\ r \in Seq(UpItem) /\ Len(r) = Len(up) + Len(items)
      /\ \A i \in 1..Len(up) : r[i] = up[i]
      /\ \A i \in 1..(Len(up) + Len(items)) : i > Len(up) => r[i] = items[i - Len(up)]
  BY <1>1, SeqConcat
<1>3. DOMAIN r = 1..(Len(up) + Len(items))
  BY <1>2, SeqDomain
<1>4. up' = r
  OBVIOUS
<1>. HIDE DEF r
<1>5. ASSUME NEW i \in 1..(Len(up) + Len(items))
      PROVE  r[i].upto <= sent'[r[i].attempt]
  <2>1. CASE i <= Len(up)
    <3>1. i \in 1..Len(up) /\ r[i] = up[i]
      BY <1>1, <1>2, <1>5, <2>1
    <3>2. up[i] \in UpItem /\ up[i].upto <= sent[up[i].attempt]
      BY <1>1, <3>1, SeqElt DEF SentBefore
    <3>3. up[i].upto \in Nat /\ up[i].attempt \in 0..MaxAttempts
      BY <3>2, ItemFields
    <3>4. sent[up[i].attempt] \in Nat
      BY <3>3, PortAssumption DEF TypeOK, PortTypeOK, StreamTypeOK
    <3>5. sent'[up[i].attempt] \in Nat /\ sent[up[i].attempt] <= sent'[up[i].attempt]
      BY <3>3
    <3>6. up[i].upto <= sent'[up[i].attempt]
      BY <3>2, <3>3, <3>4, <3>5
    <3>. QED  BY <3>1, <3>6
  <2>2. CASE i > Len(up)
    <3>1. i - Len(up) \in 1..Len(items) /\ r[i] = items[i - Len(up)]
      BY <1>1, <1>2, <1>5, <2>2
    <3>. QED  BY <1>1, <3>1
  <2>. QED  BY <1>1, <1>5, <2>1, <2>2
<1>. QED  BY <1>3, <1>4, <1>5 DEF SentBefore

\* Taking one off the line, too.
LEMMA SentBeforeTakes ==
    ASSUME TypeOK, SentBefore, TakeItem, UNCHANGED sent
    PROVE  SentBefore'
<1>1. /\ up \in Seq(UpItem) /\ up # <<>> /\ up' \in Seq(UpItem)
      /\ Len(up) \in Nat \ {0} /\ Len(up') = Len(up) - 1
      /\ \A i \in 1..(Len(up) - 1) : up'[i] = up[i + 1]
  BY SeqTail DEF TypeOK, LinkTypeOK, TakeItem
<1>2. ASSUME NEW i \in 1..(Len(up) - 1)
      PROVE  up'[i].upto <= sent'[up'[i].attempt]
  <2>1. i + 1 \in 1..Len(up) /\ up'[i] = up[i + 1] /\ DOMAIN up = 1..Len(up)
    BY <1>1, <1>2, SeqDomain
  <2>. QED  BY <2>1 DEF SentBefore
<1>3. DOMAIN up' = 1..(Len(up) - 1)
  BY <1>1, SeqDomain
<1>. QED  BY <1>2, <1>3 DEF SentBefore

\* The frames of one tls_port_send.
LEMMA SentBeforeChunks ==
    ASSUME TypeOK, SentBefore, NEW n \in 1..ClientLen, Send(n)
    PROVE  SentBefore'
<1>. DEFINE M == UART_TX_CHUNK_MAX
            k == (n + M - 1) \div M
            s == sent[attempt]
            items == Chunks(n)
<1>1. /\ attempt \in Attempt /\ attempt \in 0..MaxAttempts
      /\ n \in Nat /\ n > 0 /\ s \in Nat /\ M \in Nat /\ M > 0
  BY LinkAssumption, PortAssumption
     DEF TypeOK, PortTypeOK, CmdTypeOK, StreamTypeOK, Send, Attempt
<1>2. k \in Nat
  BY <1>1, ChunkCount
<1>3. items = [i \in 1..k |->
          [type |-> "DATA", attempt |-> attempt, from |-> s + (i - 1) * M + 1,
           upto |-> s + (IF i * M < n THEN i * M ELSE n)]]
  BY DEF Chunks
<1>4. items \in Seq(UpItem) /\ DOMAIN items = 1..k
  BY <1>1, <1>3, ChunksType
<1>5. up' = up \o items /\ sent' = [sent EXCEPT ![attempt] = s + n]
  BY DEF Send
<1>6. \A i \in 1..k : /\ items[i].attempt = attempt
                      /\ items[i].upto = s + (IF i * M < n THEN i * M ELSE n)
  BY <1>3
<1>. HIDE DEF k, items
<1>7. sent'[attempt] = s + n /\ \A c \in 0..MaxAttempts : c # attempt => sent'[c] = sent[c]
  BY <1>1, <1>5 DEF TypeOK, PortTypeOK, StreamTypeOK
<1>8. \A c \in 0..MaxAttempts : sent'[c] \in Nat /\ sent[c] <= sent'[c]
  <2>1. \A c \in 0..MaxAttempts : sent[c] \in Nat
    BY PortAssumption DEF TypeOK, PortTypeOK, StreamTypeOK
  <2>. QED  BY <1>1, <1>7, <2>1
<1>9. ASSUME NEW i \in DOMAIN items
      PROVE  items[i].upto <= sent'[items[i].attempt]
  <2>. DEFINE e == IF i * M < n THEN i * M ELSE n
  <2>1. i \in 1..k
    BY <1>4, <1>9
  <2>2. i * M \in Nat
    BY <1>1, <1>2, <2>1
  <2>3. e \in Nat /\ e <= n
    BY <1>1, <2>2
  <2>4. items[i].attempt = attempt /\ items[i].upto = s + e
    BY <1>6, <2>1
  <2>. HIDE DEF e
  <2>5. s + e <= s + n
    BY <1>1, <2>3
  <2>. QED  BY <1>7, <2>4, <2>5
<1>. QED  BY <1>4, <1>5, <1>8, <1>9, SentBeforeSends

\* A LOG frame,
LEMMA SentBeforePrints ==
    ASSUME TypeOK, SentBefore, PrintLog, UNCHANGED sent
    PROVE  SentBefore'
<1>. DEFINE items == <<Log>>
<1>1. \A c \in 0..MaxAttempts : sent'[c] \in Nat /\ sent[c] <= sent'[c]
  BY PortAssumption DEF TypeOK, PortTypeOK, StreamTypeOK
<1>2. /\ Log \in UpItem /\ up \in Seq(UpItem) /\ Log.attempt = attempt /\ Log.upto = sent[attempt]
      /\ attempt \in 0..MaxAttempts
  BY LogType DEF Log, TypeOK, LinkTypeOK, PortTypeOK, CmdTypeOK
<1>3. items \in Seq(UpItem) /\ Len(items) = 1 /\ items[1] = Log /\ up' = up \o items
  BY <1>2, SeqSmall, SeqAppendConcat DEF PrintLog
<1>4. DOMAIN items = 1..1
  BY <1>3, SeqDomain
<1>. HIDE DEF items
<1>5. \A i \in DOMAIN items : items[i].upto <= sent'[items[i].attempt]
  BY <1>1, <1>2, <1>3, <1>4
<1>. QED  BY <1>1, <1>3, <1>5, SentBeforeSends

\* or one before a command.
LEMMA SentBeforeCommand ==
    ASSUME TypeOK, SentBefore, SendCommand
    PROVE  SentBefore'
<1>. DEFINE cmd == Command(op, attempt + 1)
            items == <<Log, cmd>>
<1>1. \A c \in 0..MaxAttempts : sent'[c] \in Nat /\ sent[c] <= sent'[c]
  BY PortAssumption DEF TypeOK, PortTypeOK, StreamTypeOK, SendCommand
<1>2. /\ Log \in UpItem /\ Log.attempt = attempt /\ Log.upto = sent[attempt]
      /\ attempt \in 0..MaxAttempts /\ op \in CommandName /\ sent' = sent
  BY LogType DEF Log, TypeOK, PortTypeOK, CmdTypeOK, SendCommand
<1>3. attempt + 1 \in 0..MaxAttempts
  BY LinkAssumption DEF TypeOK, PortTypeOK, CmdTypeOK, SendCommand
<1>4. cmd \in UpItem /\ cmd.attempt = attempt + 1 /\ cmd.upto = 0
  BY <1>2, <1>3 DEF Command, UpItem
<1>5. up' = up \o items
  BY DEF SendCommand
<1>. HIDE DEF cmd
<1>6. items \in Seq(UpItem) /\ Len(items) = 2 /\ items[1] = Log /\ items[2] = cmd
  BY <1>2, <1>4, SeqSmall
<1>7. DOMAIN items = 1..2
  BY <1>6, SeqDomain
<1>. HIDE DEF items
<1>8. \A i \in DOMAIN items : items[i].upto <= sent'[items[i].attempt]
  BY <1>1, <1>2, <1>3, <1>4, <1>6, <1>7
<1>. QED  BY <1>1, <1>5, <1>6, <1>8, SentBeforeSends

LEMMA SentBeforeStep == TypeOK /\ SentBefore /\ [Next]_vars => SentBefore'
<1>. SUFFICES ASSUME TypeOK, SentBefore, [Next]_vars PROVE SentBefore'
  OBVIOUS
<1>. USE DEF cmdVars, linkVars, proxyVars, portVars
<1>1. CASE UNCHANGED <<up, sent>>
  BY <1>1 DEF SentBefore
<1>2. CASE PrintLog /\ UNCHANGED sent
  BY <1>2, SentBeforePrints
<1>3. CASE TakeItem /\ UNCHANGED sent
  BY <1>3, SentBeforeTakes
<1>4. CASE PortStep
  <2>1. CASE SendCommand
    BY <2>1, SentBeforeCommand
  <2>2. CASE DrainByte \/ DrainDone \/ LineByte \/ ReadExact
    BY <1>1, <2>2 DEF DrainByte, DrainDone, LineByte, ReadExact, TakeByte
  <2>3. CASE ConnectAccepted \/ ConnectRejected \/ CertDone
    BY <1>2, <2>3 DEF ConnectAccepted, ConnectRejected, CertDone
  <2>4. CASE RecvEof \/ RecvBadLength \/ RecvFrame
    BY <1>2, <2>4 DEF RecvEof, RecvBadLength, RecvFrame
  <2>5. CASE RecvPayload \/ RecvTruncated
    BY <1>1, <2>5 DEF RecvPayload, RecvTruncated
  <2>6. CASE CertRejected \/ CertAccepted
    BY <1>1, <1>2, <2>6 DEF CertRejected, CertAccepted, CertFails, CertBody
  <2>7. CASE CertLength \/ CertTimeout
    BY <1>1, <1>2, <2>7 DEF CertLength, CertTimeout, CertFails, CertBody
  <2>. QED  BY <1>4, <2>1, <2>2, <2>3, <2>4, <2>5, <2>6, <2>7 DEF PortStep
<1>5. CASE Caller \/ Timer \/ Reboot
  <2>1. CASE \E n \in 1..ClientLen : Send(n)
    BY <2>1, SentBeforeChunks
  <2>2. CASE StartCommand
    BY <1>2, <2>2 DEF StartCommand
  <2>3. CASE RecvHeader \/ ClientCloses \/ Timer \/ Reboot
    BY <1>1, <2>3 DEF RecvHeader, ClientCloses, Close, Timer, LineTimeout, RecvWantRead, Reboot
  <2>4. CASE \E len \in 1..MaxRead : RecvCopy(len)
    BY <1>1, <2>4 DEF RecvCopy
  <2>. QED  BY <1>5, <2>1, <2>2, <2>3, <2>4 DEF Caller
<1>6. CASE (ReadUart \/ Serve \/ ReadNet) /\ UNCHANGED portVars
  <2>1. CASE ReadUart
    BY <1>3, <1>6, <2>1 DEF ReadUart, ReadLog, IgnoreData, RelayData, StartServing, SendFails
  <2>2. CASE Serve
    BY <1>1, <1>6, <2>2 DEF Serve, ConnectOk, CertOk, CommandFails
  <2>3. CASE ReadNet
    BY <1>1, <1>6, <2>3 DEF ReadNet, Relay, RemoteClosed, RecvFails, CloseAndNotify
  <2>. QED  BY <1>6, <2>1, <2>2, <2>3
<1>7. CASE (\E n \in 0..Len(down) : Restart(n)) /\ UNCHANGED portVars
  <2>1. up' = <<>>
    BY <1>7 DEF Restart
  <2>2. \A i \in DOMAIN <<>> : FALSE
    BY SeqNone, SeqDomain
  <2>. QED  BY <2>1, <2>2 DEF SentBefore
<1>8. CASE Wire /\ UNCHANGED <<portVars, proxyVars>>
  BY <1>1, <1>8 DEF Wire, Receive, LoseByte
<1>9. CASE UNCHANGED vars
  BY <1>1, <1>9 DEF vars
<1>. QED  BY <1>4, <1>5, <1>6, <1>7, <1>8, <1>9 DEF Next, Finished

-----------------------------------------------------------------------------
(* Refinement: each step is one of SessionStream, or changes nothing of it. *)

\* What every step must be.
StreamStep == [Stream!Next]_Stream!vars

\* A step that changes nothing the service speaks of.
LEMMA StreamStays ==
    ASSUME UNCHANGED <<sent, delivered, fwd, rcvd, connected>>, connected => UNCHANGED attempt
    PROVE  StreamStep
<1>1. (IF connected THEN attempt ELSE 0)' = IF connected THEN attempt ELSE 0
  OBVIOUS
<1>. QED  BY <1>1 DEF StreamStep, Stream!vars

\* ConnectAccepted begins a session.
LEMMA StreamOpens ==
    ASSUME TypeOK, UplinkInv, DownlinkInv, ConnectAccepted, UNCHANGED proxyVars
    PROVE  StreamStep
<1>1. /\ pc = "reply" /\ connected' = TRUE
      /\ UNCHANGED <<attempt, sent, rcvd, delivered, fwd>>
  BY DEF ConnectAccepted, cmdVars, proxyVars
<1>2. ~connected /\ attempt \in Attempt /\ attempt \in Nat
  BY <1>1, LinkAssumption
     DEF DownlinkInv, Phases, InSession, TypeOK, PortTypeOK, CmdTypeOK
<1>3. ASSUME NEW d \in Attempt, d >= attempt
      PROVE  sent[d] = 0 /\ rcvd[d] = <<>>
  <2>1. CASE d = attempt
    BY <1>1, <2>1 DEF DownlinkInv, Phases
  <2>2. CASE d > attempt
    BY <1>3, <2>2 DEF DownlinkInv, Holdings, UplinkInv, BoardSide
  <2>. QED  BY <1>2, <1>3, <2>1, <2>2 DEF Attempt
<1>4. ASSUME NEW d \in Attempt, d >= attempt
      PROVE  [i \in DOMAIN rcvd[d] |-> <<rcvd[d][i].conn, rcvd[d][i].pos>>] = <<>>
  <2>. DEFINE f == [i \in DOMAIN rcvd[d] |-> <<rcvd[d][i].conn, rcvd[d][i].pos>>]
  <2>1. DOMAIN rcvd[d] = 1..0
    BY <1>3, <1>4, SeqNone, SeqDomain
  <2>2. f \in [1..0 -> {}]
    BY <2>1
  <2>. HIDE DEF f
  <2>3. f \in Seq({}) /\ Len(f) = 0
    BY <2>2, SeqMake
  <2>4. f = <<>>
    BY <2>3, SeqEmpty
  <2>. QED  BY <2>4 DEF f
<1>5. Stream!Sessions = Attempt
  BY DEF Stream!Sessions, Attempt
<1>6. Stream!Open(attempt)
  BY <1>1, <1>2, <1>3, <1>4, <1>5 DEF Stream!Open
<1>. QED  BY <1>2, <1>5, <1>6 DEF StreamStep, Stream!Next

\* RecvEof and tls_port_close end it, unless it has ended.
LEMMA StreamEnds ==
    ASSUME TypeOK, connected' = FALSE, UNCHANGED <<attempt, sent, rcvd, delivered, fwd>>
    PROVE  StreamStep
<1>1. CASE connected
  <2>1. attempt # 0
    BY <1>1, LinkAssumption DEF TypeOK, PortTypeOK, CmdTypeOK, Attempt
  <2>2. (IF connected THEN attempt ELSE 0) # 0 /\ (IF connected THEN attempt ELSE 0)' = 0
    BY <1>1, <2>1
  <2>3. Stream!End
    BY <2>2 DEF Stream!End
  <2>. QED  BY <2>3 DEF StreamStep, Stream!Next
<1>2. CASE ~connected
  <2>1. connected' = connected
    BY <1>2 DEF TypeOK, PortTypeOK, FrameTypeOK
  <2>. QED  BY <1>2, <2>1, StreamStays
<1>. QED  BY <1>1, <1>2

\* tls_port_send.
LEMMA StreamPuts ==
    ASSUME TypeOK, NEW n \in 1..ClientLen, Send(n), UNCHANGED proxyVars
    PROVE  StreamStep
<1>1. /\ connected /\ sent' = [sent EXCEPT ![attempt] = @ + n]
      /\ UNCHANGED <<attempt, connected, rcvd, delivered, fwd>>
  BY DEF Send, cmdVars, proxyVars
<1>2. attempt \in Attempt /\ attempt # 0 /\ attempt \in 0..MaxAttempts
  BY <1>1, LinkAssumption DEF TypeOK, PortTypeOK, CmdTypeOK, Attempt
<1>3. [c \in Attempt |-> sent'[c]] = [[c \in Attempt |-> sent[c]] EXCEPT ![attempt] = @ + n]
  <2>1. \A c \in Attempt : sent'[c] = IF c = attempt THEN sent[c] + n ELSE sent[c]
    BY <1>1, <1>2, LinkAssumption DEF TypeOK, PortTypeOK, StreamTypeOK, Attempt
  <2>. QED  BY <1>2, <2>1
<1>4. Stream!Put(n)
  BY <1>1, <1>2, <1>3 DEF Stream!Put
<1>5. n \in 0..(ClientLen + NetChunk + MaxRead)
  BY PortAssumption, ProxyAssumption
<1>. QED  BY <1>4, <1>5 DEF StreamStep, Stream!Next

\* Nothing of a later session has been delivered.
LEMMA LaterUntouched ==
    ASSUME TypeOK, UplinkInv, DownlinkInv, conn # 0, NEW d \in Attempt, d > conn
    PROVE  delivered[d] = <<>>
<1>1. attempt \in Nat /\ conn \in Nat
  BY LinkAssumption DEF TypeOK, PortTypeOK, CmdTypeOK, ProxyTypeOK
<1>2. CASE d > attempt
  BY <1>2 DEF UplinkInv, BoardSide
<1>3. CASE d <= attempt
  <2>1. conn # attempt
    BY <1>1, <1>3 DEF Attempt
  <2>2. ~AtRest /\ ~Answered
    BY <2>1 DEF AtRest, Answered, AnsweredWith
  <2>3. pc = "line" /\ Awaiting
    BY <2>2 DEF DownlinkInv, Conversation, Phases, TypeOK, PortTypeOK, CmdTypeOK, PcValues
  <2>4. d = attempt
    BY <1>1, <1>3, <2>3 DEF Awaiting, Attempt
  <2>5. PICK k \in DOMAIN up : up[k] = Command(op, attempt)
    <3>1. busy = NoCommand /\ busy # Command(op, attempt)
      BY <2>3, ItemKinds
         DEF Awaiting, Idle, NoCommand, Command, TypeOK, PortTypeOK, CmdTypeOK
    <3>2. Asked
      BY <2>3 DEF Awaiting
    <3>. QED  BY <3>1, <3>2 DEF Asked
  <2>6. up[k].type \in CommandName /\ up[k].attempt = attempt
    BY <2>5 DEF Command, TypeOK, PortTypeOK, CmdTypeOK
  <2>. QED  BY <2>4, <2>6 DEF UplinkInv, BoardSide
<1>. QED  BY <1>1, <1>2, <1>3 DEF Attempt

\* The n bytes that follow those of s.
LEMMA StreamGrows ==
    ASSUME NEW S, NEW s \in Seq(S), NEW t \in Seq(S), NEW c, NEW n \in Nat, Len(t) = n,
           \A i \in 1..n : t[i] = <<c, Len(s) + i>>
    PROVE  s \o t = Stream!NextBytes(s, c, n)
<1>. DEFINE u == [i \in 1..n |-> <<c, Len(s) + i>>]
<1>1. DOMAIN t = 1..n
  BY SeqDomain
<1>2. u = t
  <2>1. u \in Seq(S) /\ Len(u) = n
    <3>1. u \in [1..n -> S]
      BY <1>1, SeqElt
    <3>. HIDE DEF u
    <3>. QED  BY <3>1, SeqMake
  <2>2. \A i \in 1..Len(u) : u[i] = t[i]
    BY <2>1
  <2>. HIDE DEF u
  <2>. QED  BY <2>1, <2>2, SeqSame
<1>. QED  BY <1>2 DEF Stream!NextBytes

\* A frame, or the part of one that sendall writes, arrives.
LEMMA StreamArrives ==
    ASSUME TypeOK, UplinkInv, DownlinkInv, SentBefore, TakeItem, Item.type = "DATA", conn # 0,
           NEW n \in Nat, n <= Size, delivered' = [delivered EXCEPT ![conn] = @ \o Written(n)],
           UNCHANGED <<connected, attempt, sent, rcvd, fwd>>
    PROVE  StreamStep
<1>1. /\ Item.attempt = conn /\ Item.from = Len(delivered[conn]) + 1
      /\ conn \in Attempt /\ delivered[conn] \in Seq(Attempt \X Nat)
  BY NextItem
<1>2. /\ Item \in UpItem /\ WellTagged(Item) /\ Item.upto <= sent[conn]
  <2>1. up \in Seq(UpItem) /\ up # <<>> /\ Item = up[1] /\ 1 \in DOMAIN up
    BY SeqTail, SeqEmpty DEF TakeItem, Item, TypeOK, LinkTypeOK
  <2>2. Item.upto <= sent[Item.attempt]
    BY <2>1 DEF SentBefore
  <2>. QED  BY <1>1, <2>1, <2>2, SeqElt DEF TypeOK, LinkTypeOK
<1>3. Item.upto \in Nat /\ Len(delivered[conn]) \in Nat /\ sent[conn] \in 0..ClientLen
  <2>1. conn \in 0..MaxAttempts
    BY <1>1, LinkAssumption DEF Attempt
  <2>. QED  BY <1>1, <1>2, <2>1, ItemFields, SeqDomain DEF TypeOK, PortTypeOK, StreamTypeOK
<1>4. Len(delivered[conn]) + n <= sent[conn] /\ n \in 0..(ClientLen + NetChunk + MaxRead)
  <2>1. n <= Item.upto + 1 - (Len(delivered[conn]) + 1)
    BY <1>1 DEF Size
  <2>2. ClientLen \in Nat /\ NetChunk \in Nat /\ MaxRead \in Nat
    BY PortAssumption, ProxyAssumption
  <2>3. sent[conn] \in Nat /\ sent[conn] <= ClientLen
    BY <1>3, <2>2
  <2>. QED  BY <1>2, <1>3, <2>1, <2>2, <2>3
<1>5. Written(n) \in Seq(Attempt \X Nat) /\ Len(Written(n)) = n
  BY <1>1, <1>2, WrittenType
<1>6. \A i \in 1..n : Written(n)[i] = <<conn, Len(delivered[conn]) + i>>
  <2>1. \A i \in 1..n : Written(n)[i] = <<conn, Len(delivered[conn]) + 1 + i - 1>>
    BY <1>1 DEF Written
  <2>2. \A i \in 1..n : Len(delivered[conn]) + 1 + i - 1 = Len(delivered[conn]) + i
    BY <1>3
  <2>. QED  BY <2>1, <2>2
<1>7. delivered[conn] \o Written(n) = Stream!NextBytes(delivered[conn], conn, n)
  <2>. DEFINE s == delivered[conn]
              t == Written(n)
  <2>1. s \in Seq(Attempt \X Nat) /\ t \in Seq(Attempt \X Nat) /\ Len(t) = n
        /\ \A i \in 1..n : t[i] = <<conn, Len(s) + i>>
    BY <1>1, <1>5, <1>6
  <2>. HIDE DEF s, t
  <2>2. s \o t = Stream!NextBytes(s, conn, n)
    BY <2>1, StreamGrows
  <2>. QED  BY <2>2 DEF s, t
<1>8. \A d \in Attempt : d > conn => delivered[d] = <<>>
  BY LaterUntouched
<1>9. Stream!Sessions = Attempt
  BY DEF Stream!Sessions, Attempt
<1>10. UNCHANGED <<IF connected THEN attempt ELSE 0, [c \in Attempt |-> sent[c]], fwd,
                   [c \in Attempt |->
                       [i \in DOMAIN rcvd[c] |-> <<rcvd[c][i].conn, rcvd[c][i].pos>>]]>>
  OBVIOUS
<1>11. [c \in Attempt |-> sent[c]][conn] = sent[conn]
  BY <1>1
<1>12. Stream!Arrive(conn, n)
  BY <1>4, <1>7, <1>8, <1>9, <1>10, <1>11 DEF Stream!Arrive
<1>. QED  BY <1>1, <1>4, <1>9, <1>12 DEF StreamStep, Stream!Next

\* The peer speaks.
LEMMA StreamOffers ==
    ASSUME TypeOK, NEW n \in 1..NetChunk, Relay(n), UNCHANGED portVars
    PROVE  StreamStep
<1>1. /\ delivered[conn] # <<>> /\ fwd' = [fwd EXCEPT ![conn] = @ + n] /\ conn # 0
      /\ UNCHANGED <<connected, attempt, sent, rcvd, delivered>>
  BY DEF Relay, PollNet, PeerSpeaks, portVars, cmdVars
<1>2. conn \in Attempt
  BY <1>1, LinkAssumption DEF TypeOK, ProxyTypeOK, Attempt
<1>3. Stream!Sessions = Attempt
  BY DEF Stream!Sessions, Attempt
<1>4. UNCHANGED <<IF connected THEN attempt ELSE 0, [c \in Attempt |-> sent[c]], delivered,
                   [c \in Attempt |->
                       [i \in DOMAIN rcvd[c] |-> <<rcvd[c][i].conn, rcvd[c][i].pos>>]]>>
  BY <1>1
<1>5. Stream!Offer(conn, n)
  BY <1>1, <1>4 DEF Stream!Offer
<1>6. n \in 0..(ClientLen + NetChunk + MaxRead)
  BY PortAssumption, ProxyAssumption
<1>. QED  BY <1>2, <1>3, <1>5, <1>6 DEF StreamStep, Stream!Next

\* The first n bytes of session c, and what the client calls the bytes it reads.
FirstBytes(c, n) == [i \in 1..n |-> <<c, i>>]
Named(r) == [i \in DOMAIN r |-> <<r[i].conn, r[i].pos>>]

\* In order, they are the first ones.
LEMMA NamedInOrder ==
    ASSUME NEW c, NEW r \in Seq(Byte), \A i \in DOMAIN r : r[i].conn = c /\ r[i].pos = i
    PROVE  Named(r) = FirstBytes(c, Len(r))
<1>1. DOMAIN r = 1..Len(r)
  BY SeqDomain
<1>2. \A i \in DOMAIN r : <<r[i].conn, r[i].pos>> = <<c, i>>
  OBVIOUS
<1>3. Named(r) = [i \in DOMAIN r |-> <<c, i>>]
  BY <1>2 DEF Named
<1>. QED  BY <1>1, <1>3 DEF FirstBytes

\* The k bytes after the first m.
LEMMA FirstBytesGrow ==
    ASSUME NEW c, NEW m \in Nat, NEW k \in Nat
    PROVE  /\ Len(FirstBytes(c, m)) = m
           /\ Stream!NextBytes(FirstBytes(c, m), c, k) = FirstBytes(c, m + k)
<1>. DEFINE S == {<<c, i>> : i \in Nat}
            s == FirstBytes(c, m)
            t == FirstBytes(c, m + k)
            u == [i \in 1..k |-> <<c, m + i>>]
<1>1. \A i \in 1..m : <<c, i>> \in S
  OBVIOUS
<1>2. \A i \in 1..(m + k) : <<c, i>> \in S
  OBVIOUS
<1>3. \A i \in 1..k : <<c, m + i>> \in S
  OBVIOUS
<1>. HIDE DEF S
<1>4. s \in [1..m -> S] /\ t \in [1..(m + k) -> S] /\ u \in [1..k -> S]
  BY <1>1, <1>2, <1>3 DEF FirstBytes
<1>5. /\ \A i \in 1..m : s[i] = <<c, i>>
      /\ \A i \in 1..(m + k) : t[i] = <<c, i>>
      /\ \A i \in 1..k : u[i] = <<c, m + i>>
  BY DEF FirstBytes
<1>. HIDE DEF s, t, u
<1>6. s \in Seq(S) /\ Len(s) = m
  BY <1>4, SeqMake
<1>7. t \in Seq(S) /\ Len(t) = m + k
  <2>1. m + k \in Nat
    OBVIOUS
  <2>. QED  BY <1>4, <2>1, SeqMake
<1>8. u \in Seq(S) /\ Len(u) = k
  BY <1>4, SeqMake
<1>. DEFINE v == s \o u
<1>9. /\ v \in Seq(S) /\ Len(v) = m + k
      /\ \A i \in 1..m : v[i] = s[i]
      /\ \A i \in 1..(m + k) : i > m => v[i] = u[i - m]
  BY ZenonT(60), <1>6, <1>8, SeqConcat
<1>. HIDE DEF v
<1>10. \A i \in 1..Len(v) : v[i] = t[i]
  <2>1. ASSUME NEW i \in 1..(m + k)
        PROVE  v[i] = t[i]
    <3>1. CASE i <= m
      <4>1. i \in 1..m
        BY <2>1, <3>1
      <4>. QED  BY <1>5, <1>9, <2>1, <4>1
    <3>2. CASE i > m
      <4>1. i - m \in 1..k /\ m + (i - m) = i
        BY <2>1, <3>2
      <4>2. v[i] = <<c, m + (i - m)>>
        BY <1>5, <1>9, <2>1, <3>2, <4>1
      <4>. QED  BY <1>5, <2>1, <4>1, <4>2
    <3>. QED  BY <2>1, <3>1, <3>2
  <2>. QED  BY <1>9, <2>1
<1>11. v = t
  BY <1>7, <1>9, <1>10, SeqSame
<1>12. Stream!NextBytes(s, c, k) = v
  BY <1>6 DEF Stream!NextBytes, u, v
<1>. QED  BY <1>6, <1>11, <1>12 DEF s, t

\* tls_port_recv hands out the next bytes of the stream.
LEMMA StreamTakes ==
    ASSUME TypeOK, TypeOK', DownlinkInv, DownlinkInv', NEW len \in 1..MaxRead, RecvCopy(len),
           UNCHANGED proxyVars
    PROVE  StreamStep
<1>. DEFINE avail == Len(frame_buf) - frame_off
            take == IF len < avail THEN len ELSE avail
            p == SubSeq(frame_buf, frame_off + 1, frame_off + take)
            s == rcvd[attempt]
            m == Len(rcvd[attempt])
<1>1. /\ pc \in {"app", "copy"} /\ frame_off < Len(frame_buf)
      /\ rcvd' = [rcvd EXCEPT ![attempt] = s \o p]
      /\ UNCHANGED <<attempt, connected, sent, delivered, fwd>>
  BY DEF RecvCopy, cmdVars, proxyVars
<1>2. /\ attempt \in Attempt /\ attempt # 0 /\ connected /\ Place <= fwd[attempt]
      /\ s \in Seq(Byte) /\ m \in Nat /\ frame_buf \in Seq(Byte) /\ Len(frame_buf) \in Nat
      /\ frame_off \in Nat /\ fwd[attempt] \in Nat
  BY <1>1, Session
<1>3. /\ take \in Nat /\ frame_off + take <= Len(frame_buf) /\ take <= MaxRead /\ MaxRead \in Nat
  <2>1. len \in Nat /\ len <= MaxRead /\ MaxRead \in Nat
    BY PortAssumption
  <2>. QED  BY <1>1, <1>2, <2>1
<1>. HIDE DEF take
<1>4. m + take <= fwd[attempt]
  BY <1>2, <1>3 DEF Place
<1>5. rcvd'[attempt] = s \o p /\ \A c \in Attempt : c # attempt => rcvd'[c] = rcvd[c]
  BY <1>1, <1>2 DEF TypeOK, PortTypeOK, StreamTypeOK
<1>6. Len(rcvd'[attempt]) = m + take
  <2>1. p \in Seq(Byte) /\ Len(p) = take
    <3>1. /\ frame_off + 1 \in Nat /\ frame_off + 1 >= 1 /\ frame_off + take \in Nat
          /\ frame_off + 1 <= frame_off + take + 1
          /\ frame_off + take + 1 - (frame_off + 1) = take
      BY <1>2, <1>3
    <3>2. p \in Seq(Byte) /\ Len(p) = frame_off + take + 1 - (frame_off + 1)
      BY <1>2, <1>3, <3>1, SeqSegment
    <3>. HIDE DEF p
    <3>. QED  BY <3>1, <3>2
  <2>. HIDE DEF p, s
  <2>2. s \in Seq(Byte) /\ Len(s) = m
    BY <1>2 DEF s
  <2>3. Len(s \o p) = Len(s) + Len(p)
    BY <2>1, <2>2, SeqConcat
  <2>. QED  BY <1>5, <2>1, <2>2, <2>3
<1>. HIDE DEF s, p
<1>7. Named(rcvd[attempt]) = FirstBytes(attempt, m)
  <2>1. \A i \in DOMAIN rcvd[attempt] : rcvd[attempt][i].conn = attempt /\ rcvd[attempt][i].pos = i
    BY <1>2 DEF DownlinkInv, DownlinkInOrder
  <2>. QED  BY <1>2, <2>1, NamedInOrder DEF s
<1>8. Named(rcvd'[attempt]) = FirstBytes(attempt, m + take)
  <2>1. \A i \in DOMAIN rcvd'[attempt] : rcvd'[attempt][i].conn = attempt /\ rcvd'[attempt][i].pos = i
    BY <1>2 DEF DownlinkInv, DownlinkInOrder
  <2>2. rcvd'[attempt] \in Seq(Byte)
    BY <1>2 DEF TypeOK, PortTypeOK, StreamTypeOK
  <2>. HIDE DEF m
  <2>3. Named(rcvd'[attempt]) = FirstBytes(attempt, Len(rcvd'[attempt]))
    BY <2>1, <2>2, NamedInOrder
  <2>. QED  BY <1>6, <2>3
<1>. HIDE DEF m
<1>9. /\ Len(Named(rcvd[attempt])) = m
      /\ Named(rcvd'[attempt]) = Stream!NextBytes(Named(rcvd[attempt]), attempt, take)
  BY <1>2, <1>3, <1>7, <1>8, FirstBytesGrow
<1>10. [c \in Attempt |-> Named(rcvd'[c])] =
         [[c \in Attempt |-> Named(rcvd[c])] EXCEPT
            ![attempt] = Stream!NextBytes(@, attempt, take)]
  <2>1. \A c \in Attempt : Named(rcvd'[c]) =
            IF c = attempt THEN Stream!NextBytes(Named(rcvd[c]), attempt, take)
            ELSE Named(rcvd[c])
    BY <1>5, <1>9
  <2>. QED  BY <1>2, <2>1
<1>11. [c \in Attempt |-> Named(rcvd[c])][attempt] = Named(rcvd[attempt])
  BY <1>2
<1>12. UNCHANGED <<IF connected THEN attempt ELSE 0, [c \in Attempt |-> sent[c]], delivered, fwd>>
  BY <1>1
<1>13. (IF connected THEN attempt ELSE 0) = attempt
  BY <1>2
<1>14. PICK k \in 0..(ClientLen + NetChunk + MaxRead) : k = take
  BY <1>3, PortAssumption, ProxyAssumption
<1>15. Stream!Take(k)
  <2>. DEFINE x == IF connected THEN attempt ELSE 0
              h == [c \in Attempt |-> Named(rcvd[c])]
  <2>1. x = attempt /\ x # 0 /\ h[x] = Named(rcvd[attempt])
    BY <1>2, <1>11, <1>13
  <2>. HIDE DEF x
  <2>2. Len(h[x]) + k <= fwd[x]
    BY <1>4, <1>9, <1>14, <2>1
  <2>3. h' = [h EXCEPT ![x] = Stream!NextBytes(@, x, k)]
    BY <1>10, <1>14, <2>1
  <2>. QED  BY <1>12, <2>1, <2>2, <2>3 DEF Stream!Take, Named, x
<1>. QED  BY <1>14, <1>15 DEF StreamStep, Stream!Next

-----------------------------------------------------------------------------
(* Refinement: all steps. *)

LEMMA StreamInit == Init => Stream!Init /\ SentBefore
<1>. SUFFICES ASSUME Init PROVE Stream!Init /\ SentBefore
  OBVIOUS
<1>. USE DEF Init, PortInit, ProxyInit
<1>1. Stream!Sessions = Attempt /\ \A c \in Attempt : c \in 0..MaxAttempts
  BY LinkAssumption DEF Stream!Sessions, Attempt
<1>2. [c \in Attempt |-> sent[c]] = [c \in Attempt |-> 0]
  BY <1>1
<1>3. [c \in Attempt |-> Named(rcvd[c])] = [c \in Attempt |-> <<>>]
  <2>1. ASSUME NEW c \in Attempt PROVE Named(rcvd[c]) = <<>>
    <3>1. Named(<<>>) = FirstBytes(c, 0)
      <4>1. <<>> \in Seq(Byte) /\ Len(<<>>) = 0 /\ \A i \in DOMAIN <<>> : FALSE
        BY SeqNone, SeqDomain
      <4>2. Named(<<>>) = FirstBytes(c, Len(<<>>))
        BY <4>1, NamedInOrder
      <4>. QED  BY <4>1, <4>2
    <3>2. FirstBytes(c, 0) \in [1..0 -> {}]
      BY DEF FirstBytes
    <3>3. FirstBytes(c, 0) = <<>>
      BY <3>2, SeqMake, SeqEmpty
    <3>. QED  BY <2>1, <3>1, <3>3
  <2>. QED  BY <2>1
<1>4. Stream!Init
  BY <1>1, <1>2, <1>3 DEF Stream!Init, Named
<1>5. SentBefore
  BY SeqNone, SeqDomain DEF SentBefore
<1>. QED  BY <1>4, <1>5

\* Every step of the board's program and of the client above it.
LEMMA StreamBoard ==
    ASSUME TypeOK, TypeOK', UplinkInv, DownlinkInv, DownlinkInv', Paced,
           PortStep \/ Caller \/ Timer \/ Reboot, UNCHANGED proxyVars
    PROVE  StreamStep
<1>. USE DEF cmdVars, linkVars, frameVars, proxyVars
<1>1. CASE UNCHANGED <<sent, rcvd, connected, attempt>>
  BY <1>1, StreamStays
<1>2. CASE PortStep
  <2>1. CASE SendCommand
    <3>1. ~connected
      BY <2>1 DEF SendCommand, DownlinkInv, Phases, InSession
    <3>. QED  BY <2>1, <3>1, StreamStays DEF SendCommand
  <2>2. CASE DrainByte \/ DrainDone \/ LineByte \/ ReadExact
    BY <1>1, <2>2 DEF DrainByte, DrainDone, LineByte, ReadExact, portVars
  <2>3. CASE ConnectAccepted
    BY <2>3, StreamOpens
  <2>4. CASE ConnectRejected \/ RecvEof
    BY <2>4, StreamEnds DEF ConnectRejected, RecvEof
  <2>5. CASE CertDone \/ RecvBadLength \/ RecvFrame \/ RecvPayload \/ RecvTruncated
    BY <1>1, <2>5 DEF CertDone, RecvBadLength, RecvFrame, RecvPayload, RecvTruncated
  <2>6. CASE CertRejected \/ CertAccepted
    BY <1>1, <2>6 DEF CertRejected, CertAccepted, CertFails, CertBody
  <2>7. CASE CertLength \/ CertTimeout
    BY <1>1, <2>7 DEF CertLength, CertTimeout, CertFails, CertBody
  <2>. QED  BY <1>2, <2>1, <2>2, <2>3, <2>4, <2>5, <2>6, <2>7 DEF PortStep
<1>3. CASE Caller \/ Timer
  <2>1. CASE StartCommand \/ RecvHeader \/ Timer
    BY <1>1, <2>1 DEF StartCommand, RecvHeader, Timer, LineTimeout, RecvWantRead
  <2>2. CASE \E len \in 1..MaxRead : RecvCopy(len)
    BY <2>2, StreamTakes
  <2>3. CASE \E n \in 1..ClientLen : Send(n)
    BY <2>3, StreamPuts
  <2>4. CASE ClientCloses
    BY <2>4, StreamEnds DEF ClientCloses, Close
  <2>. QED  BY <1>3, <2>1, <2>2, <2>3, <2>4 DEF Caller
<1>4. ~Reboot
  BY DEF Reboot, Paced
<1>. QED  BY <1>2, <1>3, <1>4

\* Every step of the proxy.
LEMMA StreamProxy ==
    ASSUME TypeOK, UplinkInv, DownlinkInv, SentBefore, ReadUart \/ Serve \/ ReadNet,
           UNCHANGED portVars
    PROVE  StreamStep
<1>. USE DEF portVars, cmdVars, proxyVars
<1>1. CASE UNCHANGED <<delivered, fwd>>
  BY <1>1, StreamStays
<1>2. ASSUME TakeItem
      PROVE  Size \in Nat
  <2>1. up \in Seq(UpItem) /\ up # <<>> /\ Item = up[1] /\ 1 \in 1..Len(up)
    BY <1>2, SeqTail DEF TakeItem, Item, TypeOK, LinkTypeOK
  <2>2. Item \in UpItem /\ WellTagged(Item)
    BY <2>1, SeqElt, SeqDomain DEF TypeOK, LinkTypeOK
  <2>. QED  BY <2>2, ItemFields DEF Size, WellTagged
<1>3. CASE RelayData
  <2>1. Size \in Nat
    BY <1>2, <1>3 DEF RelayData
  <2>2. PICK n \in Nat : n = Size
    BY <2>1
  <2>3. TakeItem /\ Item.type = "DATA" /\ conn # 0
    BY <1>3 DEF RelayData
  <2>4. n <= Size /\ delivered' = [delivered EXCEPT ![conn] = @ \o Written(n)]
    BY <1>3, <2>1, <2>2 DEF RelayData
  <2>5. UNCHANGED <<connected, attempt, sent, rcvd, fwd>>
    BY <1>3 DEF RelayData
  <2>. QED  BY <2>3, <2>4, <2>5, StreamArrives
<1>4. ASSUME NEW n \in 0..Size, SendFails(n)
      PROVE  StreamStep
  <2>1. n \in Nat /\ n <= Size
    BY <1>2, <1>4 DEF SendFails
  <2>. QED  BY <1>4, <2>1, StreamArrives DEF SendFails
<1>5. CASE ReadLog \/ IgnoreData \/ StartServing
  BY <1>1, <1>5 DEF ReadLog, IgnoreData, StartServing
<1>6. CASE Serve
  BY <1>1, <1>6 DEF Serve, ConnectOk, CertOk, CommandFails
<1>7. CASE ReadNet
  BY <1>1, <1>7, StreamOffers DEF ReadNet, RemoteClosed, RecvFails
<1>. QED  BY <1>3, <1>4, <1>5, <1>6, <1>7 DEF ReadUart

LEMMA StreamNext ==
    ASSUME Paced
    PROVE  /\ TypeOK /\ TypeOK' /\ UplinkInv /\ DownlinkInv /\ DownlinkInv' /\ SentBefore
           /\ [Next]_vars
           => [Stream!Next]_Stream!vars
<1>. SUFFICES ASSUME TypeOK, TypeOK', UplinkInv, DownlinkInv, DownlinkInv', SentBefore,
                     [Next]_vars
              PROVE  StreamStep
  BY DEF StreamStep
<1>1. CASE (PortStep \/ Caller \/ Timer \/ Reboot) /\ UNCHANGED proxyVars
  BY <1>1, StreamBoard
<1>2. CASE (ReadUart \/ Serve \/ ReadNet) /\ UNCHANGED portVars
  BY <1>2, StreamProxy
<1>3. CASE (\E n \in 0..Len(down) : Restart(n)) /\ UNCHANGED portVars
  BY <1>3, StreamStays DEF Restart, portVars, cmdVars
<1>4. CASE UNCHANGED <<portVars, proxyVars>>
  BY <1>4, StreamStays DEF portVars, cmdVars, proxyVars
<1>. QED  BY <1>1, <1>2, <1>3, <1>4 DEF Next, Finished, vars

\* The transport implements the two ordered streams per session that the TLS client
\* relies on (tls_port_send and tls_port_recv with EST_networking.py between them and
\* the peer), from the invariants of both directions.
THEOREM StreamRefined ==
    ASSUME Paced
    PROVE  Spec => StreamSpec
<1>1. Spec => []SentBefore
  <2>1. Init => SentBefore
    BY StreamInit
  <2>. QED  BY <2>1, SentBeforeStep, TypeCorrect, PTL DEF Spec
<1>2. Init => Stream!Init
  BY StreamInit
<1>3. /\ TypeOK /\ TypeOK' /\ UplinkInv /\ DownlinkInv /\ DownlinkInv' /\ SentBefore
      /\ [Next]_vars
      => [Stream!Next]_Stream!vars
  BY StreamNext
<1>. QED
  BY <1>1, <1>2, <1>3, TypeCorrect, UplinkInvariant, DownlinkInvariant, PTL
  DEF Spec, StreamSpec, Stream!Spec

-----------------------------------------------------------------------------
(* Sessions under every fault: which connection the bytes are of. *)

\* What comes after the step came before it, in the same order.
Thinned ==
    /\ \A i \in DOMAIN Coming' : \E k \in DOMAIN Coming : Coming'[i] = Coming[k]
    /\ \A i, j \in DOMAIN Coming' : i <= j =>
          \E k, l \in DOMAIN Coming : k <= l /\ Coming'[i] = Coming[k] /\ Coming'[j] = Coming[l]

\* No command is new on its way to the proxy.
NothingAsked ==
    \A k \in DOMAIN up' : up'[k].type \in CommandName =>
        \E l \in DOMAIN up : up'[k] = up[l]

LEMMA ThinSame ==
    ASSUME Coming' = Coming
    PROVE  Thinned
BY DEF Thinned

\* Taking a byte thins what comes; it is the first of what came.
LEMMA ThinTake ==
    ASSUME TypeOK, TakeByte
    PROVE  Thinned /\ 1 \in DOMAIN Coming /\ ch = Coming[1]
<1>1. Coming \in Seq(Byte) /\ Coming # <<>> /\ ch = Coming[1] /\ Coming' = Tail(Coming)
  BY TakeComing, ComingType
<1>2. /\ Len(Coming) \in Nat \ {0} /\ Tail(Coming) \in Seq(Byte)
      /\ Len(Tail(Coming)) = Len(Coming) - 1
      /\ \A i \in 1..(Len(Coming) - 1) : Tail(Coming)[i] = Coming[i + 1]
  BY <1>1, SeqTail
<1>3. DOMAIN Coming = 1..Len(Coming) /\ DOMAIN Coming' = 1..(Len(Coming) - 1)
  BY <1>1, <1>2, SeqDomain
<1>4. ASSUME NEW i \in DOMAIN Coming', NEW j \in DOMAIN Coming', i <= j
      PROVE  /\ \E k \in DOMAIN Coming : Coming'[i] = Coming[k]
             /\ \E k, l \in DOMAIN Coming :
                    k <= l /\ Coming'[i] = Coming[k] /\ Coming'[j] = Coming[l]
  <2>1. i + 1 \in DOMAIN Coming /\ j + 1 \in DOMAIN Coming /\ i + 1 <= j + 1
    BY <1>2, <1>3, <1>4
  <2>2. Coming'[i] = Coming[i + 1] /\ Coming'[j] = Coming[j + 1]
    BY <1>1, <1>2, <1>3, <1>4
  <2>. QED  BY <2>1, <2>2
<1>5. 1 \in DOMAIN Coming
  BY <1>2, <1>3
<1>6. \A i \in DOMAIN Coming' : i <= i
  BY <1>2, <1>3
<1>. QED  BY <1>1, <1>4, <1>5, <1>6 DEF Thinned

\* A reset empties the receive register.
LEMMA ThinReboot ==
    ASSUME TypeOK, rdr' = <<>>, UNCHANGED <<up, down>>
    PROVE  Thinned
<1>1. CASE rdr = <<>>
  BY <1>1, ThinSame DEF Coming
<1>2. CASE rdr # <<>>
  BY <1>2, ThinTake DEF TakeByte
<1>. QED  BY <1>1, <1>2

\* A lost byte is the second one.
LEMMA ThinLose ==
    ASSUME TypeOK, LoseByte
    PROVE  Thinned
<1>1. /\ rdr \in Seq(Byte) /\ down \in Seq(Byte) /\ rdr # <<>> /\ Len(rdr) <= 1 /\ down # <<>>
      /\ rdr' = rdr /\ down' = Tail(down)
  BY DEF TypeOK, LinkTypeOK, LoseByte
<1>2. Len(rdr) = 1
  BY <1>1, SeqOne
<1>3. /\ Len(down) \in Nat \ {0} /\ Tail(down) \in Seq(Byte) /\ Len(Tail(down)) = Len(down) - 1
      /\ \A i \in 1..(Len(down) - 1) : Tail(down)[i] = down[i + 1]
  BY <1>1, SeqTail
<1>4. /\ Len(Coming) = 1 + Len(down) /\ Coming[1] = rdr[1]
      /\ \A i \in 1..Len(down) : Coming[1 + i] = down[i]
      /\ Coming \in Seq(Byte)
  BY <1>1, <1>2, SeqOneBefore DEF Coming
<1>. DEFINE r == Tail(down)
            old(i) == IF i = 1 THEN 1 ELSE i + 1
<1>5. /\ Coming' = rdr \o r /\ r \in Seq(Byte) /\ Len(r) = Len(down) - 1
      /\ \A i \in 1..(Len(down) - 1) : r[i] = down[i + 1]
  BY <1>1, <1>3 DEF Coming
<1>. HIDE DEF r
<1>6. /\ Coming' \in Seq(Byte) /\ Len(Coming') = 1 + Len(r) /\ Coming'[1] = rdr[1]
      /\ \A i \in 1..Len(r) : Coming'[1 + i] = r[i]
  BY <1>1, <1>2, <1>5, SeqOneBefore
<1>7. DOMAIN Coming = 1..(1 + Len(down)) /\ DOMAIN Coming' = 1..Len(down)
  <2>1. DOMAIN Coming = 1..Len(Coming) /\ DOMAIN Coming' = 1..Len(Coming')
    BY <1>4, <1>6, SeqDomain
  <2>2. Len(Coming') = Len(down)
    BY <1>3, <1>5, <1>6
  <2>. QED  BY <1>4, <2>1, <2>2
<1>8. ASSUME NEW i \in DOMAIN Coming'
      PROVE  old(i) \in DOMAIN Coming /\ Coming'[i] = Coming[old(i)]
  <2>1. i \in 1..Len(down)
    BY <1>7
  <2>2. CASE i = 1
    BY <1>3, <1>4, <1>6, <1>7, <2>1, <2>2
  <2>3. CASE i > 1
    <3>1. i - 1 \in 1..Len(r) /\ i - 1 \in 1..(Len(down) - 1) /\ i + 1 \in DOMAIN Coming
          /\ 1 + (i - 1) = i /\ i \in 1..Len(down) /\ (i - 1) + 1 = i
      <4>1. Len(down) \in Nat /\ i \in Nat /\ i <= Len(down) /\ Len(r) = Len(down) - 1
        BY <1>3, <1>5, <2>1
      <4>. HIDE DEF old
      <4>2. i + 1 \in DOMAIN Coming
        BY <1>7, <4>1
      <4>. QED  BY <2>3, <4>1, <4>2
    <3>2. Coming'[1 + (i - 1)] = r[i - 1]
      BY <1>6, <3>1
    <3>3. r[i - 1] = down[(i - 1) + 1] /\ Coming[1 + i] = down[i] /\ 1 + i = i + 1
      BY <1>4, <1>5, <3>1, <1>3
    <3>4. Coming'[i] = Coming[i + 1]
      BY <3>1, <3>2, <3>3
    <3>. QED  BY <2>3, <3>1, <3>4
  <2>. QED  BY <1>3, <2>1, <2>2, <2>3
<1>9. ASSUME NEW i \in DOMAIN Coming', NEW j \in DOMAIN Coming', i <= j
      PROVE  old(i) <= old(j)
  BY <1>3, <1>7, <1>9
<1>. HIDE DEF old
<1>. QED  BY <1>8, <1>9 DEF Thinned

\* A proxy that starts anew leaves the first of them.
LEMMA ThinRestart ==
    ASSUME TypeOK, NEW n \in 0..Len(down), Restart(n)
    PROVE  Thinned
<1>1. PICK m \in 0..Len(Coming) : Coming' = SubSeq(Coming, 1, m)
  BY RestartComing
<1>2. Coming \in Seq(Byte) /\ Len(Coming) \in Nat /\ DOMAIN Coming = 1..Len(Coming)
  BY ComingType
<1>. DEFINE q == SubSeq(Coming, 1, m)
<1>3. m \in Nat /\ 1 \in Nat /\ 1 >= 1 /\ m <= Len(Coming) /\ 1 <= m + 1
  BY <1>2
<1>4. /\ q \in Seq(Byte) /\ Len(q) = m + 1 - 1 /\ \A i \in 1..(m + 1 - 1) : q[i] = Coming[1 + i - 1]
  BY <1>2, <1>3, SeqSegment
<1>5. m + 1 - 1 = m /\ \A i \in 1..m : 1 + i - 1 = i
  BY <1>3
<1>. HIDE DEF q
<1>6. DOMAIN q = 1..m /\ \A i \in 1..m : q[i] = Coming[i] /\ i \in DOMAIN Coming
  <2>1. DOMAIN q = 1..Len(q)
    BY <1>4, SeqDomain
  <2>. QED  BY <1>2, <1>3, <1>4, <1>5, <2>1
<1>7. Coming' = q
  BY <1>1 DEF q
<1>. QED  BY <1>6, <1>7 DEF Thinned

\* A step that writes nothing to the board, and asks nothing, keeps the order;
LEMMA OrderThinned ==
    ASSUME TypeOK, CommandOrder, Thinned, NothingAsked,
           attempt' = attempt, conn' \in {0, conn}, busy' \in {NoCommand, busy}
    PROVE  CommandOrder'
<1>1. \A i, j \in DOMAIN Coming' : i <= j => Coming'[i].conn <= Coming'[j].conn
  BY DEF CommandOrder, Thinned
<1>2. ASSUME NEW i \in DOMAIN Coming'
      PROVE  Coming'[i].conn <= attempt' /\ (conn' # 0 => Coming'[i].conn <= conn')
  BY DEF CommandOrder, Thinned
<1>3. ASSUME busy' # NoCommand, NEW i \in DOMAIN Coming'
      PROVE  Coming'[i].conn < busy'.attempt
  BY <1>3 DEF CommandOrder, LaterThan, Thinned
<1>4. ASSUME NEW k \in DOMAIN up', up'[k].type \in CommandName, NEW i \in DOMAIN Coming'
      PROVE  Coming'[i].conn < up'[k].attempt
  <2>1. PICK l \in DOMAIN up : up'[k] = up[l]
    BY <1>4 DEF NothingAsked
  <2>2. LaterThan(up[l].attempt)
    BY <1>4, <2>1 DEF CommandOrder
  <2>. QED  BY <2>1, <2>2 DEF LaterThan, Thinned
<1>. QED  BY <1>1, <1>2, <1>3, <1>4 DEF CommandOrder, LaterThan

\* and what only this attempt's connection can write, stays so.
LEMMA OwnThinned ==
    ASSUME OwnLine, Thinned, NothingAsked,
           attempt' = attempt, conn' \in {0, conn}, busy' \in {NoCommand, busy}
    PROVE  OwnLine'
<1>1. \A i \in DOMAIN Coming' : Coming'[i].conn = attempt
  BY DEF OwnLine, Thinned
<1>2. Unasked'
  BY DEF OwnLine, Unasked, NothingAsked, Idle
<1>. QED  BY <1>1, <1>2 DEF OwnLine

\* What the proxy writes for the last command keeps the order.
LEMMA OrderWrites ==
    ASSUME TypeOK, CommandOrder, NEW c \in Attempt, NEW v \in Seq(Byte), Write(v), UNCHANGED rdr,
           \A i \in DOMAIN v : v[i].conn = c,
           c <= attempt, \A i \in DOMAIN Coming : Coming[i].conn <= c
    PROVE  /\ DOMAIN Coming' = 1..(Len(Coming) + Len(v))
           /\ \A i \in DOMAIN Coming' :
                 Coming'[i].conn <= c /\ (i \in DOMAIN Coming \/ Coming'[i].conn = c)
           /\ \A i \in DOMAIN Coming : i \in DOMAIN Coming' /\ Coming'[i] = Coming[i]
           /\ \A i, j \in DOMAIN Coming' : i <= j => Coming'[i].conn <= Coming'[j].conn
<1>1. /\ Coming \in Seq(Byte) /\ Len(Coming) \in Nat /\ DOMAIN Coming = 1..Len(Coming)
      /\ Len(v) \in Nat /\ DOMAIN v = 1..Len(v) /\ c \in Nat
  BY ComingType, SeqDomain, LinkAssumption DEF Attempt
<1>2. Coming' = Coming \o v
  BY WriteComing
<1>. DEFINE m == Len(Coming)
            n == Len(v)
            w == Coming \o v
<1>3. /\ w \in Seq(Byte) /\ Len(w) = m + n /\ \A i \in 1..m : w[i] = Coming[i]
      /\ \A i \in 1..(m + n) : i > m => w[i] = v[i - m]
  BY <1>1, SeqConcat
<1>4. DOMAIN w = 1..(m + n)
  <2>. HIDE DEF w
  <2>. QED  BY <1>3, SeqDomain
<1>. HIDE DEF w
<1>5. ASSUME NEW i \in 1..(m + n), i > m
      PROVE  w[i].conn = c
  <2>1. i - m \in DOMAIN v
    BY <1>1, <1>5
  <2>. QED  BY <1>3, <1>5, <2>1
<1>6. \A i \in 1..m : i \in 1..(m + n) /\ w[i] = Coming[i] /\ w[i].conn <= c
  BY <1>1, <1>3
<1>7. \A i \in 1..(m + n) : w[i].conn <= c /\ (i \in 1..m \/ w[i].conn = c)
  BY <1>1, <1>5, <1>6
<1>8. ASSUME NEW i \in 1..(m + n), NEW j \in 1..(m + n), i <= j
      PROVE  w[i].conn <= w[j].conn
  <2>1. CASE j > m
    BY <1>5, <1>7, <2>1
  <2>2. CASE j <= m
    <3>1. i \in DOMAIN Coming /\ j \in DOMAIN Coming
      BY <1>1, <1>8, <2>2
    <3>. QED  BY <1>1, <1>6, <1>8, <3>1 DEF CommandOrder
  <2>. QED  BY <1>1, <2>1, <2>2
<1>9. Coming' = w
  BY <1>2 DEF w
<1>. QED  BY <1>1, <1>4, <1>6, <1>7, <1>8, <1>9

\* The bytes of one write are of one command.
Of(c, v) == v \in Seq(Byte) /\ \A i \in DOMAIN v : v[i].conn = c

LEMMA OfBoth ==
    ASSUME NEW c, NEW v, NEW w, Of(c, v), Of(c, w)
    PROVE  Of(c, v \o w)
<1>. DEFINE m == Len(v)
            n == Len(w)
            r == v \o w
<1>1. v \in Seq(Byte) /\ w \in Seq(Byte)
  BY DEF Of
<1>2. DOMAIN v = 1..m /\ DOMAIN w = 1..n /\ m \in Nat /\ n \in Nat
  BY <1>1, SeqDomain
<1>3. /\ r \in Seq(Byte) /\ Len(r) = m + n /\ \A i \in 1..m : r[i] = v[i]
      /\ \A i \in 1..(m + n) : i > m => r[i] = w[i - m]
  BY <1>1, SeqConcat
<1>. HIDE DEF r
<1>4. DOMAIN r = 1..(m + n)
  BY <1>3, SeqDomain
<1>5. ASSUME NEW i \in 1..(m + n)
      PROVE  r[i].conn = c
  <2>1. CASE i <= m
    BY <1>2, <1>3, <2>1 DEF Of
  <2>2. CASE i > m
    <3>1. i - m \in DOMAIN w
      BY <1>2, <2>2
    <3>. QED  BY <1>3, <2>2, <3>1 DEF Of
  <2>. QED  BY <1>2, <2>1, <2>2
<1>. QED  BY <1>3, <1>4, <1>5 DEF Of, r

LEMMA AnswersOf ==
    ASSUME NEW c \in Attempt
    PROVE  Of(c, OkLine(c)) /\ Of(c, ErrLine(c)) /\ Of(c, OkPem(c))
<1>. DEFINE pem == [i \in 1..PemLen |-> PemByte]
            p == Payload(pem, c, 0, PemLen)
            l == ReplyLine(<<79, 75, 32, 48 + PemLen, 10>>, c)
<1>1. /\ OkLine(c) \in Seq(Byte) /\ ErrLine(c) \in Seq(Byte)
      /\ \A i \in DOMAIN OkLine(c) : OkLine(c)[i].conn = c
      /\ \A i \in DOMAIN ErrLine(c) : ErrLine(c)[i].conn = c
  BY ReplyType DEF OkLine, ErrLine, ReplyLine
<1>2. Of(c, p)
  <2>1. PemLen \in Nat /\ pem \in Seq(ByteValue) /\ Len(pem) = PemLen
    <3>1. PemLen \in Nat /\ pem \in [1..PemLen -> ByteValue]
      BY ProxyAssumption
    <3>. QED  BY <3>1, SeqMake
  <2>. HIDE DEF pem
  <2>2. 0 \in Nat /\ 0 + PemLen <= Len(pem)
    BY <2>1
  <2>3. p \in Seq(Byte)
    BY <2>1, <2>2, PayloadType
  <2>4. \A i \in DOMAIN p : p[i].conn = c
    BY DEF Payload
  <2>. QED  BY <2>3, <2>4 DEF Of
<1>3. Of(c, l)
  <2>1. <<79, 75, 32, 48 + PemLen, 10>> \in Seq(ByteValue)
    <3>1. 48 + PemLen \in ByteValue
      BY ProxyAssumption DEF ByteValue
    <3>. QED  BY <3>1 DEF ByteValue
  <2>2. l \in Seq(Byte)
    BY <2>1, ReplyLineType
  <2>3. \A i \in DOMAIN l : l[i].conn = c
    BY DEF ReplyLine
  <2>. QED  BY <2>2, <2>3 DEF Of
<1>4. OkPem(c) = l \o p
  BY DEF OkPem
<1>. HIDE DEF l, p
<1>5. Of(c, l \o p)
  BY <1>2, <1>3, OfBoth
<1>. QED  BY <1>1, <1>4, <1>5 DEF Of

LEMMA FrameOf ==
    ASSUME NEW c \in Attempt, NEW done \in Nat, NEW n \in 1..NetChunk,
           done + n <= Len(ServerStream[c])
    PROVE  Of(c, FrameHeader(n, c, done) \o Payload(ServerStream[c], c, done, n))
<1>. DEFINE h == FrameHeader(n, c, done)
            p == Payload(ServerStream[c], c, done, n)
<1>1. n \in Nat /\ ServerStream[c] \in Seq(ByteValue)
  BY ProxyAssumption
<1>2. h \in Seq(Byte) /\ p \in Seq(Byte)
  BY <1>1, HeaderType, PayloadType
<1>3. (\A i \in DOMAIN h : h[i].conn = c) /\ (\A i \in DOMAIN p : p[i].conn = c)
  BY DEF FrameHeader, Payload
<1>. HIDE DEF h, p
<1>4. Of(c, h \o p)
  BY <1>2, <1>3, OfBoth DEF Of
<1>. QED  BY <1>4 DEF h, p

LEMMA EofOf ==
    ASSUME NEW c \in Attempt, NEW done \in Nat
    PROVE  Of(c, FrameHeader(0, c, done))
<1>. DEFINE v == FrameHeader(0, c, done)
<1>1. v \in Seq(Byte)
  BY HeaderType
<1>2. \A i \in DOMAIN v : v[i].conn = c
  BY DEF FrameHeader
<1>. QED  BY <1>1, <1>2 DEF Of

-----------------------------------------------------------------------------
(* The proxy's steps. *)

\* The proxy takes nothing new for a command.
LEMMA TakesAsked ==
    ASSUME TypeOK, TakeItem
    PROVE  NothingAsked
BY TakenFrom DEF NothingAsked

\* The firmware's own part does not change.
LEMMA BoardKeeps ==
    ASSUME OriginInv, UNCHANGED portVars
    PROVE  OwnBuffers' /\ NoForeignBytes' /\ Granting' = Granting /\ attempt' = attempt
<1>. USE DEF portVars, cmdVars, readVars, frameVars
<1>1. UNCHANGED <<pc, op, attempt, resp, got, frame_buf, rcvd>>
  OBVIOUS
<1>. QED  BY <1>1 DEF OriginInv, OwnBuffers, NoForeignBytes, Granting

LEMMA OriginReadUart ==
    ASSUME TypeOK, UplinkInv, OriginInv, ReadUart, UNCHANGED portVars
    PROVE  OriginInv'
<1>1. TakeItem /\ Coming' = Coming /\ Thinned /\ NothingAsked
  <2>1. TakeItem /\ UNCHANGED <<down, rdr>>
    BY DEF ReadUart, ReadLog, IgnoreData, RelayData, StartServing, SendFails
  <2>. QED  BY <2>1, TakesAsked, ThinSame DEF Coming
<1>2. OwnBuffers' /\ NoForeignBytes' /\ Granting' = Granting /\ attempt' = attempt
  BY BoardKeeps
<1>3. CASE conn' \in {0, conn} /\ busy' = busy
  BY <1>1, <1>2, <1>3, OrderThinned, OwnThinned DEF OriginInv
<1>4. CASE StartServing
  <2>1. /\ up # <<>> /\ Item = up[1] /\ 1 \in DOMAIN up /\ Item.type \in CommandName
        /\ busy' = Item /\ conn' = 0
    BY <1>4, TakenFrom DEF StartServing, CloseSocket
  <2>2. ~OwnLine
    BY <2>1 DEF OwnLine, Unasked
  <2>3. LaterThan(Item.attempt)
    BY <2>1 DEF OriginInv, CommandOrder
  <2>4. ASSUME NEW k \in DOMAIN up', up'[k].type \in CommandName, NEW i \in DOMAIN Coming'
        PROVE  Coming'[i].conn < up'[k].attempt
    BY <1>1, <2>4 DEF OriginInv, CommandOrder, NothingAsked, LaterThan
  <2>5. CommandOrder'
    BY <1>1, <1>2, <2>1, <2>3, <2>4 DEF OriginInv, CommandOrder, LaterThan
  <2>. QED  BY <1>2, <2>2, <2>5 DEF OriginInv
<1>5. StartServing \/ (conn' \in {0, conn} /\ busy' = busy)
  BY DEF ReadUart, ReadLog, IgnoreData, RelayData, SendFails, CloseSocket, proxyVars
<1>. QED  BY <1>3, <1>4, <1>5

\* An answer is of the command served, and later than all that came before.
LEMMA OriginServe ==
    ASSUME TypeOK, UplinkInv, OriginInv, Serve, UNCHANGED portVars
    PROVE  OriginInv'
<1>. DEFINE c == busy.attempt
<1>1. PICK v : /\ Of(c, v) /\ Write(v) /\ UNCHANGED <<up, rdr>>
               /\ busy' = NoCommand /\ conn' \in {0, c} /\ busy # NoCommand /\ c \in Attempt
  <2>1. busy # NoCommand
    BY ItemKinds DEF Serve, ConnectOk, CertOk, CommandFails, Idle, NoCommand
  <2>2. c \in Attempt /\ conn = 0
    BY <2>1 DEF TypeOK, ProxyTypeOK
  <2>. QED  BY <2>1, <2>2, AnswersOf DEF Serve, ConnectOk, CertOk, CommandFails, CloseSocket
<1>2. OwnBuffers' /\ NoForeignBytes' /\ Granting' = Granting /\ attempt' = attempt
  BY BoardKeeps
<1>3. ~OwnLine
  BY <1>1 DEF OwnLine, Unasked, Idle
<1>4. c <= attempt /\ attempt \in Nat /\ c \in Nat /\ c # 0
  BY <1>1, PlainTypes, LinkAssumption DEF UplinkInv, HostSide, Attempt
<1>5. \A i \in DOMAIN Coming : Coming[i].conn <= c /\ Coming[i].conn \in Nat
  <2>1. ASSUME NEW i \in DOMAIN Coming
        PROVE  Coming[i].conn \in Nat
    BY ComingType, SeqElt, ByteFields
  <2>. QED  BY <1>1, <1>4, <2>1 DEF OriginInv, CommandOrder, LaterThan
<1>6. /\ \A i \in DOMAIN Coming' : Coming'[i].conn <= c
      /\ \A i, j \in DOMAIN Coming' : i <= j => Coming'[i].conn <= Coming'[j].conn
  BY <1>1, <1>4, <1>5, OrderWrites DEF OriginInv, Of
<1>7. Coming' \in Seq(Byte) /\ \A i \in DOMAIN Coming' : Coming'[i].conn \in Nat
  <2>1. Coming \in Seq(Byte) /\ v \in Seq(Byte) /\ Coming' = Coming \o v
    BY <1>1, ComingType, WriteComing DEF Of
  <2>2. Coming' \in Seq(Byte)
    BY <2>1, SeqConcat
  <2>3. ASSUME NEW i \in DOMAIN Coming'
        PROVE  Coming'[i].conn \in Nat
    BY <2>2, SeqDomain, SeqElt, ByteFields
  <2>. QED  BY <2>2, <2>3
<1>8. ASSUME NEW k \in DOMAIN up, up[k].type \in CommandName
      PROVE  c < up[k].attempt /\ up[k].attempt \in Nat
  <2>1. up[k].attempt \in Nat
    BY PlainTypes, SeqElt, ItemFields
  <2>. QED  BY <1>8, <2>1 DEF UplinkInv, BoardSide
<1>9. CommandOrder'
  <2>1. up' = up /\ busy' = NoCommand /\ (conn' # 0 => conn' = c)
    BY <1>1
  <2>2. \A i \in DOMAIN Coming' : Coming'[i].conn <= attempt' /\ (conn' # 0 => Coming'[i].conn <= conn')
    BY <1>2, <1>4, <1>6, <1>7, <2>1
  <2>3. ASSUME NEW k \in DOMAIN up, up[k].type \in CommandName, NEW i \in DOMAIN Coming'
        PROVE  Coming'[i].conn < up[k].attempt
    <3>1. Coming'[i].conn <= c /\ Coming'[i].conn \in Nat /\ c < up[k].attempt /\ up[k].attempt \in Nat
      BY <1>6, <1>7, <1>8, <2>3
    <3>. HIDE DEF c
    <3>. QED  BY <1>4, <3>1
  <2>. QED  BY <1>6, <2>1, <2>2, <2>3 DEF CommandOrder, LaterThan
<1>. QED  BY <1>2, <1>3, <1>9 DEF OriginInv

\* Data and the end of a connection are of that connection.
LEMMA OriginReadNet ==
    ASSUME TypeOK, UplinkInv, OriginInv, ReadNet, UNCHANGED portVars
    PROVE  OriginInv'
<1>1. /\ conn \in Attempt /\ conn \in Nat /\ attempt \in Nat /\ conn <= attempt
      /\ Idle /\ up = <<>> /\ fwd[conn] \in Nat
  <2>1. PollNet
    BY DEF ReadNet, Relay, RemoteClosed, RecvFails
  <2>. QED  BY <2>1, PlainTypes DEF PollNet, UplinkInv, HostSide
<1>2. PICK v : /\ Of(conn, v) /\ Write(v) /\ UNCHANGED <<up, rdr, busy>> /\ conn' \in {0, conn}
  <2>1. CASE \E n \in 1..NetChunk : Relay(n)
    <3>1. PICK n \in 1..NetChunk : Relay(n)
      BY <2>1
    <3>2. Of(conn, FrameHeader(n, conn, fwd[conn]) \o Payload(ServerStream[conn], conn, fwd[conn], n))
      BY <1>1, <3>1, FrameOf DEF Relay
    <3>. QED  BY <3>1, <3>2 DEF Relay
  <2>2. CASE RemoteClosed \/ RecvFails
    <3>1. Of(conn, FrameHeader(0, conn, fwd[conn]))
      BY <1>1, EofOf
    <3>. QED  BY <2>2, <3>1 DEF RemoteClosed, RecvFails, CloseAndNotify, CloseSocket
  <2>. QED  BY <2>1, <2>2 DEF ReadNet
<1>3. OwnBuffers' /\ NoForeignBytes' /\ Granting' = Granting /\ attempt' = attempt
  BY BoardKeeps
<1>4. \A i \in DOMAIN Coming : Coming[i].conn <= conn
  BY <1>1, LinkAssumption DEF OriginInv, CommandOrder, Attempt
<1>5. /\ \A i \in DOMAIN Coming' :
            Coming'[i].conn <= conn /\ (i \in DOMAIN Coming \/ Coming'[i].conn = conn)
      /\ \A i \in DOMAIN Coming : Coming'[i] = Coming[i]
      /\ \A i, j \in DOMAIN Coming' : i <= j => Coming'[i].conn <= Coming'[j].conn
  BY <1>1, <1>2, <1>4, OrderWrites DEF OriginInv, Of
<1>6. ASSUME NEW i \in DOMAIN Coming'
      PROVE  Coming'[i].conn \in Nat
  <2>1. Coming \in Seq(Byte) /\ v \in Seq(Byte) /\ Coming' = Coming \o v
    BY <1>2, ComingType, WriteComing DEF Of
  <2>2. Coming' \in Seq(Byte)
    BY <2>1, SeqConcat
  <2>. QED  BY <2>2, SeqDomain, SeqElt, ByteFields
<1>7. DOMAIN up' = {} /\ busy' = NoCommand
  BY <1>1, <1>2, SeqNone, SeqDomain DEF Idle
<1>8. CommandOrder'
  BY <1>1, <1>2, <1>3, <1>5, <1>6, <1>7 DEF CommandOrder
<1>9. OwnLine => OwnLine'
  <2>1. ASSUME OwnLine, NEW i \in DOMAIN Coming'
        PROVE  Coming'[i].conn = attempt
    <3>1. conn = attempt
      BY <1>1, <2>1, LinkAssumption DEF OwnLine, Attempt
    <3>. QED  BY <1>5, <2>1, <3>1 DEF OwnLine
  <2>. QED  BY <1>2, <1>3, <1>7, <2>1 DEF OwnLine, Unasked, Idle
<1>. QED  BY <1>3, <1>8, <1>9 DEF OriginInv

LEMMA OriginRestart ==
    ASSUME TypeOK, OriginInv, NEW n \in 0..Len(down), Restart(n), UNCHANGED portVars
    PROVE  OriginInv'
<1>1. Thinned /\ OwnBuffers' /\ NoForeignBytes' /\ Granting' = Granting /\ attempt' = attempt
  BY ThinRestart, BoardKeeps
<1>2. conn' = 0 /\ busy' = NoCommand /\ up' = <<>>
  BY DEF Restart
<1>3. NothingAsked
  BY <1>2, SeqNone, SeqDomain DEF NothingAsked
<1>. QED  BY <1>1, <1>2, <1>3, OrderThinned, OwnThinned DEF OriginInv

LEMMA OriginWire ==
    ASSUME TypeOK, OriginInv, Wire, UNCHANGED <<portVars, proxyVars>>
    PROVE  OriginInv'
<1>1. OwnBuffers' /\ NoForeignBytes' /\ Granting' = Granting /\ attempt' = attempt
  BY BoardKeeps
<1>2. Thinned /\ up' = up
  BY ReceiveComing, ThinSame, ThinLose DEF Wire, Receive, LoseByte
<1>3. NothingAsked /\ conn' = conn /\ busy' = busy
  BY <1>2 DEF NothingAsked, proxyVars
<1>. QED  BY <1>1, <1>2, <1>3, OrderThinned, OwnThinned DEF OriginInv

-----------------------------------------------------------------------------
(* The firmware's steps. *)

\* What it prints is no command, nor are the chunks of tls_port_send.
LEMMA PrintAsks ==
    ASSUME TypeOK, PrintLog
    PROVE  NothingAsked
<1>1. up \in Seq(UpItem) /\ Log \in UpItem
  BY LogType DEF TypeOK, LinkTypeOK
<1>. DEFINE r == Append(up, Log)
            l == Log
<1>2. l.type \notin CommandName
  BY DEF Log, CommandName
<1>. HIDE DEF l
<1>3. /\ r \in Seq(UpItem) /\ Len(r) = Len(up) + 1 /\ r[Len(up) + 1] = l
      /\ \A i \in 1..Len(up) : r[i] = up[i]
  BY <1>1, SeqAppend DEF l
<1>4. DOMAIN r = 1..Len(r) /\ DOMAIN up = 1..Len(up) /\ Len(up) \in Nat
  BY <1>1, <1>3, SeqDomain
<1>5. up' = r
  BY DEF PrintLog
<1>. HIDE DEF r
<1>6. ASSUME NEW k \in DOMAIN r, r[k].type \in CommandName
      PROVE  k \in DOMAIN up /\ r[k] = up[k]
  <2>1. k # Len(up) + 1
    BY <1>2, <1>3, <1>6
  <2>. QED  BY <1>3, <1>4, <1>6, <2>1
<1>. QED  BY <1>5, <1>6 DEF NothingAsked

LEMMA ChunksAsk ==
    ASSUME TypeOK, attempt \in Attempt, NEW n \in 1..ClientLen, Send(n)
    PROVE  NothingAsked
<1>. DEFINE v == Chunks(n)
            r == up \o v
<1>1. v \in Seq(UpItem) /\ \A i \in DOMAIN v : v[i].type = "DATA"
  <2>1. n \in Nat
    BY PortAssumption
  <2>2. v \in Seq(UpItem)
    BY <2>1, ChunksType
  <2>. QED  BY <2>2 DEF Chunks
<1>2. up' = r
  BY DEF Send
<1>. HIDE DEF v
<1>3. up \in Seq(UpItem) /\ DOMAIN up = 1..Len(up) /\ Len(up) \in Nat
  BY PlainTypes
<1>4. /\ r \in Seq(UpItem) /\ Len(r) = Len(up) + Len(v)
      /\ \A j \in 1..Len(up) : r[j] = up[j]
      /\ \A j \in 1..(Len(up) + Len(v)) : j > Len(up) => r[j] = v[j - Len(up)]
  BY <1>1, <1>3, SeqConcat
<1>. HIDE DEF r
<1>5. DOMAIN r = 1..Len(r) /\ DOMAIN v = 1..Len(v) /\ Len(v) \in Nat
  BY <1>1, <1>4, SeqDomain
<1>6. ASSUME NEW k \in DOMAIN r, r[k].type \in CommandName
      PROVE  k \in DOMAIN up /\ r[k] = up[k]
  <2>1. ~(k > Len(up))
    <3>1. SUFFICES ASSUME k > Len(up)
                   PROVE  FALSE
      OBVIOUS
    <3>2. k - Len(up) \in DOMAIN v /\ r[k] = v[k - Len(up)]
      BY <1>3, <1>4, <1>5, <3>1
    <3>. QED  BY <1>1, <1>6, <3>2, ItemKinds
  <2>. QED  BY <1>3, <1>4, <1>5, <1>6, <2>1
<1>. QED  BY <1>2, <1>6 DEF NothingAsked

\* A step after which the firmware is in a session, or has been granted one, only
\* if it was before.
LEMMA OriginStays ==
    ASSUME TypeOK, OriginInv, Thinned, NothingAsked, attempt' = attempt, UNCHANGED proxyVars,
           Granting' => Granting, OwnBuffers', NoForeignBytes'
    PROVE  OriginInv'
<1>1. conn' = conn /\ busy' = busy
  BY DEF proxyVars
<1>. QED  BY <1>1, OrderThinned, OwnThinned DEF OriginInv

\* A step to a place outside.
LEMMA OriginOutside ==
    ASSUME TypeOK, OriginInv, Thinned, NothingAsked, UNCHANGED <<attempt, rcvd>>,
           UNCHANGED proxyVars,
           pc' \notin {"app", "header", "payload", "copy", "line", "reply"}
    PROVE  OriginInv'
<1>1. ~Granting' /\ OwnBuffers'
  BY DEF Granting, OwnBuffers
<1>2. NoForeignBytes'
  BY DEF OriginInv, NoForeignBytes
<1>. QED  BY <1>1, <1>2, OriginStays

LEMMA Quiet ==
    ASSUME TypeOK, PrintLog \/ UNCHANGED up, UNCHANGED <<down, rdr>>
    PROVE  Thinned /\ NothingAsked
<1>1. Thinned
  BY ThinSame DEF Coming
<1>2. UNCHANGED up => NothingAsked
  BY DEF NothingAsked
<1>. QED  BY <1>1, <1>2, PrintAsks

\* The steps before the command is sent, those that end a session or fail, and
\* those of a certificate fetch.
LEMMA OriginElsewhere ==
    ASSUME TypeOK, OriginInv, UNCHANGED proxyVars,
           \/ StartCommand \/ DrainByte \/ DrainDone \/ ConnectRejected
           \/ CertRejected \/ CertAccepted \/ CertLength \/ CertTimeout \/ CertDone
           \/ RecvEof \/ RecvBadLength \/ RecvTruncated \/ ClientCloses \/ Reboot
    PROVE  OriginInv'
<1>. USE DEF Goto, linkVars, portVars, cmdVars, readVars, frameVars
<1>1. CASE StartCommand \/ ConnectRejected \/ RecvEof \/ RecvBadLength \/ CertDone
  <2>1. PrintLog /\ UNCHANGED <<down, rdr, attempt, rcvd>> /\ pc' \in {"drain", "closed", "closing"}
    BY <1>1 DEF StartCommand, ConnectRejected, RecvEof, RecvBadLength, CertDone
  <2>. QED  BY <2>1, Quiet, OriginOutside
<1>2. CASE DrainDone \/ RecvTruncated \/ ClientCloses
  <2>1. UNCHANGED <<up, down, rdr, attempt, rcvd>> /\ pc' \in {"command", "closing", "closed"}
    BY <1>2 DEF DrainDone, RecvTruncated, ClientCloses, Close
  <2>. QED  BY <2>1, Quiet, OriginOutside
<1>3. CASE CertRejected \/ CertAccepted \/ CertLength \/ CertTimeout
  <2>1. /\ PrintLog \/ UNCHANGED up
        /\ UNCHANGED <<down, rdr, attempt, rcvd>> /\ pc' \in {"halted", "certlen", "certbody"}
    BY <1>3 DEF CertRejected, CertAccepted, CertLength, CertTimeout, CertFails, CertBody, StartRead
  <2>. QED  BY <2>1, Quiet, OriginOutside
<1>4. CASE DrainByte
  <2>1. TakeByte /\ UNCHANGED <<up, attempt, rcvd, pc>> /\ pc = "drain"
    BY <1>4 DEF DrainByte, TakeByte
  <2>2. Thinned /\ NothingAsked
    BY <2>1, ThinTake DEF NothingAsked
  <2>. QED  BY <2>1, <2>2, OriginOutside
<1>5. CASE Reboot
  <2>1. rdr' = <<>> /\ UNCHANGED <<up, down, attempt, rcvd>> /\ pc' = "closed"
    BY <1>5 DEF Reboot
  <2>2. Thinned /\ NothingAsked
    BY <2>1, ThinReboot DEF NothingAsked
  <2>. QED  BY <2>1, <2>2, OriginOutside
<1>. QED  BY <1>1, <1>2, <1>3, <1>4, <1>5

\* A new command is later than all that comes.
LEMMA OriginCommand ==
    ASSUME TypeOK, UplinkInv, OriginInv, SendCommand, UNCHANGED proxyVars
    PROVE  OriginInv'
<1>. DEFINE c == attempt + 1
            items == <<Log, Command(op, c)>>
            r == up \o items
<1>1. /\ up' = r /\ attempt' = c /\ resp' = <<>> /\ pc' = "line" /\ Coming' = Coming
      /\ conn' = conn /\ busy' = busy /\ UNCHANGED rcvd
  BY DEF SendCommand, Goto, proxyVars, Coming
<1>2. /\ up \in Seq(UpItem) /\ DOMAIN up = 1..Len(up) /\ Len(up) \in Nat /\ attempt \in Nat
      /\ \A i \in DOMAIN Coming : Coming[i].conn \in Nat
  <2>1. ASSUME NEW i \in DOMAIN Coming
        PROVE  Coming[i].conn \in Nat
    BY ComingType, SeqElt, ByteFields
  <2>. QED  BY <2>1, PlainTypes
<1>3. ~Granting' /\ OwnBuffers' /\ NoForeignBytes'
  BY <1>1, SeqNone DEF Granting, OwnBuffers, NoForeignBytes, OriginInv, IsOK
<1>4. items \in Seq(UpItem) /\ Len(items) = 2 /\ items[1] = Log /\ items[2] = Command(op, c)
  <2>. DEFINE u == Command(op, c)
  <2>1. Log \in UpItem
    BY LogType
  <2>2. u \in UpItem
    BY <1>2, LinkAssumption
    DEF SendCommand, TypeOK, PortTypeOK, CmdTypeOK, Command, UpItem
  <2>. HIDE DEF u
  <2>3. <<Log, u>> \in Seq(UpItem) /\ Len(<<Log, u>>) = 2 /\ <<Log, u>>[1] = Log /\ <<Log, u>>[2] = u
    BY <2>1, <2>2, SeqSmall
  <2>. QED  BY <2>3 DEF u
<1>. HIDE DEF items
<1>5. /\ r \in Seq(UpItem) /\ Len(r) = Len(up) + 2 /\ \A j \in 1..Len(up) : r[j] = up[j]
      /\ \A j \in 1..2 : r[Len(up) + j] = items[j]
  <2>1. up \in Seq(UpItem)
    BY <1>2
  <2>2. items \in Seq(UpItem)
    BY <1>4
  <2>3. /\ r \in Seq(UpItem) /\ Len(r) = Len(up) + Len(items) /\ \A j \in 1..Len(up) : r[j] = up[j]
        /\ \A j \in 1..Len(items) : r[Len(up) + j] = items[j]
    BY <2>1, <2>2, SeqConcat
  <2>4. Len(items) = 2
    BY <1>4
  <2>. HIDE DEF r
  <2>. QED  BY <2>3, <2>4
<1>. HIDE DEF r
<1>6. ASSUME NEW k \in DOMAIN r, r[k].type \in CommandName
      PROVE  (k \in DOMAIN up /\ r[k] = up[k]) \/ r[k].attempt = c
  <2>1. k \in 1..(Len(up) + 2)
    BY <1>5, SeqDomain
  <2>2. CASE k <= Len(up)
    BY <1>2, <1>5, <2>1, <2>2
  <2>3. CASE k = Len(up) + 1
    <3>1. 1 \in 1..2
      OBVIOUS
    <3>2. r[k] = Log
      BY <1>4, <1>5, <2>3, <3>1
    <3>. QED  BY <1>6, <3>2, ItemKinds DEF Log
  <2>4. CASE k = Len(up) + 2
    <3>1. 2 \in 1..2
      OBVIOUS
    <3>2. r[k] = Command(op, c)
      BY <1>4, <1>5, <2>4, <3>1
    <3>. QED  BY <3>2 DEF Command
  <2>. QED  BY <1>2, <2>1, <2>2, <2>3, <2>4
<1>7. \A i \in DOMAIN Coming : Coming[i].conn <= c /\ Coming[i].conn < c
  <2>1. \A i \in DOMAIN Coming : Coming[i].conn <= attempt
    BY DEF OriginInv, CommandOrder
  <2>. QED  BY <1>2, <2>1
<1>8. ASSUME NEW k \in DOMAIN r, r[k].type \in CommandName, NEW i \in DOMAIN Coming
      PROVE  Coming[i].conn < r[k].attempt
  <2>1. CASE k \in DOMAIN up /\ r[k] = up[k]
    BY <1>8, <2>1 DEF OriginInv, CommandOrder, LaterThan
  <2>2. CASE r[k].attempt = c
    BY <1>7, <2>2
  <2>. QED  BY <1>6, <1>8, <2>1, <2>2
<1>. HIDE DEF c
<1>9. CommandOrder'
  BY <1>1, <1>7, <1>8 DEF OriginInv, CommandOrder, LaterThan
<1>. QED  BY <1>3, <1>9 DEF OriginInv

\* The board reads its OK.
LEMMA OriginLine ==
    ASSUME TypeOK, UplinkInv, OriginInv, ReplyIsOwn, LineByte, UNCHANGED proxyVars
    PROVE  OriginInv'
<1>1. /\ pc = "line" /\ pc' \in {"line", "reply"} /\ TakeByte
      /\ resp' = IF ch.val = 0 THEN resp ELSE Append(resp, ch.val)
      /\ UNCHANGED <<up, op, attempt, got, frame_buf, rcvd>>
  BY DEF LineByte, Goto, TakeByte, cmdVars, readVars, frameVars
<1>2. Thinned /\ NothingAsked /\ 1 \in DOMAIN Coming /\ ch = Coming[1]
  BY <1>1, ThinTake DEF NothingAsked
<1>3. OwnBuffers' /\ NoForeignBytes'
  BY <1>1 DEF OriginInv, OwnBuffers, NoForeignBytes
<1>4. CASE Granting \/ ~Granting'
  BY <1>1, <1>2, <1>3, <1>4, OriginStays
<1>5. CASE ~Granting /\ Granting'
  <2>1. op = "CONNECT" /\ ~IsOK(resp) /\ IsOK(resp')
    BY <1>1, <1>5 DEF Granting
  <2>2. ch.conn = attempt
    <3>. DEFINE v == ch.val
                n == Len(resp)
    <3>1. resp \in Seq(ByteValue) /\ v \in ByteValue /\ n \in Nat
      BY <1>1, LinkTake DEF TypeOK, PortTypeOK, CmdTypeOK, Byte
    <3>2. resp' = Append(resp, v)
      BY <1>1, <2>1
    <3>. HIDE DEF v
    <3>3. /\ resp' \in Seq(ByteValue) /\ Len(resp') = n + 1 /\ resp'[n + 1] = v
          /\ \A i \in 1..n : resp'[i] = resp[i]
      BY <3>1, <3>2, SeqAppend
    <3>4. Len(resp') >= 2 /\ resp'[1] = 79 /\ resp'[2] = 75
      BY <2>1, <3>3, OkMeaning DEF IsOK
    <3>5. ~(n >= 2)
      <4>1. SUFFICES ASSUME n >= 2
                     PROVE  FALSE
        OBVIOUS
      <4>2. resp[1] = 79 /\ resp[2] = 75
        BY <3>1, <3>3, <3>4, <4>1
      <4>. QED  BY <2>1, <3>1, <4>1, <4>2, OkMeaning
    <3>6. n = 1
      <4>1. n + 1 >= 2 /\ n \in Nat
        BY <3>1, <3>3, <3>4
      <4>. HIDE DEF n
      <4>. QED  BY <3>5, <4>1
    <3>7. resp[1] = 79 /\ v = 75
      BY <3>3, <3>4, <3>6
    <3>8. resp = <<79>>
      <4>1. <<79>> \in Seq(ByteValue) /\ Len(<<79>>) = 1 /\ <<79>>[1] = 79
        BY DEF ByteValue
      <4>. QED  BY <3>1, <3>6, <3>7, <4>1, SeqSame
    <3>. QED  BY <1>1, <2>1, <3>7, <3>8 DEF ReplyIsOwn, TakeByte, v
  <2>3. conn' = conn /\ busy' = busy
    BY DEF proxyVars
  <2>4. OwnLine
    <3>1. /\ attempt \in Nat /\ conn \in Nat /\ conn <= attempt /\ busy.attempt <= attempt
          /\ busy.attempt \in Nat
      BY PlainTypes, ItemFields DEF UplinkInv, HostSide, TypeOK, ProxyTypeOK
    <3>2. ASSUME NEW i \in DOMAIN Coming
          PROVE  Coming[i].conn = attempt
      <4>1. i \in Nat /\ 1 <= i /\ Coming[i].conn \in Nat
        BY ComingType, SeqElt, ByteFields
      <4>2. Coming[1].conn <= Coming[i].conn /\ Coming[i].conn <= attempt
        BY <1>2, <4>1 DEF OriginInv, CommandOrder
      <4>. QED  BY <1>2, <2>2, <3>1, <4>1, <4>2
    <3>3. conn # 0 => attempt <= conn
      BY <1>2, <3>2 DEF OriginInv, CommandOrder
    <3>4. Idle
      <4>1. SUFFICES ASSUME busy # NoCommand
                     PROVE  FALSE
        BY DEF Idle
      <4>2. Coming[1].conn < busy.attempt
        BY <1>2, <4>1 DEF OriginInv, CommandOrder, LaterThan
      <4>. QED  BY <1>2, <3>1, <3>2, <4>2
    <3>5. ASSUME NEW k \in DOMAIN up, up[k].type \in CommandName
          PROVE  FALSE
      <4>1. up[k].attempt \in Nat /\ up[k].attempt <= attempt
        BY PlainTypes, SeqElt, ItemFields DEF UplinkInv, BoardSide
      <4>2. Coming[1].conn < up[k].attempt
        BY <1>2, <3>5 DEF OriginInv, CommandOrder, LaterThan
      <4>. QED  BY <1>2, <3>1, <3>2, <4>1, <4>2
    <3>. QED  BY <3>1, <3>2, <3>3, <3>4, <3>5 DEF OwnLine, Unasked
  <2>5. OwnLine' /\ CommandOrder'
    BY <1>1, <1>2, <2>3, <2>4, OrderThinned, OwnThinned DEF OriginInv
  <2>. QED  BY <1>3, <2>5 DEF OriginInv
<1>. QED  BY <1>4, <1>5

\* A reply that says OK opens a session with nothing in the buffer; a timeout
\* leaves the line as it is.
LEMMA OriginReply ==
    ASSUME TypeOK, OriginInv, UNCHANGED proxyVars, ConnectAccepted \/ LineTimeout
    PROVE  OriginInv'
<1>1. /\ PrintLog \/ UNCHANGED up
      /\ UNCHANGED <<down, rdr, attempt, rcvd, op, resp, got>>
  BY DEF ConnectAccepted, LineTimeout, linkVars, cmdVars, readVars
<1>2. Granting' => Granting
  BY <1>1 DEF ConnectAccepted, LineTimeout, Granting, Goto
<1>3. OwnBuffers'
  <2>1. frame_buf' = <<>> \/ pc' = "reply"
    BY DEF ConnectAccepted, LineTimeout, Goto
  <2>2. pc' \notin {"header", "payload"}
    BY DEF ConnectAccepted, LineTimeout, Goto
  <2>3. DOMAIN (<<>>) = {}
    BY SeqNone, SeqDomain
  <2>. QED  BY <2>1, <2>2, <2>3 DEF OwnBuffers
<1>4. NoForeignBytes'
  BY <1>1 DEF OriginInv, NoForeignBytes
<1>. QED  BY <1>1, <1>2, <1>3, <1>4, Quiet, OriginStays

\* In a session: a header, or the rest of a frame, is awaited or has been read,
LEMMA OriginFrame ==
    ASSUME TypeOK, OriginInv, UNCHANGED proxyVars,
           RecvHeader \/ RecvWantRead \/ RecvPayload \/ RecvFrame
    PROVE  OriginInv'
<1>. USE DEF Goto, linkVars, cmdVars, readVars, frameVars, StartRead, ReadComplete, ReadTimedOut
<1>1. /\ PrintLog \/ UNCHANGED up
      /\ UNCHANGED <<down, rdr, attempt, rcvd>>
      /\ pc \in {"app", "header", "payload"}
      /\ pc' = "payload" \/ pc' = "header" => got' = <<>>
      /\ frame_buf' = frame_buf \/ (frame_buf' = got /\ pc = "payload")
  BY DEF RecvHeader, RecvWantRead, RecvPayload, RecvFrame
<1>2. Granting
  BY <1>1 DEF Granting
<1>3. OwnBuffers'
  <2>1. DOMAIN (<<>>) = {}
    BY SeqNone, SeqDomain
  <2>2. \A i \in DOMAIN frame_buf' : frame_buf'[i].conn = attempt
    BY <1>1 DEF OriginInv, OwnBuffers
  <2>. QED  BY <1>1, <2>1, <2>2 DEF OwnBuffers
<1>4. NoForeignBytes'
  BY <1>1 DEF OriginInv, NoForeignBytes
<1>. QED  BY <1>1, <1>2, <1>3, <1>4, Quiet, OriginStays

\* a byte of one is,
LEMMA OriginRead ==
    ASSUME TypeOK, OriginInv, UNCHANGED proxyVars, ReadExact
    PROVE  OriginInv'
<1>1. /\ TakeByte /\ got' = Append(got, ch) /\ got \in Seq(Byte) /\ ch \in Byte
      /\ pc \in {"header", "payload", "certlen", "certbody"}
      /\ UNCHANGED <<up, pc, op, attempt, resp, frame_buf, rcvd>>
  BY LinkTake DEF ReadExact, TakeByte, cmdVars, frameVars, TypeOK, PortTypeOK, ReadTypeOK
<1>2. Thinned /\ NothingAsked /\ 1 \in DOMAIN Coming /\ ch = Coming[1]
  BY <1>1, ThinTake DEF NothingAsked
<1>3. (Granting' => Granting) /\ NoForeignBytes'
  BY <1>1 DEF Granting, OriginInv, NoForeignBytes
<1>4. OwnBuffers'
  <2>1. ASSUME pc \in {"header", "payload"}, NEW i \in DOMAIN got'
        PROVE  got'[i].conn = attempt
    <3>1. ch.conn = attempt
      BY <1>2, <2>1 DEF OriginInv, Granting, OwnLine
    <3>. DEFINE b == ch
                r == Append(got, b)
    <3>2. b \in Byte /\ got' = r
      BY <1>1
    <3>. HIDE DEF b
    <3>3. /\ r \in Seq(Byte) /\ Len(r) = Len(got) + 1 /\ r[Len(got) + 1] = b
          /\ \A j \in 1..Len(got) : r[j] = got[j]
      BY <1>1, <3>2, SeqAppend
    <3>. HIDE DEF r
    <3>4. DOMAIN r = 1..(Len(got) + 1) /\ DOMAIN got = 1..Len(got) /\ Len(got) \in Nat
      BY <1>1, <3>3, SeqDomain
    <3>5. CASE i = Len(got) + 1
      BY <3>1, <3>2, <3>3, <3>5 DEF b
    <3>6. CASE i # Len(got) + 1
      <4>1. i \in DOMAIN got /\ r[i] = got[i]
        BY <2>1, <3>2, <3>3, <3>4, <3>6
      <4>. QED  BY <2>1, <3>2, <4>1 DEF OriginInv, OwnBuffers
    <3>. QED  BY <3>5, <3>6
  <2>. QED  BY <1>1, <2>1 DEF OriginInv, OwnBuffers
<1>. QED  BY <1>1, <1>2, <1>3, <1>4, OriginStays

\* bytes are sent,
LEMMA OriginSend ==
    ASSUME TypeOK, OriginInv, UNCHANGED proxyVars, NEW n \in 1..ClientLen, Send(n)
    PROVE  OriginInv'
<1>1. /\ pc = "app" /\ UNCHANGED <<down, rdr, pc, op, attempt, resp, got, frame_buf, rcvd>>
  BY DEF Send, cmdVars, readVars, frameVars
<1>2. attempt \in Attempt
  BY <1>1, PlainTypes DEF Talking
<1>3. Thinned /\ NothingAsked
  BY <1>1, <1>2, ThinSame, ChunksAsk DEF Coming
<1>4. (Granting' => Granting) /\ OwnBuffers' /\ NoForeignBytes'
  BY <1>1 DEF Granting, OriginInv, OwnBuffers, NoForeignBytes
<1>. QED  BY <1>1, <1>3, <1>4, OriginStays

\* or handed to the TLS client.
LEMMA OriginCopy ==
    ASSUME TypeOK, OriginInv, UNCHANGED proxyVars, NEW len \in 1..MaxRead, RecvCopy(len)
    PROVE  OriginInv'
<1>. DEFINE avail == Len(frame_buf) - frame_off
            take == IF len < avail THEN len ELSE avail
            p == SubSeq(frame_buf, frame_off + 1, frame_off + take)
            s == rcvd[attempt]
            m == Len(rcvd[attempt])
<1>1. /\ pc \in {"app", "copy"} /\ pc' = "app" /\ frame_off < Len(frame_buf)
      /\ rcvd' = [rcvd EXCEPT ![attempt] = s \o p]
      /\ UNCHANGED <<up, down, rdr, op, attempt, resp, frame_buf>>
  BY DEF RecvCopy, Goto, linkVars, cmdVars
<1>2. /\ attempt \in Attempt /\ rcvd \in [Attempt -> Seq(Byte)] /\ s \in Seq(Byte) /\ m \in Nat
      /\ frame_buf \in Seq(Byte) /\ Len(frame_buf) \in Nat /\ frame_off \in Nat
  <2>1. attempt \in Attempt
    BY <1>1, PlainTypes DEF Talking
  <2>2. rcvd \in [Attempt -> Seq(Byte)] /\ frame_buf \in Seq(Byte) /\ frame_off \in 0..Len(frame_buf)
    BY DEF TypeOK, PortTypeOK, StreamTypeOK, FrameTypeOK
  <2>3. s \in Seq(Byte) /\ Len(frame_buf) \in Nat
    BY <2>1, <2>2, SeqDomain
  <2>. QED  BY <2>1, <2>2, <2>3, SeqDomain
<1>3. take \in Nat /\ frame_off + take <= Len(frame_buf) /\ frame_off + take \in Nat
  <2>1. len \in Nat
    BY PortAssumption
  <2>. QED  BY <1>1, <1>2, <2>1
<1>. HIDE DEF take
<1>4. /\ p \in Seq(Byte) /\ Len(p) = take
      /\ \A i \in 1..take : p[i].conn = attempt
  <2>1. /\ frame_off + 1 \in Nat /\ frame_off + 1 >= 1 /\ frame_off + 1 <= frame_off + take + 1
        /\ frame_off + take + 1 - (frame_off + 1) = take
        /\ \A i \in 1..take : frame_off + 1 + i - 1 \in 1..Len(frame_buf)
    BY <1>2, <1>3
  <2>2. /\ p \in Seq(Byte) /\ Len(p) = frame_off + take + 1 - (frame_off + 1)
        /\ \A i \in 1..(frame_off + take + 1 - (frame_off + 1)) :
              p[i] = frame_buf[frame_off + 1 + i - 1]
    BY <1>2, <1>3, <2>1, SeqSegment
  <2>. HIDE DEF p
  <2>3. \A j \in 1..Len(frame_buf) : frame_buf[j].conn = attempt
    <3>1. DOMAIN frame_buf = 1..Len(frame_buf)
      BY <1>2, SeqDomain
    <3>. QED  BY <1>1, <3>1 DEF OriginInv, OwnBuffers
  <2>. QED  BY <2>1, <2>2, <2>3
<1>. HIDE DEF p
<1>5. ASSUME NEW i \in DOMAIN (s \o p)
      PROVE  (s \o p)[i].conn = attempt
  <2>1. s \in Seq(Byte) /\ p \in Seq(Byte) /\ Len(p) = take
    BY <1>2, <1>4
  <2>2. Of(attempt, s)
    BY <1>2 DEF OriginInv, NoForeignBytes, Of
  <2>3. Of(attempt, p)
    BY <1>4, SeqDomain DEF Of
  <2>. HIDE DEF s
  <2>4. Of(attempt, s \o p)
    BY <2>2, <2>3, OfBoth
  <2>. QED  BY <2>4 DEF Of
<1>6. NoForeignBytes'
  <2>1. rcvd'[attempt] = s \o p /\ \A c \in Attempt : c # attempt => rcvd'[c] = rcvd[c]
    BY <1>1, <1>2
  <2>. HIDE DEF s
  <2>. QED  BY <1>5, <2>1 DEF OriginInv, NoForeignBytes
<1>7. Granting /\ OwnBuffers'
  BY <1>1 DEF Granting, OriginInv, OwnBuffers
<1>8. Thinned /\ NothingAsked
  BY <1>1, Quiet
<1>. QED  BY <1>1, <1>6, <1>7, <1>8, OriginStays

LEMMA OriginStep ==
    TypeOK /\ UplinkInv /\ OriginInv /\ ReplyIsOwn /\ [Next]_vars => OriginInv'
<1>. SUFFICES ASSUME TypeOK, UplinkInv, OriginInv, ReplyIsOwn, [Next]_vars
              PROVE  OriginInv'
  OBVIOUS
<1>1. CASE (PortStep \/ Caller \/ Timer \/ Reboot) /\ UNCHANGED proxyVars
  BY <1>1, OriginElsewhere, OriginCommand, OriginLine, OriginReply, OriginFrame, OriginRead,
     OriginSend, OriginCopy DEF PortStep, Caller, Timer
<1>2. CASE (ReadUart \/ Serve \/ ReadNet) /\ UNCHANGED portVars
  BY <1>2, OriginReadUart, OriginServe, OriginReadNet
<1>3. CASE (\E n \in 0..Len(down) : Restart(n)) /\ UNCHANGED portVars
  BY <1>3, OriginRestart
<1>4. CASE Wire /\ UNCHANGED <<portVars, proxyVars>>
  BY <1>4, OriginWire
<1>5. CASE UNCHANGED vars
  <2>1. /\ Thinned /\ NothingAsked /\ OwnBuffers' /\ NoForeignBytes' /\ Granting' = Granting
        /\ UNCHANGED <<attempt, proxyVars>>
    BY <1>5, BoardKeeps, ThinSame DEF vars, linkVars, portVars, cmdVars, Coming, NothingAsked
  <2>. QED  BY <2>1, OriginStays
<1>. QED  BY <1>1, <1>2, <1>3, <1>4, <1>5 DEF Next, Finished

LEMMA OriginInit == Init => OriginInv
<1>. SUFFICES ASSUME Init
              PROVE  OriginInv
  OBVIOUS
<1>1. DOMAIN (<<>>) = {} /\ <<>> \o <<>> = <<>>
  BY SeqNone, SeqDomain, SeqUnit
<1>2. Coming = <<>> /\ up = <<>> /\ pc = "closed" /\ busy = NoCommand
      /\ rcvd = [c \in Attempt |-> <<>>]
  BY <1>1 DEF Init, PortInit, ProxyInit, Coming
<1>3. NoForeignBytes
  BY <1>1, <1>2 DEF NoForeignBytes
<1>4. ~Granting /\ OwnBuffers
  BY <1>2 DEF Granting, OwnBuffers
<1>5. CommandOrder
  BY <1>1, <1>2 DEF CommandOrder
<1>. QED  BY <1>3, <1>4, <1>5 DEF OriginInv

\* For all streams of the peer, and whatever is lost on the line, late, reset or
\* restarted: as long as tls_port_connect (tls_port.c:173) takes no "OK" that an
\* earlier command or its connection has left on the line, tls_port_recv returns no
\* byte of another connection, even where it cuts frames at the wrong place.
THEOREM ForeignBytesNeedForeignReply ==
    Spec /\ []ReplyIsOwn => []NoForeignBytes
<1>1. OriginInv => NoForeignBytes
  BY DEF OriginInv
<1>. QED  BY <1>1, OriginInit, OriginStep, TypeCorrect, UplinkInvariant, PTL DEF Spec

\* When the code's timing assumptions hold every reply is in time (uart_read_line of
\* tls_port_connect has not given up before it comes), so that a behaviour with
\* Paced is one with ReplyIsOwn.
THEOREM RepliesInTime ==
    ASSUME Paced
    PROVE  Spec => []ReplyIsOwn
<1>1. TypeOK /\ DownlinkInv => ReplyIsOwn
  <2>. SUFFICES ASSUME TypeOK, DownlinkInv, pc = "line", resp # <<>>, rdr # <<>>, ch.val = 75
                PROVE  ch.conn = attempt
    BY DEF ReplyIsOwn
  <2>1. PICK t : AnsweredWith(t)
    BY DEF DownlinkInv, Conversation, Awaiting, Answered
  <2>2. 1 \in DOMAIN Coming /\ ch = Coming[1]
    <3>1. rdr \in Seq(Byte) /\ down \in Seq(Byte)
      BY DEF TypeOK, LinkTypeOK
    <3>2. Coming \in Seq(Byte) /\ Coming # <<>> /\ Coming[1] = rdr[1]
      BY <3>1, SeqLonger DEF Coming
    <3>3. Len(Coming) \in Nat \ {0} /\ DOMAIN Coming = 1..Len(Coming)
      BY <3>2, SeqTail, SeqDomain
    <3>. QED  BY <3>2, <3>3 DEF ch
  <2>3. Stale(attempt, ch) \/ Current(attempt, fwd[attempt], t, ch)
    BY <2>1, <2>2 DEF AnsweredWith, Runs
  <2>. QED  BY <2>3 DEF Stale, Current
<1>. QED  BY <1>1, DownlinkInvariant, TypeCorrect, PTL

=============================================================================
