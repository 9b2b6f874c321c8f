----------------------------- MODULE ProxyInput -----------------------------
(***************************************************************************)
(* How EST_Python/EST_networking.py reads the UART: which bytes it takes   *)
(* for a frame, a command line or raw data.  The proxy opens the port in   *)
(* the middle of a run of the board, and the board is reset in the middle  *)
(* of an item, so that the proxy may be out of step with the board.        *)
(***************************************************************************)
EXTENDS UartBytes, FiniteSets

VARIABLES
    mode,       \* where the loop is, see ModeValues
    held,       \* what has been read of the frame or line
    conn,       \* the command that opened the TCP connection, or NoConn
    delivered   \* bytes written to that connection

inputVars == <<mode, held, conn, delivered>>

ModeValues == {
    "closed",   \* the port is not open
    "loop",     \* ser.read(1) at the top of the loop
    "frame",    \* read_serial_exact in handle_uart_frame
    "line",     \* ser.readline() in read_command_line
    "serve",    \* socket.create_connection
    "recv" }    \* about to poll the socket, after raw data

NoConn == [boot |-> 0, item |-> 0]
Connected == conn # NoConn

InputInit == mode = "closed" /\ held = <<>> /\ conn = NoConn /\ delivered = <<>>

First == Head(pipe)
IsFrame(v) == v \in {UART_FRAME_LOG, UART_FRAME_DATA}

\* What is held is the beginning of a frame, or of one line.
HeldOK ==
    /\ mode \in {"closed", "loop", "recv"} <=> held = <<>>
    /\ mode = "frame" => IsFrame(held[1].val)
    /\ mode = "line" =>
          ~IsFrame(held[1].val) /\ \A k \in 2..(Len(held) - 1) : held[k].val # LF

InputTypeOK ==
    /\ mode \in ModeValues
    /\ held \in Seq(TaggedByte) /\ delivered \in Seq(TaggedByte)
    /\ conn \in [boot : 0..MaxBoots, item : 0..Len(Script)]
    /\ HeldOK
    /\ mode \in {"closed", "serve"} => ~Connected
    /\ mode = "closed" => pipe = <<>>

-----------------------------------------------------------------------------
\* close_socket
CloseSocket == conn' = NoConn /\ delivered' = <<>>
KeepSocket  == UNCHANGED <<conn, delivered>>

BackToLoop == mode' = "loop" /\ held' = <<>>

\* serial.Serial(...), reset_input_buffer()
OpenPort ==
    /\ mode = "closed"
    /\ BackToLoop /\ pipe' = <<>>
    /\ UNCHANGED <<boardVars, answer, conn, delivered>>

\* The process is gone, with its port and its connection.
ClosePort ==
    /\ mode' = "closed" /\ held' = <<>> /\ pipe' = <<>>
    /\ CloseSocket

-----------------------------------------------------------------------------
ReadFirst(next) ==
    /\ mode = "loop" /\ pipe # <<>>
    /\ mode' = next /\ held' = <<First>> /\ pipe' = Tail(pipe)
    /\ KeepSocket
    /\ UNCHANGED <<boardVars, answer>>

FrameStarts == ReadFirst("frame") /\ IsFrame(First.val)

\* Any other byte while disconnected, only a C while connected.
LineStarts ==
    /\ ReadFirst("line") /\ ~IsFrame(First.val)
    /\ Connected => IsC(First.val)

\* Anything else goes to the socket as it is: first + ser.read(1023), which
\* returns what has come within 0.1 s.
RawBytes(n) ==
    /\ mode = "loop" /\ pipe # <<>> /\ Connected
    /\ ~IsFrame(First.val) /\ ~IsC(First.val)
    /\ pipe' = SubSeq(pipe, n + 1, Len(pipe))
    /\ \/ delivered' = delivered \o SubSeq(pipe, 1, n) /\ mode' = "recv"
          /\ UNCHANGED <<conn, held>>
       \/ CloseSocket /\ UNCHANGED <<mode, held>>
    /\ UNCHANGED <<boardVars, answer>>

-----------------------------------------------------------------------------
\* Mutant of Need: the length is little-endian.
Need_little(h) ==
    IF Len(h) < HeaderLen THEN HeaderLen
    ELSE HeaderLen + h[3].val * 256 + h[2].val

\* The two calls of read_serial_exact: how long the frame is.
Need(h) ==
    IF Len(h) < HeaderLen THEN HeaderLen
    ELSE HeaderLen + h[2].val * 256 + h[3].val

Missing == Need(held) - Len(held)

\* ser.read(length - len(data)) returns what is there.
ReadFrame ==
    /\ mode = "frame" /\ Missing > 0 /\ pipe # <<>>
    /\ LET n == IF Missing < Len(pipe) THEN Missing ELSE Len(pipe) IN
          held' = held \o SubSeq(pipe, 1, n) /\ pipe' = SubSeq(pipe, n + 1, Len(pipe))
    /\ KeepSocket
    /\ UNCHANGED <<boardVars, answer, mode>>

\* Mutant of HandleFrame: the type is not looked at.
HandleFrame_any ==
    /\ mode = "frame" /\ Missing = 0 /\ Len(held) >= HeaderLen
    /\ BackToLoop
    /\ IF ~Connected THEN KeepSocket
       ELSE /\ delivered' = delivered \o SubSeq(held, HeaderLen + 1, Len(held))
            /\ UNCHANGED conn
    /\ UNCHANGED <<boardVars, answer, pipe>>

\* print_stm_log; DATA is ignored while disconnected, and otherwise sent, or
\* sendall raises and the socket is closed.
HandleFrame ==
    /\ mode = "frame" /\ Missing = 0 /\ Len(held) >= HeaderLen
    /\ BackToLoop
    /\ IF held[1].val = UART_FRAME_LOG \/ ~Connected THEN KeepSocket
       ELSE \/ /\ delivered' = delivered \o SubSeq(held, HeaderLen + 1, Len(held))
               /\ UNCHANGED conn
            \/ CloseSocket
    /\ UNCHANGED <<boardVars, answer, pipe>>

\* Mutant of FrameTimeout: read_serial_exact without a deadline.
FrameTimeout_never ==
    /\ mode = "frame" /\ FALSE
    /\ BackToLoop /\ CloseSocket
    /\ UNCHANGED <<boardVars, answer, pipe>>

\* The rest of a frame that the board transmits whole is there within 0.1 s.
Arriving ==
    LET s == held \o pipe \o tx IN
    Missing <= Len(pipe \o tx) /\ s[1].off = 1 /\ WholeAt(s, 1)

\* The 5 s are over: what was read is dropped, and with it the connection.  A
\* frame that was cut, or never was one, may be filled up by then or not.
FrameTimeout ==
    /\ mode = "frame" /\ Missing > 0 /\ ~Arriving
    /\ BackToLoop /\ CloseSocket
    /\ UNCHANGED <<boardVars, answer, pipe>>

-----------------------------------------------------------------------------
\* readline() reads up to a newline.  The byte that began the line is not one
\* of those it looks at.
LineEnded == Len(held) > 1 /\ held[Len(held)].val = LF

ReadLine ==
    /\ mode = "line" /\ ~LineEnded /\ pipe # <<>>
    /\ held' = Append(held, First) /\ pipe' = Tail(pipe)
    /\ KeepSocket
    /\ UNCHANGED <<boardVars, answer, mode>>

\* ... or until nothing has come for 0.1 s.
Silence == pipe = <<>> /\ tx = <<>>
LineComplete == mode = "line" /\ (LineEnded \/ Silence)

\* decode("utf-8", errors="ignore"): a byte above 127 is dropped, or it belongs to a
\* character, which is white space, a decimal digit, or neither.
Dropped  == 256
NotAscii == {Dropped, 9, 48, 128}

\* The texts a line may be read as.
Texts(h) ==
    LET values == [k \in DOMAIN h |-> h[k].val]
        odd    == {k \in DOMAIN h : h[k].val > 127}
        Kept(r) == SelectSeq(r, LAMBDA c : c # Dropped)
    IN  IF odd = {} THEN {values}
        ELSE {Kept([k \in DOMAIN h |-> IF k \in odd THEN f[k] ELSE values[k]]) :
                f \in [odd -> NotAscii]}

Blank == 9..13 \cup 28..32
Digit == 48..57
Sign  == {43, 45}
Underscore == 95

\* What .strip() leaves starts with one of the commands.  Their blank is left only
\* if something is behind it.
IsCommand(t) ==
    \E k \in DOMAIN t, w \in {CONNECT, CERT} :
        /\ \A j \in 1..(k - 1) : t[j] \in Blank
        /\ StartsWith(SubSeq(t, k, Len(t)), w)
        /\ \E j \in (k + Len(w))..Len(t) : t[j] \notin Blank

\* .split(): the characters that are not white space, and where the parts begin.
Ink(t)   == {k \in DOMAIN t : t[k] \notin Blank}
Heads(t) == LET ink == Ink(t) IN {k \in ink : k - 1 \notin ink}

\* int() of the last part, which begins at k.
IsInt(t, k) ==
    LET part  == {j \in Ink(t) : j >= k}
        digit == {j \in part : t[j] \in Digit}
    IN  \A j \in part \ digit :
            /\ j + 1 \in digit
            /\ \/ t[j] \in Sign /\ j = k
               \/ t[j] = Underscore /\ j - 1 \in digit

\* Mutant of WellFormed: only the beginning of the line is looked at.
WellFormed_prefix(t) == IsCommand(t)

\* Three parts, and the last of them is a number.
WellFormed(t) ==
    /\ IsCommand(t) /\ Cardinality(Heads(t)) = 3
    /\ \E k \in Heads(t) : (\A j \in Heads(t) : j <= k) /\ IsInt(t, k)

\* The lines of the script are well-formed as they are: what tls_port_connect writes,
\* to a host whose name is in ASCII.
LinesAccepted ==
    \A i \in DOMAIN Script : Script[i].kind = "line" =>
        /\ WellFormed(Script[i].text)
        /\ \A k \in DOMAIN Script[i].text : Script[i].text[k] < 128

IgnoreLine ==
    /\ LineComplete /\ \E t \in Texts(held) : ~IsCommand(t)
    /\ BackToLoop /\ KeepSocket
    /\ UNCHANGED <<boardVars, answer, pipe>>

RejectLine ==
    /\ LineComplete /\ \E t \in Texts(held) : IsCommand(t) /\ ~WellFormed(t)
    /\ BackToLoop /\ KeepSocket /\ answer' = "ERR"
    /\ UNCHANGED <<boardVars, pipe>>

\* The line is a command, which is now being executed.  Both commands begin with a
\* C, and what is stripped or dropped in front of them holds none.
Serve ==
    /\ LineComplete /\ \E t \in Texts(held) : WellFormed(t)
    /\ mode' = "serve"
    /\ \E k \in DOMAIN held :
          /\ IsC(held[k].val) /\ \A j \in 1..(k - 1) : ~IsC(held[j].val)
          /\ held' = SubSeq(held, k, Len(held))
    /\ UNCHANGED <<boardVars, answer, pipe>>

\* Mutant of ServeLine: the old connection is kept while the new one is opened.
ServeLine_keep == Serve /\ KeepSocket

\* close_socket(), then the proxy blocks in create_connection.
ServeLine == Serve /\ CloseSocket

\* Which command it is: none of its letters is above 127.
Serves(w) ==
    LET values == [k \in DOMAIN held |-> held[k].val] IN
    mode = "serve" /\ StartsWith(SelectSeq(values, LAMBDA v : v < 128), w)

Connects ==
    /\ Serves(CONNECT)
    /\ BackToLoop /\ answer' = "OK"
    /\ conn' = [boot |-> held[1].boot, item |-> held[1].item]
    /\ UNCHANGED <<boardVars, pipe, delivered>>

\* A CERT line that is answered leaves the proxy disconnected.
Fetches ==
    /\ Serves(CERT)
    /\ BackToLoop /\ answer' = "OK"
    /\ UNCHANGED <<boardVars, pipe, conn, delivered>>

Fails ==
    /\ mode = "serve"
    /\ BackToLoop /\ answer' = "ERR"
    /\ UNCHANGED <<boardVars, pipe, conn, delivered>>

-----------------------------------------------------------------------------
\* The loop polls the socket when ser.read(1) has timed out, and after raw data.
MayRecv == mode = "recv" \/ (mode = "loop" /\ pipe = <<>>)

RemoteCloses ==
    /\ MayRecv /\ Connected
    /\ BackToLoop /\ CloseSocket
    /\ UNCHANGED <<boardVars, answer, pipe>>

NothingClosed ==
    /\ mode = "recv"
    /\ BackToLoop /\ KeepSocket
    /\ UNCHANGED <<boardVars, answer, pipe>>

-----------------------------------------------------------------------------
ReadUart ==
    \/ FrameStarts \/ LineStarts \/ (\E n \in 1..Len(pipe) : RawBytes(n))
    \/ ReadFrame \/ HandleFrame \/ FrameTimeout
    \/ ReadLine \/ IgnoreLine \/ RejectLine \/ ServeLine
    \/ Connects \/ Fetches \/ Fails
    \/ NothingClosed

=============================================================================
