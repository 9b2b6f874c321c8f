------------------------------ MODULE Downlink ------------------------------
(***************************************************************************)
(* Why what tls_port_recv returns is what the TCP peer sent: an inductive  *)
(* invariant of Transport, for the boards and hosts whose timing is as the *)
(* code expects it.  It says, for every place the firmware can be in,      *)
(* which bytes may be on their way to it and what it takes the next one    *)
(* for.  OriginInv, at the end, needs no timing: it says which connection  *)
(* the bytes of a session are of, once its reply is of the right one.      *)
(***************************************************************************)
EXTENDS Transport

\* The line loses nothing in a session, every reply comes before the timeout, the
\* client reads a session to its end and the board is not reset; and a read of
\* the proxy's socket (sock.recv(1024)) fits frame_buf and a two-byte length.
Paced ==
    /\ Faults \intersect {"overrun", "slow_reply", "split_line", "early_close", "reboot"} = {}
    /\ NetChunk <= TLS_FRAME_MAX /\ NetChunk < 256 * 256

\* The bytes on their way to the board, the one in its receive register first.
Coming == rdr \o down

-----------------------------------------------------------------------------
(* What follows what on the line. *)

OkText  == <<79, 75, 10>>
ErrText == <<69, 82, 82, 10>>
PemText == <<79, 75, 32, 48 + PemLen, 10>>

\* What the proxy says when it could do what op asks.
Granted == IF op = "CONNECT" THEN OkText ELSE PemText

\* In attempt c, a byte left from an earlier one: of an EOF, and so skipped by
\* uart_read_line.
Stale(c, b) == b.conn < c /\ b.val = 0

\* Byte b belongs to attempt c, which was answered with line t: to that line, to
\* the frames of a connection that has sent f bytes, or to the certificate.
Current(c, f, t, b) ==
    /\ b.conn = c
    /\ \/ b.kind = "reply" /\ b.pos = 0 /\ b.left < Len(t) /\ b.val = t[Len(t) - b.left]
       \/ /\ b.kind = "high" /\ t = OkText /\ b.left \in 1..(NetChunk + 1)
          /\ b.val = (b.left - 1) \div 256 /\ b.pos + (b.left - 1) <= f
       \/ /\ b.kind = "low" /\ t = OkText /\ b.left \in 0..NetChunk
          /\ b.val = b.left % 256 /\ b.pos + b.left <= f
       \/ b.kind = "data" /\ t = OkText /\ b.pos + b.left <= f
       \/ b.kind = "data" /\ t = PemText

\* What comes first after line t.
Opens(t, b) ==
    \/ t = OkText  /\ b.kind = "high" /\ b.pos = 0
    \/ t = PemText /\ b.kind = "data" /\ b.pos = 1 /\ b.left = PemLen - 1

\* In attempt c, byte b comes right after byte a.
After(c, t, a, b) ==
    \/ a.conn < c /\ (b.conn = c => b.kind = "reply" /\ b.left = Len(t) - 1)
    \/ /\ a.conn = c /\ b.conn = c
       /\ \/ a.kind = "reply" /\ a.left > 0 /\ b.kind = "reply" /\ b.left = a.left - 1
          \/ a.kind = "reply" /\ a.left = 0 /\ Opens(t, b)
          \/ a.kind = "high" /\ b.kind = "low" /\ b.pos = a.pos /\ b.left = a.left - 1
          \/ /\ a.kind \in {"low", "data"} /\ a.left > 0
             /\ b.kind = "data" /\ b.pos = a.pos + 1 /\ b.left = a.left - 1
          \/ a.kind = "data" /\ a.left = 0 /\ t = OkText /\ b.kind = "high" /\ b.pos = a.pos

\* The bytes w can come, in this order, to a reader that has just read a.
Runs(c, f, t, a, w) ==
    /\ \A i \in DOMAIN w : Stale(c, w[i]) \/ Current(c, f, t, w[i])
    /\ w # <<>> => After(c, t, a, w[1])
    /\ \A i \in 1..(Len(w) - 1) : After(c, t, w[i], w[i + 1])

\* The byte after which nothing is on its way any more.
Final(a, w) == IF w = <<>> THEN a ELSE w[Len(w)]

-----------------------------------------------------------------------------
(* What the board takes the next byte for. *)

\* How many bytes of its stream it has been given, those in frame_buf included.
Place == Len(rcvd[attempt]) + Len(frame_buf) - frame_off

Mark(c, kind, pos, left) == [conn |-> c, kind |-> kind, pos |-> pos, left |-> left]

\* The last byte read of reply line t or of what follows it, or a byte that would
\* leave the board where it is; one of an earlier attempt, before the line.
Cursor(t) ==
    CASE pc = "line" /\ resp = <<>>  -> Mark(0, "reply", 0, Len(t))
      [] pc = "line" /\ resp # <<>>  -> Mark(attempt, "reply", 0, Len(t) - Len(resp))
      [] pc = "reply" \/ (pc = "certbody" /\ got = <<>>) -> Mark(attempt, "reply", 0, 0)
      [] pc \in {"header", "payload", "certbody"} /\ got # <<>> -> got[Len(got)]
      [] pc = "payload" /\ got = <<>> -> Mark(attempt, "low", Place, want)
      [] OTHER -> Mark(attempt, "data", Place, 0)

\* resp is what has been read of t: all of it once the newline has come.
LineRead(t) ==
    /\ pc = "line" => Len(resp) < Len(t) /\ resp = SubSeq(t, 1, Len(resp))
    /\ pc = "reply" => resp = t

\* got is the beginning of what uart_read_exact was asked for.
ObjectRead(t) ==
    /\ pc = "header" =>
          /\ Len(got) >= 1 => /\ Current(attempt, fwd[attempt], t, got[1])
                              /\ got[1].kind = "high" /\ got[1].pos = Place
          /\ Len(got) = 2 => /\ Current(attempt, fwd[attempt], t, got[2])
                             /\ After(attempt, t, got[1], got[2])
    /\ pc = "payload" => want > 0 /\ Place + want <= fwd[attempt]
    /\ pc = "certbody" => want = PemLen
    /\ pc \in {"payload", "certbody"} =>
          \A i \in DOMAIN got : /\ got[i].kind = "data" /\ got[i].conn = attempt
                                /\ got[i].pos = Place + i /\ got[i].left = want - i

-----------------------------------------------------------------------------
(* The conversation of one attempt. *)

Unasked == Idle /\ \A i \in DOMAIN up : up[i].type \notin CommandName

\* The command of this attempt, and no other, is on its way or being served.
Asked ==
    \/ /\ Idle
       /\ \E k \in DOMAIN up :
             /\ up[k] = Command(op, attempt)
             /\ \A i \in DOMAIN up : i # k => up[i].type \notin CommandName
    \/ /\ busy = Command(op, attempt)
       /\ \A i \in DOMAIN up : up[i].type \notin CommandName

\* The connection has nothing more to say than that it is closed.
Spent == conn # 0 => fwd[conn] = Len(ServerStream[conn])

\* Between two commands.
AtRest ==
    /\ Unasked /\ conn \in {0, attempt} /\ Spent
    /\ \A i \in DOMAIN Coming : Coming[i].val = 0 /\ Coming[i].conn <= attempt

\* From the command line to the answer.
Awaiting ==
    /\ Asked /\ conn \in {0, attempt - 1} /\ (~Idle => conn = 0) /\ Spent
    /\ fwd[attempt] = 0 /\ resp = <<>>
    /\ \A i \in DOMAIN Coming : Stale(attempt, Coming[i])

\* Nothing more is written for attempt c than what ends with byte last.  While
\* the proxy has the connection k = c, that is a whole frame, or the line; unless
\* it was restarted, it is a whole frame or certificate in any case.
Whole(c, f, t, k, last) ==
    /\ k = c => /\ t = OkText /\ last.conn = c /\ last.kind \in {"reply", "data"}
                /\ last.left = 0 /\ last.pos = f /\ (last.kind = "reply" => f = 0)
    /\ "proxy_restart" \notin Faults => last.conn = c /\ last.left = 0 /\ last.kind # "high"

\* The proxy has answered with line t, and perhaps gone on.
AnsweredWith(t) ==
    /\ Unasked /\ conn \in {0, attempt}
    /\ LineRead(t) /\ ObjectRead(t)
    /\ Runs(attempt, fwd[attempt], t, Cursor(t), Coming)
    /\ Whole(attempt, fwd[attempt], t, conn, Final(Cursor(t), Coming))

Answered ==
    \E t \in {Granted, ErrText} :
        /\ pc \notin {"line", "reply"} => t = Granted
        /\ AnsweredWith(t)

\* Where the firmware is, and what goes with it.
Conversation ==
    /\ pc \in {"closed", "drain", "command"} => AtRest
    /\ pc = "line" => Awaiting \/ Answered
    /\ pc \in {"reply", "certbody", "app", "header", "payload", "copy"} => Answered
    /\ pc = "closing" => Unasked /\ conn = 0 /\ Coming = <<>>
    /\ pc = "halted" => Unasked /\ conn = 0

\* tls_port_fetch_server_cert never has to read a binary length; a session is one
\* of a CONNECT, and outside it nothing is buffered.
Phases ==
    /\ pc # "certlen"
    /\ pc = "certbody" => op = "CERT"
    /\ InSession => op = "CONNECT"
    /\ pc \in {"app", "header", "payload", "copy"} => connected
    /\ connected => InSession
    /\ ~InSession => frame_buf = <<>> /\ frame_off = 0
    /\ pc \in {"line", "reply", "certbody"} => rcvd[attempt] = <<>> /\ sent[attempt] = 0
    /\ pc = "header" => frame_off = Len(frame_buf)
    /\ pc = "payload" => frame_off = Len(frame_buf)

\* What the board holds of the stream, and what neither end has begun.
Holdings ==
    /\ \A c \in Attempt : c > attempt => fwd[c] = 0 /\ rcvd[c] = <<>>
    /\ InSession =>
          /\ Place <= fwd[attempt]
          /\ \A i \in DOMAIN frame_buf :
                /\ frame_buf[i].kind = "data" /\ frame_buf[i].conn = attempt
                /\ frame_buf[i].pos = Len(rcvd[attempt]) - frame_off + i

DownlinkInv ==
    /\ Conversation /\ Phases /\ Holdings
    /\ DownlinkInOrder /\ CertIntact
    /\ "proxy_restart" \notin Faults => FramesWellFormed

-----------------------------------------------------------------------------
\* For the refinement of SessionStream also: what is on its way up has been sent.
SentBefore == \A i \in DOMAIN up : up[i].upto <= sent[up[i].attempt]

-----------------------------------------------------------------------------
(* Which connection a session's bytes are of, whatever goes wrong. *)

\* The board completes an "OK" to its CONNECT with a byte the proxy wrote after this
\* command, not with a late answer to an earlier one, or with data of its
\* connection: the reply line does not say which command it answers.
ReplyIsOwn ==
    pc = "line" /\ op = "CONNECT" /\ resp = <<79>> /\ rdr # <<>> /\ ch.val = 75
        => ch.conn = attempt

\* All that comes is of commands before that of c.
LaterThan(c) == \A i \in DOMAIN Coming : Coming[i].conn < c

\* The proxy, which may drop what it was writing but reorders nothing, and the
\* line, which loses bytes, keep what comes in the order of the commands.
CommandOrder ==
    /\ \A i, j \in DOMAIN Coming : i <= j => Coming[i].conn <= Coming[j].conn
    /\ \A i \in DOMAIN Coming :
          Coming[i].conn <= attempt /\ (conn # 0 => Coming[i].conn <= conn)
    /\ busy # NoCommand => LaterThan(busy.attempt)
    /\ \A k \in DOMAIN up : up[k].type \in CommandName => LaterThan(up[k].attempt)

\* The board is in a session, or has read the OK that opens it.
Granting ==
    \/ pc \in {"app", "header", "payload", "copy"}
    \/ pc \in {"line", "reply"} /\ op = "CONNECT" /\ IsOK(resp)

\* Then nothing of another connection comes, or can come.
OwnLine ==
    /\ Unasked /\ conn \in {0, attempt}
    /\ \A i \in DOMAIN Coming : Coming[i].conn = attempt

OwnBuffers ==
    /\ pc \in {"header", "payload"} => \A i \in DOMAIN got : got[i].conn = attempt
    /\ pc \in {"app", "header", "payload", "copy"} =>
          \A i \in DOMAIN frame_buf : frame_buf[i].conn = attempt

OriginInv == CommandOrder /\ (Granting => OwnLine) /\ OwnBuffers /\ NoForeignBytes

=============================================================================
