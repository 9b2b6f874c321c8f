------------------------------ MODULE UartBytes ------------------------------
(***************************************************************************)
(* What the board puts on the UART, byte by byte: the frames and command   *)
(* lines of Core/TLS/tls_port.c, transmitted by a firmware that may be     *)
(* reset between any two bytes.  UartLink has whole items instead; this    *)
(* module and ProxyInput are about how the host finds their boundaries.    *)
(*                                                                         *)
(*   tx    the rest of the item that is being transmitted                  *)
(*   pipe  received by the host and not read by the proxy yet              *)
(*                                                                         *)
(* A byte carries its value, which is all the host sees, and where it      *)
(* comes from, which only the properties look at.                          *)
(***************************************************************************)
EXTENDS Naturals, Sequences

CONSTANTS
    Script,     \* what main prints, asks for and sends after a boot
    MaxBoots,   \* bound: times the board is started
    PipeMax     \* bound: bytes the host has received and not read

ByteValue == 0..255
LF == 10

\* "CONNECT " and "CERT ", in ASCII as they are sent.
CONNECT == <<67, 79, 78, 78, 69, 67, 84, 32>>
CERT    == <<67, 69, 82, 84, 32>>
IsC(v)  == v = 67

StartsWith(t, w) == Len(w) <= Len(t) /\ SubSeq(t, 1, Len(w)) = w

UART_TX_CHUNK_MAX == 1024

\* An item of the script: a printf, a chunk of what the TLS client sends, or a
\* CONNECT or CERT line.
Entry == [kind : {"log", "data", "line"}, text : Seq(ByteValue)]

ASSUME BytesAssumption ==
    /\ Script \in Seq(Entry)
    /\ MaxBoots \in Nat \ {0} /\ PipeMax \in Nat \ {0}

\* A line begins with one of the commands and ends with its only newline.
ASSUME TextAssumption ==
    \A i \in DOMAIN Script :
        /\ Len(Script[i].text) \in 1..UART_TX_CHUNK_MAX
        /\ Script[i].kind = "line" =>
              /\ StartsWith(Script[i].text, CONNECT) \/ StartsWith(Script[i].text, CERT)
              /\ \A k \in DOMAIN Script[i].text :
                    Script[i].text[k] = LF <=> k = Len(Script[i].text)

VARIABLES
    boot,       \* times the board has been started
    step,       \* the next item of the script
    tx, pipe,
    waiting,    \* tls_port_connect is in uart_read_line
    session,    \* sock->connected
    answer      \* reply on its way to the board: "none", "OK" or "ERR"

boardVars == <<boot, step, tx, waiting, session>>
byteVars  == <<boardVars, pipe, answer>>

-----------------------------------------------------------------------------
UART_FRAME_LOG  == 1
UART_FRAME_DATA == 2

\* uart_write_frame: type, length in two bytes, contents.
Frame(type, buf) == <<type, Len(buf) \div 256, Len(buf) % 256>> \o buf
HeaderLen == 3

\* What each item looks like on the line.
Encoded ==
    [i \in DOMAIN Script |->
        LET e == Script[i] IN
        CASE e.kind = "log"  -> Frame(UART_FRAME_LOG, e.text)
          [] e.kind = "data" -> Frame(UART_FRAME_DATA, e.text)
          [] e.kind = "line" -> e.text]

\* Byte o of item i, sent after boot b, and the whole item.
ByteOf(b, i, o) == [val |-> Encoded[i][o], boot |-> b, item |-> i, off |-> o]
Item ==
    [b \in 1..MaxBoots |-> [i \in DOMAIN Script |->
        [o \in 1..Len(Encoded[i]) |-> ByteOf(b, i, o)]]]

TaggedByte ==
    [val : ByteValue, boot : 1..MaxBoots, item : DOMAIN Script, off : Nat \ {0}]

Kind(b) == Script[b.item].kind
Size(b) == Len(Encoded[b.item])

BytesTypeOK ==
    /\ boot \in 1..MaxBoots /\ step \in 1..(Len(Script) + 1)
    /\ tx \in Seq(TaggedByte) /\ pipe \in Seq(TaggedByte)
    /\ waiting \in BOOLEAN /\ session \in BOOLEAN
    /\ answer \in {"none", "OK", "ERR"}

BytesInit ==
    /\ boot = 1 /\ step = 1 /\ tx = <<>> /\ pipe = <<>>
    /\ waiting = FALSE /\ session = FALSE /\ answer = "none"

-----------------------------------------------------------------------------
\* The firmware is between two transmissions and not waiting for a reply.
Free(kind) ==
    /\ tx = <<>> /\ ~waiting
    /\ step <= Len(Script) /\ Script[step].kind = kind
    /\ step' = step + 1

\* printf: _write hands each line to tls_port_log_write.
PrintLog ==
    /\ Free("log")
    /\ tx' = Item[boot][step]
    /\ UNCHANGED <<boot, waiting, session, pipe, answer>>

\* tls_port_connect: the previous session is over, the drain has removed what
\* was on its way, the line goes out.
SendCommand ==
    /\ Free("line")
    /\ tx' = Item[boot][step]
    /\ waiting' = TRUE /\ session' = FALSE /\ answer' = "none"
    /\ UNCHANGED <<boot, pipe>>

\* tls_port_send writes one DATA frame; without a session there is nobody to
\* call it.
SendData ==
    /\ Free("data")
    /\ tx' = IF session THEN Item[boot][step] ELSE <<>>
    /\ UNCHANGED <<boot, waiting, session, pipe, answer>>

\* uart_read_line has returned a reply.
TakeAnswer ==
    /\ waiting /\ tx = <<>> /\ answer # "none"
    /\ waiting' = FALSE /\ session' = (answer = "OK") /\ answer' = "none"
    /\ UNCHANGED <<boot, step, tx, pipe>>

\* Two seconds without a reply: the step has failed.
ReplyTimeout ==
    /\ waiting /\ tx = <<>> /\ answer = "none"
    /\ waiting' = FALSE
    /\ UNCHANGED <<boot, step, tx, session, pipe, answer>>

\* The TLS client gives up, or has read EOF.
EndSession ==
    /\ session /\ tx = <<>>
    /\ session' = FALSE
    /\ UNCHANGED <<boot, step, tx, waiting, pipe, answer>>

Board ==
    \/ PrintLog \/ SendCommand \/ SendData
    \/ TakeAnswer \/ ReplyTimeout \/ EndSession

\* A byte arrives at the host, which keeps it if the port is open.
Transmit(open) ==
    /\ tx # <<>>
    /\ open => Len(pipe) < PipeMax
    /\ tx' = Tail(tx)
    /\ pipe' = IF open THEN Append(pipe, Head(tx)) ELSE pipe
    /\ UNCHANGED <<boot, step, waiting, session, answer>>

\* Whatever the board was sending ends where it is.
ResetBoard ==
    /\ boot < MaxBoots
    /\ boot' = boot + 1 /\ step' = 1 /\ tx' = <<>>
    /\ waiting' = FALSE /\ session' = FALSE /\ answer' = "none"
    /\ UNCHANGED pipe

-----------------------------------------------------------------------------
\* The item that the k-th byte of s belongs to is there from its first byte to
\* its last.
WholeAt(s, k) ==
    LET start == k - s[k].off IN
    /\ s[k].off <= k /\ s[k].off <= Size(s[k])
    /\ start + Size(s[k]) <= Len(s)
    /\ SubSeq(s, start + 1, start + Size(s[k])) = Item[s[k].boot][s[k].item]

\* s is made of whole items.
Whole(s) == \A k \in DOMAIN s : WholeAt(s, k)

=============================================================================
